----------------------------- MODULE OpticBuild -----------------------------
(***************************************************************************)
(* The build pipeline of src/src/build/mod.rs: Builder::build, the rayon   *)
(* pool of compile_all, the per-source pipeline of                         *)
(* compile_source_to_object_with_stats_impl, and the object cache that all *)
(* opticc processes of a machine share.                                    *)
(*                                                                         *)
(* A build is one call of Builder::build; builds overlap when they are     *)
(* run by several processes or threads.  A task <<b, i>> is the            *)
(* compilation of the i-th source of build b by one pool worker.  Files    *)
(* are written the way the code writes them: a copy or a tool first        *)
(* truncates its target, which is Damaged until the content is there.      *)
(***************************************************************************)
EXTENDS Naturals, Sequences, SequencesExt

CONSTANTS
  Builds,       \* calls of Builder::build
  Config,       \* Config[b]: the BuildConfig of build b
  Turn,         \* Turn[b]: b starts only after every build with a smaller turn has ended
  Sources,      \* paths of C sources
  Headers,      \* paths of headers
  HeaderOf,     \* HeaderOf[s]: the header that the #include of source s resolves to
  Stem,         \* Stem[s]: the file stem of source s
  Contents,     \* texts a source or a header can have
  Initial,      \* Initial[f]: the text of file f at the start
  Broken,       \* texts the front end or the code generator rejects
  Panicking,    \* texts that make the compiler panic
  Rejected,     \* texts whose code llc or the assembler rejects (verify()'s result is ignored)
  Installed,    \* the external tools find_tool finds: a subset of Tools
  Edits,        \* Edits[f]: what the user may save file f as during the run
  MaxEdits, MaxCrashes, MaxClears,  \* bounds of the environment's actions
  Absent,       \* no such file
  Damaged       \* a file that is truncated or half written

Files == Sources \cup Headers
Tools == {"llc", "clang", "ar"}
OutputTypes == {"Object", "StaticLib", "SharedLib", "Executable"}
Stems == {Stem[s] : s \in Sources}
Outputs == {Config[b].output : b \in Builds}

(***************************************************************************)
(* config.flags are the strings build_cache_key collects (-I, -include,    *)
(* sorted -D, -O, schema, -nostdinc), each a sequence of characters; a     *)
(* request for return thunks adds one more.                                *)
(***************************************************************************)
FlagStrings(b) ==
  Config[b].flags \o IF Config[b].thunk THEN << <<"-mfunction-return">> >> ELSE <<>>

\* CacheKey::new hashes the text of the source alone, and the flags one after
\* the other with nothing between them.
CacheKey(b, source_text) ==
  [source_hash |-> source_text, flags_hash |-> FlattenSeq(FlagStrings(b))]

CacheKeys == [source_hash : Contents, flags_hash : {CacheKey(b, Absent).flags_hash : b \in Builds}]

\* What a file of the pipeline holds: IR, assembly or an object, by what it was made from.
Product == [text : Contents, header : Contents,
            flags : {FlagStrings(b) : b \in Builds}, rethunk : BOOLEAN]
FileValue == Product \cup {Absent, Damaged}

Tasks == {t \in Builds \X UNION {DOMAIN Config[b].sources : b \in Builds} :
            t[2] \in DOMAIN Config[t[1]].sources}
TasksOf(b) == {t \in Tasks : t[1] = b}
Source(t) == Config[t[1]].sources[t[2]]

Slots == Builds \X Stems

\* Mutant: one set of intermediate files for the whole build.
SlotOfBuild(t) == <<t[1], CHOOSE st \in Stems : TRUE>>

\* temp_dir/stem.*: the pipeline's files are named by the stem of the source only.
Slot(t) == <<t[1], Stem[Source(t)]>>

Ended == {"ok", "err", "panic", "killed"}
TaskStates == Ended \cup {"queued", "keyed", "hit", "restoring", "missed", "reading",
                "compiled", "creating", "ll", "asm", "rewritten", "emitting",
                "mkdir", "store", "storing"}
BuildEnded == {"done", "failed", "panicked", "killed"}
BuildStates == BuildEnded \cup {"idle", "compiling", "linking", "linked"}

ASSUME ConstantsAssumption ==
  /\ Config \in [Builds -> [sources : Seq(Sources), flags : Seq(Seq(STRING)), thunk : BOOLEAN,
                            jobs : Nat \ {0}, output_type : OutputTypes, output : STRING]]
  /\ Turn \in [Builds -> Nat]
  /\ HeaderOf \in [Sources -> Headers]
  /\ DOMAIN Stem = Sources
  /\ Initial \in [Files -> Contents \cup {Absent}]
  /\ Broken \cup Panicking \cup Rejected \subseteq Contents
  /\ Panicking \cap (Broken \cup Rejected) = {}
  /\ Installed \subseteq Tools
  /\ Edits \in [Files -> SUBSET (Contents \cup {Absent})]
  /\ {MaxEdits, MaxCrashes, MaxClears} \subseteq Nat
  /\ Absent \notin {Damaged, {}}
  /\ \A v \in {Absent, Damaged} : v \notin Contents /\ v \notin Product

VARIABLES
  disk,      \* disk[f]: the text of source or header f
  cacheDir,  \* whether temp_dir()/opticc-cache exists
  cache,     \* the entries of the cache directory, by key
  ll, asm, obj,  \* the files of the builds' temp dirs, by slot
  tempDir,   \* the builds whose temp dir exists
  scratch,   \* the tasks whose database and arena files exist
  pc,        \* pc[t]: where task t is
  key,       \* key[t]: its cache key, once computed
  ir,        \* ir[t]: what it has read or made, in memory
  pinned,    \* pinned[t]: the content of the cache file t holds open, once it is unlinked
  bpc,       \* bpc[b]: where Builder::build is
  why,       \* why[b]: the position of the source whose error build() returns, else 0
  out,       \* out[p]: the members of output p, by stem
  cleaner,   \* keys clear_compile_cache has listed and must remove; Absent when idle
  faults     \* the environment's actions left

treeVars  == <<disk, faults>>
cacheVars == <<cacheDir, cache, pinned, cleaner>>
tempVars  == <<ll, asm, obj, tempDir, scratch>>
taskVars  == <<pc, key, ir>>
buildVars == <<bpc, why, out>>
vars == <<treeVars, cacheVars, tempVars, taskVars, buildVars>>

Init ==
  /\ disk = Initial
  /\ cacheDir = FALSE
  /\ cache = <<>>
  /\ ll = [x \in Slots |-> Absent]
  /\ asm = ll
  /\ obj = ll
  /\ tempDir = {}
  /\ scratch = {}
  /\ pc = [t \in Tasks |-> "queued"]
  /\ key = [t \in Tasks |-> Absent]
  /\ ir = key
  /\ pinned = key
  /\ bpc = [b \in Builds |-> "idle"]
  /\ why = [b \in Builds |-> 0]
  /\ out = [p \in Outputs |-> [st \in Stems |-> Absent]]
  /\ cleaner = Absent
  /\ faults = [edit |-> MaxEdits, crash |-> MaxCrashes, clear |-> MaxClears]

Whole(v) == v \notin {Absent, Damaged}
Goto(t, from, to) == pc[t] = from /\ pc' = [pc EXCEPT ![t] = to]

\* The tasks the pool's workers are busy with.
Active(b) == {t \in TasksOf(b) : pc[t] \notin Ended \cup {"queued"}}

-----------------------------------------------------------------------------
(* The task: compile_file_to_object_impl on a pool worker.                 *)

\* A free worker takes the source and reads it for build_cache_key.
BuildKey(t) ==
  /\ bpc[t[1]] = "compiling"
  /\ Cardinality(Active(t[1])) < Config[t[1]].jobs
  /\ IF disk[Source(t)] = Absent
       THEN Goto(t, "queued", "err") /\ UNCHANGED key
       ELSE /\ Goto(t, "queued", "keyed")
            /\ key' = [key EXCEPT ![t] = CacheKey(t[1], disk[Source(t)])]
  /\ UNCHANGED <<ir, treeVars, cacheVars, tempVars, buildVars>>

\* Mutant: an entry of the same text will do, whatever its flags.
LookupOfText(t) ==
  LET found == {k \in DOMAIN cache : k.source_hash = key[t].source_hash}
  IN /\ Goto(t, "keyed", IF found # {} THEN "hit" ELSE "missed")
     /\ key' = IF found = {} THEN key ELSE [key EXCEPT ![t] = CHOOSE k \in found : TRUE]
     /\ UNCHANGED <<ir, treeVars, cacheVars, tempVars, buildVars>>

\* restore_cached_object: the test cached_object.exists().
Lookup(t) ==
  /\ Goto(t, "keyed", IF key[t] \in DOMAIN cache THEN "hit" ELSE "missed")
  /\ UNCHANGED <<key, ir, treeVars, cacheVars, tempVars, buildVars>>

\* restore_cached_object: fs::copy opens the entry and truncates the object.
RestoreOpen(t) ==
  /\ IF key[t] \in DOMAIN cache
       THEN /\ Goto(t, "hit", "restoring")
            /\ obj' = [obj EXCEPT ![Slot(t)] = Damaged]
       ELSE Goto(t, "hit", "err") /\ UNCHANGED obj
  /\ UNCHANGED <<key, ir, ll, asm, tempDir, scratch, treeVars, cacheVars, buildVars>>

\* fs::copy copies what the open entry holds now, whole or not, and reports success.
RestoreCopy(t) ==
  /\ Goto(t, "restoring", "ok")
  /\ obj' = [obj EXCEPT ![Slot(t)] = IF pinned[t] = Absent THEN cache[key[t]] ELSE pinned[t]]
  /\ pinned' = [pinned EXCEPT ![t] = Absent]
  /\ UNCHANGED <<key, ir, ll, asm, tempDir, scratch, cacheDir, cache, cleaner, treeVars, buildVars>>

\* compile_to_ir_artifacts creates its database and arena and reads the source again.
ReadSource(t) ==
  /\ IF disk[Source(t)] = Absent
       THEN Goto(t, "missed", "err") /\ UNCHANGED <<ir, scratch>>
       ELSE /\ Goto(t, "missed", "reading")
            /\ ir' = [ir EXCEPT ![t] = disk[Source(t)]]
            /\ scratch' = scratch \cup {t}
  /\ UNCHANGED <<key, ll, asm, obj, tempDir, treeVars, cacheVars, buildVars>>

\* Mutant: the files are removed by the error path only.
KeptAfter(t, outcome) == IF outcome = "err" THEN scratch \ {t} ELSE scratch

\* Both files are removed on success and on error, but a panic unwinds past the removal.
ScratchAfter(t, outcome) == IF outcome = "panic" THEN scratch ELSE scratch \ {t}

\* How parsing and code generation of text end.
Outcome(text, header) ==
  IF header = Absent \/ text \in Broken THEN "err"
  ELSE IF text \in Panicking THEN "panic" ELSE "compiled"

\* ... then reads the source's header, parses and generates IR.
FrontEnd(t) ==
  LET header == disk[HeaderOf[Source(t)]]
      outcome == Outcome(ir[t], header)
  IN /\ Goto(t, "reading", outcome)
     /\ scratch' = ScratchAfter(t, outcome)
     /\ ir' = IF outcome # "compiled" THEN ir
              ELSE [ir EXCEPT ![t] = [text |-> ir[t], header |-> header,
                                      flags |-> FlagStrings(t[1]), rethunk |-> FALSE]]
     /\ UNCHANGED <<key, ll, asm, obj, tempDir, treeVars, cacheVars, buildVars>>

\* File::create(ll_path)
CreateLl(t) ==
  /\ Goto(t, "compiled", "creating")
  /\ ll' = [ll EXCEPT ![Slot(t)] = Damaged]
  /\ UNCHANGED <<key, ir, asm, obj, tempDir, scratch, treeVars, cacheVars, buildVars>>

\* Mutant: the source is written where its IR belongs.
WriteSource(t) ==
  /\ Goto(t, "creating", "ll")
  /\ ll' = [ll EXCEPT ![Slot(t)] = disk[Source(t)]]
  /\ UNCHANGED <<key, ir, asm, obj, tempDir, scratch, treeVars, cacheVars, buildVars>>

\* write_all through the open file: if another task has unlinked it, the text is lost.
\* Without llc the task ends here and leaves the file.
WriteLl(t) ==
  /\ Goto(t, "creating", IF "llc" \in Installed THEN "ll" ELSE "err")
  /\ ll' = [ll EXCEPT ![Slot(t)] = IF @ = Absent THEN Absent ELSE ir[t]]
  /\ UNCHANGED <<key, ir, asm, obj, tempDir, scratch, treeVars, cacheVars, buildVars>>

\* Mutant: what llc has refused is made and tried again.
LlcRetried(t) ==
  /\ Goto(t, "ll", "compiled")
  /\ Whole(ll[Slot(t)]) => ll[Slot(t)].text \in Rejected
  /\ ll' = [ll EXCEPT ![Slot(t)] = Absent]
  /\ UNCHANGED <<key, ir, asm, obj, tempDir, scratch, treeVars, cacheVars, buildVars>>

\* llc cannot read the file or rejects the IR: the file is removed, the task fails.
LlcFails(t) ==
  /\ Goto(t, "ll", "err")
  /\ Whole(ll[Slot(t)]) => ll[Slot(t)].text \in Rejected
  /\ ll' = [ll EXCEPT ![Slot(t)] = Absent]
  /\ UNCHANGED <<key, ir, asm, obj, tempDir, scratch, treeVars, cacheVars, buildVars>>

Accepts(v) == v # Absent /\ (Whole(v) => v.text \notin Rejected)

\* Mutant: llc is started and not waited for.
SpawnLlc(t) ==
  /\ Goto(t, "ll", "mkdir")
  /\ Accepts(ll[Slot(t)])
  /\ obj' = [obj EXCEPT ![Slot(t)] = Damaged]
  /\ UNCHANGED <<key, ir, ll, asm, tempDir, scratch, treeVars, cacheVars, buildVars>>

\* llc -filetype=obj has read the IR (a truncated file may still parse) and opens the object.
LlcObj(t) ==
  /\ Goto(t, "ll", "emitting")
  /\ ~Config[t[1]].thunk
  /\ Accepts(ll[Slot(t)])
  /\ ir' = [ir EXCEPT ![t] = ll[Slot(t)]]
  /\ obj' = [obj EXCEPT ![Slot(t)] = Damaged]
  /\ UNCHANGED <<key, ll, asm, tempDir, scratch, treeVars, cacheVars, buildVars>>

\* llc -filetype=asm, which may pass on what only the assembler rejects (inline assembly).
LlcAsm(t) ==
  /\ Goto(t, "ll", "asm")
  /\ Config[t[1]].thunk
  /\ ll[Slot(t)] # Absent
  /\ asm' = [asm EXCEPT ![Slot(t)] = ll[Slot(t)]]
  /\ UNCHANGED <<key, ir, ll, obj, tempDir, scratch, treeVars, cacheVars, buildVars>>

\* Reads the assembly, replaces every return (rewrite_return_thunks_for_kernel) and
\* writes it back; a missing file or assembler ends the task and leaves both files.
RewriteAsm(t) ==
  LET v == asm[Slot(t)]
      written == IF Whole(v) THEN [v EXCEPT !.rethunk = TRUE] ELSE v
  IN /\ Goto(t, "asm", IF v # Absent /\ "clang" \in Installed THEN "rewritten" ELSE "err")
     /\ asm' = [asm EXCEPT ![Slot(t)] = written]
     /\ UNCHANGED <<key, ir, ll, obj, tempDir, scratch, treeVars, cacheVars, buildVars>>

\* clang -c -x assembler cannot read the assembly or rejects it: both files are removed,
\* the task fails.
AssembleFails(t) ==
  /\ Whole(asm[Slot(t)]) => asm[Slot(t)].text \in Rejected
  /\ Goto(t, "rewritten", "err")
  /\ ll' = [ll EXCEPT ![Slot(t)] = Absent]
  /\ asm' = [asm EXCEPT ![Slot(t)] = Absent]
  /\ UNCHANGED <<key, ir, obj, tempDir, scratch, treeVars, cacheVars, buildVars>>

\* It has read the assembly and opens the object.
Assemble(t) ==
  /\ Accepts(asm[Slot(t)])
  /\ Goto(t, "rewritten", "emitting")
  /\ ir' = [ir EXCEPT ![t] = asm[Slot(t)]]
  /\ obj' = [obj EXCEPT ![Slot(t)] = Damaged]
  /\ UNCHANGED <<key, ll, asm, tempDir, scratch, treeVars, cacheVars, buildVars>>

\* The tool has written the object; the intermediate files are removed.
Emitted(t) ==
  /\ Goto(t, "emitting", "mkdir")
  /\ obj' = [obj EXCEPT ![Slot(t)] = ir[t]]
  /\ ll' = [ll EXCEPT ![Slot(t)] = Absent]
  /\ asm' = [asm EXCEPT ![Slot(t)] = Absent]
  /\ UNCHANGED <<key, ir, tempDir, scratch, treeVars, cacheVars, buildVars>>

\* store_cached_object: create_dir_all(cache_dir)
StoreMkdir(t) ==
  /\ Goto(t, "mkdir", "store")
  /\ cacheDir' = TRUE
  /\ UNCHANGED <<key, ir, cache, pinned, cleaner, tempVars, treeVars, buildVars>>

\* fs::copy truncates the entry, or fails when the directory is gone again.
StoreOpen(t) ==
  /\ IF cacheDir
       THEN /\ Goto(t, "store", "storing")
            /\ cache' = [k \in DOMAIN cache \cup {key[t]} |->
                           IF k = key[t] THEN Damaged ELSE cache[k]]
       ELSE Goto(t, "store", "err") /\ UNCHANGED cache
  /\ UNCHANGED <<key, ir, cacheDir, pinned, cleaner, tempVars, treeVars, buildVars>>

\* fs::copy writes the object into the entry, or into an unlinked file.
StoreCopy(t) ==
  /\ Goto(t, "storing", "ok")
  /\ cache' = IF pinned[t] = Absent THEN [cache EXCEPT ![key[t]] = obj[Slot(t)]] ELSE cache
  /\ pinned' = [pinned EXCEPT ![t] = Absent]
  /\ UNCHANGED <<key, ir, cacheDir, cleaner, tempVars, treeVars, buildVars>>

Task(t) ==
  \/ BuildKey(t) \/ Lookup(t) \/ RestoreOpen(t) \/ RestoreCopy(t)
  \/ ReadSource(t) \/ FrontEnd(t) \/ CreateLl(t) \/ WriteLl(t)
  \/ LlcFails(t) \/ LlcObj(t) \/ LlcAsm(t) \/ RewriteAsm(t) \/ AssembleFails(t) \/ Assemble(t)
  \/ Emitted(t) \/ StoreMkdir(t) \/ StoreOpen(t) \/ StoreCopy(t)

-----------------------------------------------------------------------------
(* The builder: Builder::build.                                            *)

\* BuildConfig::validate, then create_dir_all(temp_dir).  The guard is the user's: builds
\* of a later turn are started after those of an earlier one.
Begin(b) ==
  /\ bpc[b] = "idle"
  /\ \A c \in Builds : Turn[c] < Turn[b] => bpc[c] \in BuildEnded
  /\ IF Config[b].sources = <<>> \/ \E t \in TasksOf(b) : disk[Source(t)] = Absent
       THEN bpc' = [bpc EXCEPT ![b] = "failed"] /\ UNCHANGED tempDir
       ELSE /\ bpc' = [bpc EXCEPT ![b] = "compiling"]
            /\ tempDir' = tempDir \cup {b}
  /\ UNCHANGED <<why, out, ll, asm, obj, scratch, taskVars, treeVars, cacheVars>>

Failing(b) == {i \in DOMAIN Config[b].sources : pc[<<b, i>>] = "err"}

\* Mutant: the error of the source that comes last.
LastError(b) == CHOOSE i \in Failing(b) : \A j \in Failing(b) : i >= j

FirstError(b) == CHOOSE i \in Failing(b) : \A j \in Failing(b) : i <= j

\* Mutant: the objects that were made are linked, whatever failed.
CollectSuccesses(b) ==
  /\ bpc[b] = "compiling"
  /\ \A t \in TasksOf(b) : pc[t] \in Ended
  /\ bpc' = [bpc EXCEPT ![b] = "linking"]
  /\ UNCHANGED <<why, out, tempVars, taskVars, treeVars, cacheVars>>

\* compile_all: the pool is done when every task is, failed or not; a panic also drops the
\* sources still in the panicking worker's share.  It is resumed in build(); else the first
\* error in source order is returned; else the objects are taken, in source order.
Collect(b) ==
  /\ bpc[b] = "compiling"
  /\ Active(b) = {}
  /\ \/ /\ \E t \in TasksOf(b) : pc[t] = "panic"
        /\ bpc' = [bpc EXCEPT ![b] = "panicked"]
        /\ UNCHANGED why
     \/ /\ \A t \in TasksOf(b) : pc[t] \in {"ok", "err"}
        /\ Failing(b) # {}
        /\ bpc' = [bpc EXCEPT ![b] = "failed"]
        /\ why' = [why EXCEPT ![b] = FirstError(b)]
     \/ /\ \A t \in TasksOf(b) : pc[t] = "ok"
        /\ bpc' = [bpc EXCEPT ![b] = "linking"]
        /\ UNCHANGED why
  /\ UNCHANGED <<out, tempVars, taskVars, treeVars, cacheVars>>

Row(b) == [st \in Stems |-> obj[<<b, st>>]]

\* The linker needs its tool, whole objects, and every object once.
Linkable(b) ==
  /\ "clang" \in Installed
  /\ \A t \in TasksOf(b) : Whole(obj[Slot(t)])
  /\ \A t, u \in TasksOf(b) : Slot(t) = Slot(u) => t = u

\* The output a build can produce from its objects: fs::copy of a single object; ar rcs,
\* which takes any file and keeps the members it does not replace; or the linker.
OutputOf(b) ==
  LET old == out[Config[b].output]
  IN CASE Config[b].output_type = "StaticLib" ->
            [st \in Stems |-> IF Row(b)[st] = Absent THEN old[st] ELSE Row(b)[st]]
       [] OTHER -> Row(b)

CanProduce(b) ==
  CASE Config[b].output_type = "Object" -> Len(Config[b].sources) = 1
    [] Config[b].output_type = "StaticLib" -> "ar" \in Installed
    [] OTHER -> Linkable(b)

Produce(b) ==
  /\ bpc[b] = "linking"
  /\ CanProduce(b)
  /\ bpc' = [bpc EXCEPT ![b] = "linked"]
  /\ out' = [out EXCEPT ![Config[b].output] = OutputOf(b)]
  /\ UNCHANGED <<why, tempVars, taskVars, treeVars, cacheVars>>

\* More than one source for an object, a missing tool, or a refusal of the linker (also
\* for reasons of its own, such as an undefined symbol): the temp dir stays.
ProduceFails(b) ==
  /\ bpc[b] = "linking"
  /\ ~CanProduce(b) \/ Config[b].output_type \in {"SharedLib", "Executable"}
  /\ bpc' = [bpc EXCEPT ![b] = "failed"]
  /\ UNCHANGED <<why, out, tempVars, taskVars, treeVars, cacheVars>>

\* remove_dir_all(temp_dir), reached on success only.
Cleanup(b) ==
  /\ bpc[b] = "linked"
  /\ bpc' = [bpc EXCEPT ![b] = "done"]
  /\ tempDir' = tempDir \ {b}
  /\ LET emptied(f) == [x \in Slots |-> IF x[1] = b THEN Absent ELSE f[x]]
     IN ll' = emptied(ll) /\ asm' = emptied(asm) /\ obj' = emptied(obj)
  /\ UNCHANGED <<why, out, scratch, taskVars, treeVars, cacheVars>>

Builder(b) == Begin(b) \/ Collect(b) \/ Produce(b) \/ ProduceFails(b) \/ Cleanup(b)

-----------------------------------------------------------------------------
(* The environment: the user, other processes, the operating system.       *)

\* The user saves or deletes a file.
Edit(f, c) ==
  /\ faults.edit > 0
  /\ c # disk[f]
  /\ disk' = [disk EXCEPT ![f] = c]
  /\ faults' = [faults EXCEPT !.edit = @ - 1]
  /\ UNCHANGED <<cacheVars, tempVars, taskVars, buildVars>>

\* A process running a build is killed: its files stay as they are.
Crash(b) ==
  /\ faults.crash > 0
  /\ bpc[b] \notin BuildEnded \cup {"idle"}
  /\ bpc' = [bpc EXCEPT ![b] = "killed"]
  /\ pc' = [t \in Tasks |-> IF t[1] = b /\ pc[t] \notin Ended THEN "killed" ELSE pc[t]]
  /\ faults' = [faults EXCEPT !.crash = @ - 1]
  /\ UNCHANGED <<disk, why, out, key, ir, tempVars, cacheVars>>

\* clear_compile_cache, by any process: remove_dir_all lists the entries, ...
ClearStart ==
  /\ faults.clear > 0
  /\ cleaner = Absent
  /\ cacheDir
  /\ cleaner' = DOMAIN cache
  /\ faults' = [faults EXCEPT !.clear = @ - 1]
  /\ UNCHANGED <<disk, cacheDir, cache, pinned, tempVars, taskVars, buildVars>>

\* ... unlinks each (a file that a task holds open keeps its content for that task), ...
ClearEntry(k) ==
  /\ cleaner' = cleaner \ {k}
  /\ cache' = [j \in DOMAIN cache \ {k} |-> cache[j]]
  /\ pinned' = [t \in Tasks |->
                  IF pc[t] \in {"restoring", "storing"} /\ key[t] = k /\ pinned[t] = Absent
                    THEN cache[k] ELSE pinned[t]]
  /\ UNCHANGED <<cacheDir, treeVars, tempVars, taskVars, buildVars>>

\* ... and removes the directory, unless an entry was stored meanwhile.
ClearDir ==
  /\ cleaner = {}
  /\ cleaner' = Absent
  /\ cacheDir' = (DOMAIN cache # {})
  /\ UNCHANGED <<cache, pinned, treeVars, tempVars, taskVars, buildVars>>

Clear == ClearStart \/ ClearDir \/ (cleaner # Absent /\ \E k \in cleaner : ClearEntry(k))

\* Every build has ended and the environment is done.
Quiet ==
  /\ \A b \in Builds : bpc[b] \in BuildEnded
  /\ cleaner = Absent
  /\ UNCHANGED vars

Next ==
  \/ \E t \in Tasks : Task(t)
  \/ \E b \in Builds : Builder(b)
  \/ \E f \in Files : \E c \in Edits[f] : Edit(f, c)
  \/ \E b \in Builds : Crash(b)
  \/ Clear
  \/ Quiet

Spec == Init /\ [][Next]_vars

\* What one call of Builder::build does, in the builder itself or on a worker of its pool.
Process(b) == Builder(b) \/ \E t \in TasksOf(b) : Task(t)

\* The operating system runs every process that has something to do; nobody has to start a
\* build, edit a file, kill a process or clear the cache.
Fairness == \A b \in Builds : WF_vars(bpc[b] # "idle" /\ Process(b))

FairSpec == Spec /\ Fairness

-----------------------------------------------------------------------------
(* Properties                                                              *)

TypeOK ==
  /\ disk \in [Files -> Contents \cup {Absent}]
  /\ cacheDir \in BOOLEAN
  /\ DOMAIN cache \subseteq CacheKeys
  /\ \A k \in DOMAIN cache : cache[k] \in FileValue
  /\ ll \in [Slots -> FileValue]
  /\ asm \in [Slots -> FileValue]
  /\ obj \in [Slots -> FileValue]
  /\ tempDir \subseteq Builds
  /\ scratch \subseteq Tasks
  /\ pc \in [Tasks -> TaskStates]
  /\ key \in [Tasks -> CacheKeys \cup {Absent}]
  /\ ir \in [Tasks -> Contents \cup FileValue]
  /\ pinned \in [Tasks -> FileValue]
  /\ bpc \in [Builds -> BuildStates]
  /\ why \in [Builds -> Nat]
  /\ out \in [Outputs -> [Stems -> FileValue]]
  /\ cleaner = Absent \/ cleaner \subseteq CacheKeys
  /\ faults \in [edit : Nat, crash : Nat, clear : Nat]

\* What task t should compile, given the files of the source tree.
Compiled(t, files) ==
  [text |-> files[Source(t)], header |-> files[HeaderOf[Source(t)]],
   flags |-> FlagStrings(t[1]), rethunk |-> Config[t[1]].thunk]

\* A source that cannot become an object: it does not compile, or llc refuses its IR.
Bad(t, files) ==
  files[HeaderOf[Source(t)]] = Absent \/ files[Source(t)] \in Broken \cup Rejected \cup {Absent}

Panics(t, files) == ~Bad(t, files) /\ files[Source(t)] \in Panicking

\* No two sources of a build have the same file stem.
DistinctStems == \A t, u \in Tasks : Slot(t) = Slot(u) => t = u

Present(t) == Initial[Source(t)] # Absent

\* The key of task t as long as its source is not saved.
MyKey(t) == CacheKey(t[1], Initial[Source(t)])

\* Compilations with equal keys would make equal objects: sources of equal text include the
\* same header, and no two lists of flags run together to the same string.
KeysTell ==
  \A t, u \in Tasks :
    Present(t) /\ Present(u) /\ MyKey(t) = MyKey(u) => Compiled(t, Initial) = Compiled(u, Initial)

\* Of the builds of one turn, no two sources, of one build or of two, share a key.
SameKeyApart ==
  \A t, u \in Tasks :
    Present(t) /\ Present(u) /\ MyKey(t) = MyKey(u) /\ Turn[t[1]] = Turn[u[1]] => t = u

\* The user saves nothing and clears no cache while the builds run.
TreeAtRest == MaxEdits = 0 /\ MaxClears = 0

\* No process running a build is killed.
NoCrashes == MaxCrashes = 0

\* llc, and the assembler of the builds with return thunks, are there.
ToolsThere == {"llc", "clang"} \subseteq Installed

\* The key an object deserves to be stored under.
KeyOf(v) == [source_hash |-> v.text, flags_hash |-> FlattenSeq(v.flags)]

\* An entry of the cache that is not half written was compiled from the text and with the
\* flags its name says, whatever overlaps, crashes, clears or edits of headers there were
\* (build_cache_key and store_cached_object, between which the object is made).
CacheSound == \A k \in DOMAIN cache : Whole(cache[k]) => KeyOf(cache[k]) = k

\* A half-written entry is one that a task is storing, or has the key of a task that was
\* killed: no failing compilation leaves one behind (store_cached_object comes last).
DamagedHasWriter ==
  \A k \in DOMAIN cache :
    cache[k] = Damaged => \E t \in Tasks : pc[t] \in {"storing", "killed"} /\ key[t] = k

\* What goes into the output is, for each source, the object of that source as it is on
\* disk, made with this build's flags, hit or miss (compile_all, restore_cached_object).
OwnObjects ==
  \A b \in Builds : bpc[b] \in {"linking", "linked"} =>
    \A t \in TasksOf(b) : obj[Slot(t)] = Compiled(t, disk)

\* The same, in the words of the documentation: one whole object for each source file.
ObjectOfEachSource ==
  \A b \in Builds : bpc[b] = "linking" =>
    \A t \in TasksOf(b) : Whole(obj[Slot(t)]) /\ obj[Slot(t)].text = disk[Source(t)]

\* A source whose header has changed is recompiled: the lookup finds no object that was
\* made from another header (build_cache_key, restore_cached_object).
HitsAreCurrent ==
  [][\A t \in Tasks :
       pc[t] = "keyed" /\ pc'[t] = "hit" /\ Whole(cache[key[t]])
         => cache[key[t]].header = disk[HeaderOf[Source(t)]]]_vars

\* How compile_all ends depends on its inputs alone, not on the order in which the workers
\* ran or on what the cache held: a panic wins over errors, the first bad source over later ones.
OutcomeByInputs ==
  \A b \in Builds :
    LET panics == \E t \in TasksOf(b) : Panics(t, disk)
    IN /\ bpc[b] = "panicked" => panics
       /\ bpc[b] \in {"linking", "linked", "done"} => ~panics /\ \A t \in TasksOf(b) : ~Bad(t, disk)
       /\ why[b] # 0 => /\ ~panics
                         /\ Bad(<<b, why[b]>>, disk)
                         /\ \A i \in 1..(why[b] - 1) : ~Bad(<<b, i>>, disk)

\* What survives a build: a successful one leaves no file of its own, and the database and
\* arena files outlive only a panic or a kill (compile_to_ir_artifacts, Builder::build).
\* One that fails leaves its temporary directory: of that nothing is said.
NothingLeft ==
  /\ \A t \in scratch : pc[t] \in {"reading", "panic", "killed"}
  /\ \A b \in Builds : bpc[b] = "done" =>
       /\ b \notin tempDir
       /\ \A t \in TasksOf(b) : t \notin scratch /\ obj[Slot(t)] = Absent /\ ll[Slot(t)] = Absent

\* A build that has begun to compile ends: no task waits for another, and a failed one
\* frees its worker (compile_all).
BuildsEnd == \A b \in Builds : (bpc[b] = "compiling") ~> (bpc[b] \in BuildEnded)

\* What the builds are to produce, and which of them may fail, by the files at the start.
Image ==
  [b \in Builds |-> [st \in Stems |->
     IF \E t \in TasksOf(b) : Slot(t) = <<b, st>>
       THEN Compiled(CHOOSE t \in TasksOf(b) : Slot(t) = <<b, st>>, Initial) ELSE Absent]]

Succeeding ==
  {b \in Builds :
     /\ \A t \in TasksOf(b) : ~Bad(t, Initial) /\ ~Panics(t, Initial)
     /\ Config[b].output_type = "Object" => Len(Config[b].sources) = 1
     /\ Config[b].sources # <<>>}

MayFail ==
  {b \in Builds :
     \/ b \notin Succeeding
     \/ Config[b].output_type \in {"Executable", "SharedLib"}}

Target == [b \in Builds |-> Config[b].output]
Archive == [b \in Builds |-> Config[b].output_type = "StaticLib"]

\* Where a build is in the eyes of its caller.
Status ==
  [b \in Builds |-> CASE bpc[b] = "idle" -> "idle"
                     [] bpc[b] \in {"compiling", "linking"} -> "running"
                     [] bpc[b] \in {"linked", "done"} -> "done"
                     [] OTHER -> "failed"]

Promise == INSTANCE BuildPromise WITH status <- Status

\* Every build does what its caller is promised, and only that.
KeepsPromise == Promise!Spec

=============================================================================
