-------------------------- MODULE OpticBuildProofs --------------------------
(***************************************************************************)
(* Proofs about OpticBuild, for every set of builds, sources and texts and *)
(* any number of edits, crashes and clears.                                *)
(***************************************************************************)
EXTENDS OpticBuild, TLAPS, WellFoundedInduction

-----------------------------------------------------------------------------
(* Facts about the constants.                                              *)

\* A task names a source of its build, and its files lie in a slot of that build.
LEMMA TaskFacts ==
  ASSUME NEW t \in Tasks
  PROVE  /\ t[1] \in Builds
         /\ t[2] \in DOMAIN Config[t[1]].sources
         /\ t = <<t[1], t[2]>>
         /\ Source(t) \in Sources
         /\ Stem[Source(t)] \in Stems
         /\ Slot(t) \in Slots
         /\ t \in TasksOf(t[1])
<1>1. t[1] \in Builds /\ t[2] \in DOMAIN Config[t[1]].sources /\ t = <<t[1], t[2]>>
  BY DEF Tasks
<1>2. Config[t[1]].sources \in Seq(Sources)
  BY <1>1, ConstantsAssumption
<1>3. Source(t) \in Sources
  BY <1>1, <1>2 DEF Source
<1>4. QED
  BY <1>1, <1>3 DEF Stems, Slots, Slot, TasksOf

\* The text of a source makes a key.
LEMMA KeyType ==
  ASSUME NEW b \in Builds, NEW c \in Contents
  PROVE  CacheKey(b, c) \in CacheKeys
BY DEF CacheKey, CacheKeys

\* What the front end makes is a product, under the key of its text.
LEMMA FrontEndProduct ==
  ASSUME NEW b \in Builds, NEW c \in Contents, NEW h \in Contents, NEW v,
         v = [text |-> c, header |-> h, flags |-> FlagStrings(b), rethunk |-> FALSE]
  PROVE  v \in Product /\ KeyOf(v) = CacheKey(b, c)
BY DEF Product, KeyOf, CacheKey

\* Rewriting the returns of an assembly file changes neither its text nor its flags.
LEMMA RewrittenProduct ==
  ASSUME NEW v \in Product, NEW w, w = [v EXCEPT !.rethunk = TRUE]
  PROVE  w \in Product /\ KeyOf(w) = KeyOf(v)
BY DEF Product, KeyOf

\* The sentinels are no products, texts or keys.
LEMMA Sentinels ==
  /\ Absent # Damaged
  /\ Absent \notin Product /\ Damaged \notin Product
  /\ Absent \notin Contents /\ Damaged \notin Contents
BY ConstantsAssumption

\* A build that fails has a first bad source.
LEMMA FirstErrorType ==
  ASSUME NEW b \in Builds, Failing(b) # {}
  PROVE  FirstError(b) \in Nat /\ FirstError(b) \in Failing(b)
<1>1. Config[b].sources \in Seq(Sources)
  BY ConstantsAssumption
<1>2. Failing(b) \subseteq Nat
  BY <1>1 DEF Failing
<1>3. \E i \in Failing(b) : \A j \in Failing(b) : ~(<<j, i>> \in OpToRel(<, Nat))
  BY <1>2, NatLessThanWellFounded, WFMin
<1>4. \E i \in Failing(b) : \A j \in Failing(b) : i <= j
  <2>1. PICK i \in Failing(b) : \A j \in Failing(b) : ~(<<j, i>> \in OpToRel(<, Nat))
    BY <1>3
  <2>2. ASSUME NEW j \in Failing(b) PROVE i <= j
    <3>1. i \in Nat /\ j \in Nat
      BY <1>2
    <3>2. <<j, i>> \in Nat \X Nat /\ <<j, i>>[1] = j /\ <<j, i>>[2] = i
      BY <3>1
    <3>3. ~(j < i)
      BY <2>1, <3>2 DEF OpToRel
    <3>4. QED
      BY <3>1, <3>3
  <2>3. QED
    BY <2>2
<1>5. FirstError(b) \in Failing(b)
  BY <1>4 DEF FirstError
<1>6. QED
  BY <1>2, <1>5

-----------------------------------------------------------------------------
(* Type correctness.  TypeOK alone is not inductive: what a task writes to *)
(* a file comes from its memory, and the entry it copies must still be     *)
(* there or be pinned.                                                     *)

\* What a task has in memory by the time it writes it.
MemoryOK ==
  \A t \in Tasks :
    /\ pc[t] = "reading" => ir[t] \in Contents
    /\ pc[t] \in {"compiled", "creating"} => ir[t] \in Product
    /\ pc[t] = "emitting" => ir[t] \in Product \cup {Damaged}

\* Past the first step a task has its key.
KeyKnown ==
  \A t \in Tasks : pc[t] \notin {"queued", "err", "killed"} => key[t] \in CacheKeys

\* A build goes on to link when its tasks have ended.
TasksEnded ==
  \A t \in Tasks : bpc[t[1]] \in {"linking", "linked"} => pc[t] \in Ended

\* The object that a task is to store has been made and is not removed under it.
ObjThere ==
  \A t \in Tasks : pc[t] \in {"emitting", "mkdir", "store", "storing"} => obj[Slot(t)] # Absent

\* An entry a task has open is in the directory or pinned.
CacheOpen ==
  \A t \in Tasks :
    pc[t] \in {"restoring", "storing"} /\ pinned[t] = Absent => key[t] \in DOMAIN cache

\* An entry in the directory is a file.
CacheThere == \A k \in DOMAIN cache : cache[k] \in Product \cup {Damaged}

StructInv ==
  /\ TypeOK
  /\ MemoryOK
  /\ KeyKnown
  /\ TasksEnded
  /\ ObjThere
  /\ CacheOpen
  /\ CacheThere

USE DEF treeVars, cacheVars, tempVars, taskVars, buildVars, Goto, TaskStates, Ended,
        BuildStates, BuildEnded, Whole

LEMMA StructInit == Init => StructInv
<1> SUFFICES ASSUME Init PROVE StructInv
  OBVIOUS
<1>1. TypeOK
  <2>1. /\ disk \in [Files -> Contents \cup {Absent}]
        /\ why \in [Builds -> Nat]
        /\ bpc \in [Builds -> BuildStates]
        /\ pc \in [Tasks -> TaskStates]
        /\ key \in [Tasks -> CacheKeys \cup {Absent}]
        /\ tempDir \subseteq Builds /\ scratch \subseteq Tasks
    BY ConstantsAssumption DEF Init
  <2>2. /\ ll \in [Slots -> FileValue] /\ asm \in [Slots -> FileValue]
        /\ obj \in [Slots -> FileValue]
        /\ ir \in [Tasks -> Contents \cup FileValue] /\ pinned \in [Tasks -> FileValue]
        /\ out \in [Outputs -> [Stems -> FileValue]]
    BY DEF Init, FileValue
  <2>3. cacheDir \in BOOLEAN
    BY Zenon DEF Init
  <2>4. DOMAIN cache = {} /\ cleaner = Absent
    BY DEF Init
  <2>5. faults \in [edit : Nat, crash : Nat, clear : Nat]
    BY ConstantsAssumption DEF Init
  <2>6. QED
    BY <2>1, <2>2, <2>3, <2>4, <2>5 DEF TypeOK
<1>2. MemoryOK /\ KeyKnown /\ TasksEnded /\ ObjThere /\ CacheOpen /\ CacheThere
  BY DEF Init, MemoryOK, KeyKnown, TasksEnded, ObjThere, CacheOpen, CacheThere, Tasks
<1>3. QED
  BY <1>1, <1>2 DEF StructInv

\* Every step of a task keeps the structural invariant.
LEMMA StructTask ==
  ASSUME StructInv, NEW t \in Tasks, Task(t)
  PROVE  StructInv'
<1> USE TaskFacts DEF StructInv
<1>1. CASE BuildKey(t)
  <2>1. disk[Source(t)] # Absent => CacheKey(t[1], disk[Source(t)]) \in CacheKeys
    BY KeyType, ConstantsAssumption DEF TypeOK, Files
  <2>2. pc' \in [Tasks -> TaskStates] /\ key' \in [Tasks -> CacheKeys \cup {Absent}]
    <3>1. key' \in [Tasks -> CacheKeys \cup {Absent}]
      BY <1>1, <2>1 DEF BuildKey, TypeOK
    <3>2. pc' \in [Tasks -> TaskStates]
      BY <1>1 DEF BuildKey, TypeOK, TaskStates
    <3>3. QED
      BY <3>1, <3>2
  <2>3. /\ \A u \in Tasks \ {t} : pc'[u] = pc[u] /\ key'[u] = key[u]
        /\ pc'[t] \in {"keyed", "err"} /\ (pc'[t] = "keyed" => key'[t] \in CacheKeys)
    BY <1>1, <2>1 DEF BuildKey, TypeOK
  <2>4. TypeOK'
    BY <1>1, Sentinels, <2>1, <2>2, <2>3 DEF BuildKey, TypeOK, MemoryOK, FileValue
  <2>5. MemoryOK' /\ KeyKnown' /\ TasksEnded'
    BY <1>1, Sentinels, <2>1, <2>2, <2>3 DEF BuildKey, TypeOK, MemoryOK, KeyKnown, TasksEnded
  <2>6. ObjThere' /\ CacheOpen' /\ CacheThere'
    BY <1>1, Sentinels, <2>1, <2>2, <2>3 DEF BuildKey, TypeOK, ObjThere, CacheOpen, CacheThere
  <2>7. QED
    BY <2>4, <2>5, <2>6
<1>2. CASE Lookup(t)
  <2>1. TypeOK'
    BY <1>2, Sentinels DEF Lookup, TypeOK, MemoryOK, FileValue
  <2>2. MemoryOK' /\ KeyKnown' /\ TasksEnded'
    BY <1>2, Sentinels DEF Lookup, TypeOK, MemoryOK, KeyKnown, TasksEnded
  <2>3. ObjThere' /\ CacheOpen' /\ CacheThere'
    BY <1>2, Sentinels DEF Lookup, TypeOK, ObjThere, CacheOpen, CacheThere
  <2>4. QED
    BY <2>1, <2>2, <2>3
<1>3. CASE RestoreOpen(t)
  <2>1. TypeOK'
    <3>1. pc' \in [Tasks -> TaskStates]
      <4>1. \E p \in TaskStates : pc' = [pc EXCEPT ![t] = p]
        BY <1>3 DEF RestoreOpen, Goto, TaskStates
      <4>2. QED
        BY <4>1 DEF TypeOK
    <3>2. obj' \in [Slots -> FileValue]
      BY <1>3 DEF RestoreOpen, TypeOK, FileValue
    <3>3. QED
      BY <1>3, <3>1, <3>2 DEF RestoreOpen, TypeOK
  <2>2. MemoryOK' /\ KeyKnown' /\ TasksEnded'
    <3>1. MemoryOK'
      BY <1>3, Sentinels DEF RestoreOpen, TypeOK, MemoryOK
    <3>2. KeyKnown'
      BY <1>3, Sentinels DEF RestoreOpen, TypeOK, KeyKnown
    <3>3. TasksEnded'
      BY <1>3 DEF RestoreOpen, TypeOK, TasksEnded
    <3>4. QED
      BY <3>1, <3>2, <3>3
  <2>3. ObjThere' /\ CacheOpen' /\ CacheThere'
    BY <1>3, Sentinels DEF RestoreOpen, TypeOK, ObjThere, CacheOpen, CacheThere
  <2>4. QED
    BY <2>1, <2>2, <2>3
<1>4. CASE RestoreCopy(t)
  <2>1. pinned[t] = Absent => cache[key[t]] \in FileValue
    BY <1>4 DEF RestoreCopy, CacheOpen, TypeOK
  <2>2. TypeOK'
    BY <1>4, Sentinels, <2>1 DEF RestoreCopy, TypeOK, MemoryOK, FileValue
  <2>3. MemoryOK' /\ KeyKnown' /\ TasksEnded'
    BY <1>4, Sentinels, <2>1 DEF RestoreCopy, TypeOK, MemoryOK, KeyKnown, TasksEnded
  <2>4. ObjThere' /\ CacheOpen' /\ CacheThere'
    BY <1>4, Sentinels, <2>1 DEF RestoreCopy, TypeOK, ObjThere, CacheOpen, CacheThere
  <2>5. QED
    BY <2>2, <2>3, <2>4
<1>5. CASE ReadSource(t)
  <2>1. disk[Source(t)] \in Contents \cup {Absent}
    BY DEF TypeOK, Files
  <2>2. pc' \in [Tasks -> TaskStates] /\ ir' \in [Tasks -> Contents \cup FileValue]
    BY <1>5, <2>1 DEF ReadSource, TypeOK
  <2>3. /\ \A u \in Tasks \ {t} : pc'[u] = pc[u] /\ ir'[u] = ir[u]
        /\ pc'[t] \in {"reading", "err"} /\ (pc'[t] = "reading" => ir'[t] \in Contents)
    BY <1>5, <2>1 DEF ReadSource, TypeOK
  <2>4. TypeOK'
    BY <1>5, Sentinels, <2>1, <2>2, <2>3 DEF ReadSource, TypeOK, MemoryOK, FileValue
  <2>5. MemoryOK' /\ KeyKnown' /\ TasksEnded'
    BY <1>5, Sentinels, <2>1, <2>2, <2>3 DEF ReadSource, TypeOK, MemoryOK, KeyKnown, TasksEnded
  <2>6. ObjThere' /\ CacheOpen' /\ CacheThere'
    BY <1>5, Sentinels, <2>1, <2>2, <2>3 DEF ReadSource, TypeOK, ObjThere, CacheOpen, CacheThere
  <2>7. QED
    BY <2>4, <2>5, <2>6
<1>6. CASE FrontEnd(t)
  <2>1. /\ Outcome(ir[t], disk[HeaderOf[Source(t)]]) \in {"err", "panic", "compiled"}
        /\ Outcome(ir[t], disk[HeaderOf[Source(t)]]) = "compiled" => disk[HeaderOf[Source(t)]] \in Contents
    BY ConstantsAssumption DEF Outcome, TypeOK, Files
  <2>2. pc[t] = "reading" /\ ir[t] \in Contents
    BY <1>6 DEF FrontEnd, MemoryOK
  <2>3. /\ pc' \in [Tasks -> TaskStates]
        /\ \A u \in Tasks \ {t} : pc'[u] = pc[u]
        /\ pc'[t] \in {"err", "panic", "compiled"}
    BY <1>6, <2>1 DEF FrontEnd, TypeOK
  <2>4. /\ ir' \in [Tasks -> Contents \cup FileValue]
        /\ \A u \in Tasks \ {t} : ir'[u] = ir[u]
        /\ pc'[t] = "compiled" => ir'[t] \in Product
    BY <1>6, <2>1, <2>2, FrontEndProduct DEF FrontEnd, TypeOK, FileValue
  <2>5. scratch' \subseteq Tasks
    BY <1>6 DEF FrontEnd, ScratchAfter, TypeOK
  <2>6. TypeOK'
    BY <1>6, Sentinels, <2>1, <2>2, <2>3, <2>4, <2>5 DEF FrontEnd, TypeOK, MemoryOK, FileValue
  <2>7. MemoryOK' /\ KeyKnown' /\ TasksEnded'
    BY <1>6, Sentinels, <2>1, <2>2, <2>3, <2>4, <2>5
       DEF FrontEnd, TypeOK, MemoryOK, KeyKnown, TasksEnded
  <2>8. ObjThere' /\ CacheOpen' /\ CacheThere'
    BY <1>6, Sentinels, <2>1, <2>2, <2>3, <2>4, <2>5
       DEF FrontEnd, TypeOK, ObjThere, CacheOpen, CacheThere
  <2>9. QED
    BY <2>6, <2>7, <2>8
<1>7. CASE CreateLl(t)
  <2>1. TypeOK'
    BY <1>7, Sentinels DEF CreateLl, TypeOK, MemoryOK, FileValue
  <2>2. MemoryOK' /\ KeyKnown' /\ TasksEnded'
    BY <1>7, Sentinels DEF CreateLl, TypeOK, MemoryOK, KeyKnown, TasksEnded
  <2>3. ObjThere' /\ CacheOpen' /\ CacheThere'
    BY <1>7, Sentinels DEF CreateLl, TypeOK, ObjThere, CacheOpen, CacheThere
  <2>4. QED
    BY <2>1, <2>2, <2>3
<1>8. CASE WriteLl(t)
  <2>1. TypeOK'
    BY <1>8, Sentinels DEF WriteLl, TypeOK, MemoryOK, FileValue
  <2>2. MemoryOK' /\ KeyKnown' /\ TasksEnded'
    BY <1>8, Sentinels DEF WriteLl, TypeOK, MemoryOK, KeyKnown, TasksEnded
  <2>3. ObjThere' /\ CacheOpen' /\ CacheThere'
    BY <1>8, Sentinels DEF WriteLl, TypeOK, ObjThere, CacheOpen, CacheThere
  <2>4. QED
    BY <2>1, <2>2, <2>3
<1>9. CASE LlcFails(t)
  <2>1. TypeOK'
    BY <1>9, Sentinels DEF LlcFails, TypeOK, MemoryOK, FileValue
  <2>2. MemoryOK' /\ KeyKnown' /\ TasksEnded'
    BY <1>9, Sentinels DEF LlcFails, TypeOK, MemoryOK, KeyKnown, TasksEnded
  <2>3. ObjThere' /\ CacheOpen' /\ CacheThere'
    BY <1>9, Sentinels DEF LlcFails, TypeOK, ObjThere, CacheOpen, CacheThere
  <2>4. QED
    BY <2>1, <2>2, <2>3
<1>10. CASE LlcObj(t)
  <2>1. ll[Slot(t)] \in Product \cup {Damaged}
    BY <1>10 DEF LlcObj, Accepts, TypeOK, FileValue
  <2>2. TypeOK'
    BY <1>10, Sentinels, <2>1 DEF LlcObj, TypeOK, MemoryOK, FileValue
  <2>3. MemoryOK' /\ KeyKnown' /\ TasksEnded'
    BY <1>10, Sentinels, <2>1 DEF LlcObj, TypeOK, MemoryOK, KeyKnown, TasksEnded
  <2>4. ObjThere' /\ CacheOpen' /\ CacheThere'
    BY <1>10, Sentinels, <2>1 DEF LlcObj, TypeOK, ObjThere, CacheOpen, CacheThere
  <2>5. QED
    BY <2>2, <2>3, <2>4
<1>11. CASE LlcAsm(t)
  <2>1. TypeOK'
    BY <1>11, Sentinels DEF LlcAsm, TypeOK, MemoryOK, FileValue
  <2>2. MemoryOK' /\ KeyKnown' /\ TasksEnded'
    BY <1>11, Sentinels DEF LlcAsm, TypeOK, MemoryOK, KeyKnown, TasksEnded
  <2>3. ObjThere' /\ CacheOpen' /\ CacheThere'
    BY <1>11, Sentinels DEF LlcAsm, TypeOK, ObjThere, CacheOpen, CacheThere
  <2>4. QED
    BY <2>1, <2>2, <2>3
<1>12. CASE RewriteAsm(t)
  <2>1. Whole(asm[Slot(t)]) => [asm[Slot(t)] EXCEPT !.rethunk = TRUE] \in Product
    BY <1>12, RewrittenProduct DEF TypeOK, FileValue
  <2>2. asm' \in [Slots -> FileValue]
    BY <1>12, <2>1 DEF RewriteAsm, TypeOK, FileValue
  <2>3. TypeOK'
    BY <1>12, Sentinels, <2>1, <2>2 DEF RewriteAsm, TypeOK, MemoryOK, FileValue
  <2>4. MemoryOK' /\ KeyKnown' /\ TasksEnded'
    BY <1>12, Sentinels, <2>1, <2>2 DEF RewriteAsm, TypeOK, MemoryOK, KeyKnown, TasksEnded
  <2>5. ObjThere' /\ CacheOpen' /\ CacheThere'
    BY <1>12, Sentinels, <2>1, <2>2 DEF RewriteAsm, TypeOK, ObjThere, CacheOpen, CacheThere
  <2>6. QED
    BY <2>3, <2>4, <2>5
<1>13. CASE AssembleFails(t)
  <2>1. TypeOK'
    BY <1>13, Sentinels DEF AssembleFails, TypeOK, MemoryOK, FileValue
  <2>2. MemoryOK' /\ KeyKnown' /\ TasksEnded'
    BY <1>13, Sentinels DEF AssembleFails, TypeOK, MemoryOK, KeyKnown, TasksEnded
  <2>3. ObjThere' /\ CacheOpen' /\ CacheThere'
    BY <1>13, Sentinels DEF AssembleFails, TypeOK, ObjThere, CacheOpen, CacheThere
  <2>4. QED
    BY <2>1, <2>2, <2>3
<1>14. CASE Assemble(t)
  <2>1. asm[Slot(t)] \in Product \cup {Damaged}
    BY <1>14 DEF Assemble, Accepts, TypeOK, FileValue
  <2>2. TypeOK'
    BY <1>14, Sentinels, <2>1 DEF Assemble, TypeOK, MemoryOK, FileValue
  <2>3. MemoryOK' /\ KeyKnown' /\ TasksEnded'
    BY <1>14, Sentinels, <2>1 DEF Assemble, TypeOK, MemoryOK, KeyKnown, TasksEnded
  <2>4. ObjThere' /\ CacheOpen' /\ CacheThere'
    BY <1>14, Sentinels, <2>1 DEF Assemble, TypeOK, ObjThere, CacheOpen, CacheThere
  <2>5. QED
    BY <2>2, <2>3, <2>4
<1>15. CASE Emitted(t)
  <2>1. ir[t] \in Product \cup {Damaged}
    BY <1>15 DEF Emitted, MemoryOK
  <2>2. TypeOK'
    BY <1>15, Sentinels, <2>1 DEF Emitted, TypeOK, MemoryOK, FileValue
  <2>3. MemoryOK' /\ KeyKnown' /\ TasksEnded'
    BY <1>15, Sentinels, <2>1 DEF Emitted, TypeOK, MemoryOK, KeyKnown, TasksEnded
  <2>4. ObjThere' /\ CacheOpen' /\ CacheThere'
    BY <1>15, Sentinels, <2>1 DEF Emitted, TypeOK, ObjThere, CacheOpen, CacheThere
  <2>5. QED
    BY <2>2, <2>3, <2>4
<1>16. CASE StoreMkdir(t)
  <2>1. TypeOK'
    BY <1>16, Sentinels DEF StoreMkdir, TypeOK, MemoryOK, FileValue
  <2>2. MemoryOK' /\ KeyKnown' /\ TasksEnded'
    BY <1>16, Sentinels DEF StoreMkdir, TypeOK, MemoryOK, KeyKnown, TasksEnded
  <2>3. ObjThere' /\ CacheOpen' /\ CacheThere'
    BY <1>16, Sentinels DEF StoreMkdir, TypeOK, ObjThere, CacheOpen, CacheThere
  <2>4. QED
    BY <2>1, <2>2, <2>3
<1>17. CASE StoreOpen(t)
  <2>1. key[t] \in CacheKeys
    BY <1>17 DEF StoreOpen, KeyKnown
  <2>2. TypeOK'
    BY <1>17, Sentinels, <2>1 DEF StoreOpen, TypeOK, MemoryOK, FileValue
  <2>3. MemoryOK' /\ KeyKnown' /\ TasksEnded'
    BY SMTT(30), <1>17, Sentinels, <2>1 DEF StoreOpen, TypeOK, MemoryOK, KeyKnown, TasksEnded
  <2>4. ObjThere' /\ CacheOpen' /\ CacheThere'
    BY <1>17, Sentinels, <2>1 DEF StoreOpen, TypeOK, ObjThere, CacheOpen, CacheThere
  <2>5. QED
    BY <2>2, <2>3, <2>4
<1>18. CASE StoreCopy(t)
  <2>1. obj[Slot(t)] \in Product \cup {Damaged}
    BY <1>18, Sentinels DEF StoreCopy, ObjThere, TypeOK, FileValue
  <2>2. TypeOK'
    BY <1>18, Sentinels, <2>1 DEF StoreCopy, TypeOK, MemoryOK, FileValue
  <2>3. MemoryOK' /\ KeyKnown' /\ TasksEnded'
    BY <1>18, Sentinels, <2>1 DEF StoreCopy, TypeOK, MemoryOK, KeyKnown, TasksEnded
  <2>4. ObjThere' /\ CacheOpen' /\ CacheThere'
    BY <1>18, Sentinels, <2>1 DEF StoreCopy, TypeOK, ObjThere, CacheOpen, CacheThere
  <2>5. QED
    BY <2>2, <2>3, <2>4
<1>19. QED
  BY <1>1, <1>2, <1>3, <1>4, <1>5, <1>6, <1>7, <1>8, <1>9, <1>10, <1>11, <1>12, <1>13, <1>14,
     <1>15, <1>16, <1>17, <1>18 DEF Task

\* Every step of a builder keeps the structural invariant.
LEMMA StructBuilder ==
  ASSUME StructInv, NEW b \in Builds, Builder(b)
  PROVE  StructInv'
<1> USE DEF StructInv
<1>1. CASE Begin(b)
  <2>1. \A u \in Tasks : u[1] \in Builds
    BY TaskFacts
  <2>2. bpc' \in [Builds -> BuildStates]
    BY <1>1 DEF Begin, TypeOK
  <2>3. \A c \in Builds : bpc'[c] \in {"linking", "linked"} => bpc[c] \in {"linking", "linked"}
    BY <1>1 DEF Begin, TypeOK
  <2>4. TypeOK'
    BY <1>1, Sentinels, <2>1, <2>2, <2>3 DEF Begin, TypeOK, FileValue
  <2>5. MemoryOK' /\ KeyKnown' /\ TasksEnded'
    BY <1>1, Sentinels, <2>1, <2>2, <2>3 DEF Begin, TypeOK, MemoryOK, KeyKnown, TasksEnded
  <2>6. ObjThere' /\ CacheOpen' /\ CacheThere'
    BY <1>1, Sentinels, <2>1, <2>2, <2>3 DEF Begin, TypeOK, ObjThere, CacheOpen, CacheThere
  <2>7. QED
    BY <2>4, <2>5, <2>6
<1>2. CASE Collect(b)
  <2>1. Failing(b) # {} => FirstError(b) \in Nat
    BY FirstErrorType
  <2>2. bpc' \in [Builds -> BuildStates] /\ why' \in [Builds -> Nat]
    BY <1>2, <2>1 DEF Collect, TypeOK
  <2>3. \A u \in Tasks : u[1] \in Builds
    BY TaskFacts
  <2>4. \A c \in Builds \ {b} : bpc'[c] = bpc[c]
    BY <1>2 DEF Collect, TypeOK
  <2>5. \A u \in TasksOf(b) : u \in Tasks /\ u[1] = b
    BY DEF TasksOf
  <2>6. bpc'[b] = "linking" => \A u \in Tasks : u[1] = b => pc[u] \in Ended
    BY <1>2 DEF Collect, TasksOf, TypeOK
  <2>7. TypeOK'
    BY <1>2, Sentinels, <2>1, <2>2, <2>3, <2>4, <2>5, <2>6 DEF Collect, TypeOK, FileValue
  <2>8. MemoryOK' /\ KeyKnown' /\ TasksEnded'
    BY <1>2, Sentinels, <2>1, <2>2, <2>3, <2>4, <2>5, <2>6
       DEF Collect, TypeOK, MemoryOK, KeyKnown, TasksEnded
  <2>9. ObjThere' /\ CacheOpen' /\ CacheThere'
    BY <1>2, Sentinels, <2>1, <2>2, <2>3, <2>4, <2>5, <2>6
       DEF Collect, TypeOK, ObjThere, CacheOpen, CacheThere
  <2>10. QED
    BY <2>7, <2>8, <2>9
<1>3. CASE Produce(b)
  <2>1. out[Config[b].output] \in [Stems -> FileValue]
    BY ConstantsAssumption DEF Outputs, TypeOK
  <2>2. Row(b) \in [Stems -> FileValue]
    BY DEF Row, TypeOK, Slots
  <2>3. OutputOf(b) \in [Stems -> FileValue]
    BY <2>1, <2>2 DEF OutputOf
  <2>4. TypeOK'
    BY <1>3, Sentinels, <2>1, <2>2, <2>3 DEF Produce, TypeOK, FileValue
  <2>5. MemoryOK' /\ KeyKnown' /\ TasksEnded'
    BY <1>3, Sentinels, <2>1, <2>2, <2>3 DEF Produce, TypeOK, MemoryOK, KeyKnown, TasksEnded
  <2>6. ObjThere' /\ CacheOpen' /\ CacheThere'
    BY <1>3, Sentinels, <2>1, <2>2, <2>3 DEF Produce, TypeOK, ObjThere, CacheOpen, CacheThere
  <2>7. QED
    BY <2>4, <2>5, <2>6
<1>4. CASE ProduceFails(b)
  <2>1. TypeOK'
    BY <1>4, Sentinels DEF ProduceFails, TypeOK, FileValue
  <2>2. MemoryOK' /\ KeyKnown' /\ TasksEnded'
    BY <1>4, Sentinels DEF ProduceFails, TypeOK, MemoryOK, KeyKnown, TasksEnded
  <2>3. ObjThere' /\ CacheOpen' /\ CacheThere'
    BY <1>4, Sentinels DEF ProduceFails, TypeOK, ObjThere, CacheOpen, CacheThere
  <2>4. QED
    BY <2>1, <2>2, <2>3
<1>5. CASE Cleanup(b)
  <2>1. \A u \in Tasks : Slot(u)[1] = b => pc[u] \in Ended
    BY <1>5, TaskFacts DEF Cleanup, TasksEnded, Slot
  <2>2. \A u \in Tasks : pc[u] \notin Ended => obj'[Slot(u)] = obj[Slot(u)]
    BY <1>5, <2>1, TaskFacts DEF Cleanup, TypeOK
  <2>3. TypeOK'
    BY <1>5, Sentinels, <2>1, <2>2 DEF Cleanup, TypeOK, FileValue
  <2>4. MemoryOK' /\ KeyKnown' /\ TasksEnded'
    BY <1>5, Sentinels, <2>1, <2>2 DEF Cleanup, TypeOK, MemoryOK, KeyKnown, TasksEnded
  <2>5. ObjThere' /\ CacheOpen' /\ CacheThere'
    BY <1>5, Sentinels, <2>1, <2>2 DEF Cleanup, TypeOK, ObjThere, CacheOpen, CacheThere
  <2>6. QED
    BY <2>3, <2>4, <2>5
<1>6. QED
  BY <1>1, <1>2, <1>3, <1>4, <1>5 DEF Builder

\* Every step of the environment keeps the structural invariant.
LEMMA StructEnvironment ==
  ASSUME StructInv,
         \/ \E f \in Files : \E c \in Edits[f] : Edit(f, c)
         \/ \E b \in Builds : Crash(b)
         \/ Clear
  PROVE  StructInv'
<1> USE DEF StructInv
<1>1. CASE \E f \in Files : \E c \in Edits[f] : Edit(f, c)
  <2>1. \A f \in Files : Edits[f] \subseteq Contents \cup {Absent}
    BY ConstantsAssumption
  <2>2. disk' \in [Files -> Contents \cup {Absent}]
    BY <1>1, <2>1 DEF Edit, TypeOK
  <2>3. faults' \in [edit : Nat, crash : Nat, clear : Nat]
    BY <1>1 DEF Edit, TypeOK
  <2>4. TypeOK'
    BY <1>1, Sentinels, <2>1, <2>2, <2>3 DEF Edit, TypeOK, FileValue
  <2>5. MemoryOK' /\ KeyKnown' /\ TasksEnded'
    BY <1>1, Sentinels, <2>1, <2>2, <2>3 DEF Edit, TypeOK, MemoryOK, KeyKnown, TasksEnded
  <2>6. ObjThere' /\ CacheOpen' /\ CacheThere'
    BY <1>1, Sentinels, <2>1, <2>2, <2>3 DEF Edit, TypeOK, ObjThere, CacheOpen, CacheThere
  <2>7. QED
    BY <2>4, <2>5, <2>6
<1>2. CASE \E b \in Builds : Crash(b)
  <2>1. TypeOK'
    BY <1>2, Sentinels DEF Crash, TypeOK, FileValue
  <2>2. MemoryOK' /\ KeyKnown' /\ TasksEnded'
    BY <1>2, Sentinels DEF Crash, TypeOK, MemoryOK, KeyKnown, TasksEnded
  <2>3. ObjThere' /\ CacheOpen' /\ CacheThere'
    BY <1>2, Sentinels DEF Crash, TypeOK, ObjThere, CacheOpen, CacheThere
  <2>4. QED
    BY <2>1, <2>2, <2>3
<1>3. CASE ClearStart
  <2>1. TypeOK'
    BY <1>3, Sentinels DEF ClearStart, TypeOK, FileValue
  <2>2. MemoryOK' /\ KeyKnown' /\ TasksEnded'
    BY <1>3, Sentinels DEF ClearStart, TypeOK, MemoryOK, KeyKnown, TasksEnded
  <2>3. ObjThere' /\ CacheOpen' /\ CacheThere'
    BY <1>3, Sentinels DEF ClearStart, TypeOK, ObjThere, CacheOpen, CacheThere
  <2>4. QED
    BY <2>1, <2>2, <2>3
<1>4. CASE ClearDir
  <2>1. TypeOK'
    BY <1>4, Sentinels DEF ClearDir, TypeOK, FileValue
  <2>2. MemoryOK' /\ KeyKnown' /\ TasksEnded'
    BY <1>4, Sentinels DEF ClearDir, TypeOK, MemoryOK, KeyKnown, TasksEnded
  <2>3. ObjThere' /\ CacheOpen' /\ CacheThere'
    BY <1>4, Sentinels DEF ClearDir, TypeOK, ObjThere, CacheOpen, CacheThere
  <2>4. QED
    BY <2>1, <2>2, <2>3
<1>5. CASE cleaner # Absent /\ \E k \in cleaner : ClearEntry(k)
  <2>1. pinned' \in [Tasks -> FileValue]
    BY <1>5 DEF ClearEntry, TypeOK, CacheOpen
  <2>2. TypeOK'
    BY <1>5, Sentinels, <2>1 DEF ClearEntry, TypeOK, FileValue
  <2>3. MemoryOK' /\ KeyKnown' /\ TasksEnded'
    BY <1>5, Sentinels, <2>1 DEF ClearEntry, TypeOK, MemoryOK, KeyKnown, TasksEnded
  <2>4. ObjThere' /\ CacheOpen' /\ CacheThere'
    BY <1>5, Sentinels, <2>1 DEF ClearEntry, TypeOK, ObjThere, CacheOpen, CacheThere
  <2>5. QED
    BY <2>2, <2>3, <2>4
<1>6. QED
  BY <1>1, <1>2, <1>3, <1>4, <1>5 DEF Clear

\* Every step keeps the structural invariant.
LEMMA StructStep == StructInv /\ [Next]_vars => StructInv'
<1> SUFFICES ASSUME StructInv, [Next]_vars PROVE StructInv'
  OBVIOUS
<1>1. CASE \E t \in Tasks : Task(t)
  BY <1>1, StructTask
<1>2. CASE \E b \in Builds : Builder(b)
  BY <1>2, StructBuilder
<1>3. CASE \/ \E f \in Files : \E c \in Edits[f] : Edit(f, c)
           \/ \E b \in Builds : Crash(b)
           \/ Clear
  BY <1>3, StructEnvironment
<1>4. CASE UNCHANGED vars
  BY <1>4 DEF vars, StructInv, TypeOK, MemoryOK, KeyKnown, TasksEnded, ObjThere, CacheOpen,
              CacheThere
<1>5. QED
  BY <1>1, <1>2, <1>3, <1>4 DEF Next, Quiet

\* TypeOK: every variable keeps its type, and with it everything StructInv says of files
\* that are open, in memory or about to be stored, for any number of builds, sources,
\* edits, kills and clears.
THEOREM TypeCorrect == Spec => []TypeOK
<1>1. StructInv => TypeOK
  BY DEF StructInv
<1>2. QED
  BY <1>1, StructInit, StructStep, PTL DEF Spec

-----------------------------------------------------------------------------
(* What a task's step leaves alone.                                        *)

\* A step of a task that has not ended touches its own memory and its own files only.
LEMMA TaskFrame ==
  ASSUME StructInv, NEW t \in Tasks, Task(t)
  PROVE  /\ pc[t] \notin Ended
         /\ \A u \in Tasks \ {t} : /\ pc'[u] = pc[u] /\ key'[u] = key[u]
                                   /\ ir'[u] = ir[u] /\ pinned'[u] = pinned[u]
         /\ \A x \in Slots \ {Slot(t)} : ll'[x] = ll[x] /\ asm'[x] = asm[x] /\ obj'[x] = obj[x]
         /\ UNCHANGED <<disk, faults, cleaner, tempDir, bpc, why, out>>
         /\ scratch' \subseteq scratch \cup {t}
<1> USE TaskFacts DEF StructInv, TypeOK
<1>1. CASE BuildKey(t)
  BY <1>1 DEF BuildKey
<1>2. CASE Lookup(t)
  BY <1>2 DEF Lookup
<1>3. CASE RestoreOpen(t)
  BY <1>3 DEF RestoreOpen
<1>4. CASE RestoreCopy(t)
  BY <1>4 DEF RestoreCopy
<1>5. CASE ReadSource(t)
  BY <1>5 DEF ReadSource
<1>6. CASE FrontEnd(t)
  BY <1>6 DEF FrontEnd, ScratchAfter
<1>7. CASE CreateLl(t)
  BY <1>7 DEF CreateLl
<1>8. CASE WriteLl(t)
  BY <1>8 DEF WriteLl
<1>9. CASE LlcFails(t)
  BY <1>9 DEF LlcFails
<1>10. CASE LlcObj(t)
  BY <1>10 DEF LlcObj
<1>11. CASE LlcAsm(t)
  BY <1>11 DEF LlcAsm
<1>12. CASE RewriteAsm(t)
  BY <1>12 DEF RewriteAsm
<1>13. CASE AssembleFails(t)
  BY <1>13 DEF AssembleFails
<1>14. CASE Assemble(t)
  BY <1>14 DEF Assemble
<1>15. CASE Emitted(t)
  BY <1>15 DEF Emitted
<1>16. CASE StoreMkdir(t)
  BY <1>16 DEF StoreMkdir
<1>17. CASE StoreOpen(t)
  BY <1>17 DEF StoreOpen
<1>18. CASE StoreCopy(t)
  BY <1>18 DEF StoreCopy
<1>19. QED
  BY <1>1, <1>2, <1>3, <1>4, <1>5, <1>6, <1>7, <1>8, <1>9, <1>10, <1>11, <1>12, <1>13, <1>14,
     <1>15, <1>16, <1>17, <1>18 DEF Task

-----------------------------------------------------------------------------
(* What a build leaves behind.  Only a build whose tasks have all succeeded is linked, *)
(* and a task that has succeeded has removed its database and its arena.   *)

\* The database and arena of a task exist while it reads, or for ever.
ScratchLeft == \A t \in scratch : pc[t] \in {"reading", "panic", "killed"}

\* A build that is linked has no failed task.
AllOk == \A t \in Tasks : bpc[t[1]] \in {"linking", "linked", "done"} => pc[t] = "ok"

\* A build that is done has removed its directory with all files in it.
Removed ==
  \A b \in Builds : bpc[b] = "done" =>
    b \notin tempDir /\ \A x \in Slots : x[1] = b => obj[x] = Absent /\ ll[x] = Absent

LeftInv == ScratchLeft /\ AllOk /\ Removed

LEMMA LeftTask ==
  ASSUME StructInv, LeftInv, NEW t \in Tasks, Task(t)
  PROVE  LeftInv'
<1>1. /\ bpc[t[1]] \notin {"linking", "linked", "done"}
      /\ \A x \in Slots : x[1] # t[1] => x # Slot(t)
  BY TaskFacts, TaskFrame DEF LeftInv, AllOk, Slot
<1>2. ScratchLeft'
  <2>1. t \in scratch => pc[t] = "reading"
    BY TaskFrame DEF LeftInv, ScratchLeft
  <2>2. t \in scratch' => pc'[t] \in {"reading", "panic"}
    BY <2>1 DEF Task, BuildKey, Lookup, RestoreOpen, RestoreCopy, ReadSource, FrontEnd, Outcome,
                ScratchAfter, CreateLl, WriteLl, LlcFails, LlcObj, LlcAsm, RewriteAsm,
                AssembleFails, Assemble, Emitted, StoreMkdir, StoreOpen, StoreCopy,
                StructInv, TypeOK
  <2>3. QED
    BY <2>2, TaskFrame DEF LeftInv, ScratchLeft, StructInv, TypeOK
<1>3. AllOk'
  BY <1>1, TaskFacts, TaskFrame DEF LeftInv, AllOk
<1>4. Removed'
  BY <1>1, TaskFrame DEF LeftInv, Removed
<1>5. QED
  BY <1>2, <1>3, <1>4 DEF LeftInv

LEMMA LeftBuilder ==
  ASSUME StructInv, LeftInv, NEW b \in Builds, Builder(b)
  PROVE  LeftInv'
<1> USE DEF StructInv, LeftInv
<1>1. UNCHANGED <<pc, scratch>> /\ ScratchLeft'
  BY DEF Builder, Begin, Collect, Produce, ProduceFails, Cleanup, ScratchLeft
<1>2. \A c \in Builds \ {b} : bpc'[c] = bpc[c]
  BY DEF Builder, Begin, Collect, Produce, ProduceFails, Cleanup, TypeOK
<1>3. CASE Begin(b)
  <2>1. bpc'[b] \notin {"linking", "linked", "done"}
    BY <1>3 DEF Begin, TypeOK
  <2>2. AllOk'
    BY <1>1, <1>2, <2>1, TaskFacts DEF AllOk
  <2>3. Removed'
    BY <1>2, <1>3, <2>1 DEF Begin, Removed
  <2>4. QED
    BY <1>1, <2>2, <2>3
<1>4. CASE Collect(b)
  <2>1. bpc'[b] = "linking" => \A t \in TasksOf(b) : pc[t] = "ok"
    BY <1>4 DEF Collect, TypeOK
  <2>2. bpc'[b] \notin {"linked", "done"}
    BY <1>4 DEF Collect, TypeOK
  <2>3. AllOk'
    BY <1>1, <1>2, <2>1, <2>2, TaskFacts DEF AllOk
  <2>4. Removed'
    BY <1>2, <1>4, <2>2 DEF Collect, Removed
  <2>5. QED
    BY <1>1, <2>3, <2>4
<1>5. CASE Produce(b) \/ ProduceFails(b)
  <2>1. bpc[b] = "linking" /\ bpc'[b] \in {"linked", "failed"}
    BY <1>5 DEF Produce, ProduceFails, TypeOK
  <2>2. AllOk'
    BY <1>1, <1>2, <2>1, TaskFacts DEF AllOk
  <2>3. Removed'
    BY <1>2, <1>5, <2>1 DEF Produce, ProduceFails, Removed
  <2>4. QED
    BY <1>1, <2>2, <2>3
<1>6. CASE Cleanup(b)
  <2>1. bpc[b] = "linked"
    BY <1>6 DEF Cleanup
  <2>2. AllOk'
    BY <1>1, <1>2, <2>1, TaskFacts DEF AllOk
  <2>3. b \notin tempDir' /\ \A c \in Builds \ {b} : c \notin tempDir => c \notin tempDir'
    BY <1>6 DEF Cleanup
  <2>4. \A x \in Slots : /\ x[1] = b => obj'[x] = Absent /\ ll'[x] = Absent
                         /\ x[1] # b => obj'[x] = obj[x] /\ ll'[x] = ll[x]
    BY <1>6 DEF Cleanup
  <2>5. Removed'
    BY <1>2, <2>3, <2>4 DEF Removed
  <2>6. QED
    BY <1>1, <2>2, <2>5
<1>7. QED
  BY <1>3, <1>4, <1>5, <1>6 DEF Builder

LEMMA LeftEnvironment ==
  ASSUME StructInv, LeftInv,
         \/ \E f \in Files : \E c \in Edits[f] : Edit(f, c)
         \/ \E b \in Builds : Crash(b)
         \/ Clear
         \/ UNCHANGED vars
  PROVE  LeftInv'
<1> USE DEF StructInv, LeftInv
<1>1. CASE \E b \in Builds : Crash(b)
  <2>1. PICK b \in Builds : Crash(b)
    BY <1>1
  <2>2. ScratchLeft'
    BY <2>1 DEF Crash, ScratchLeft, TypeOK
  <2>3. AllOk' /\ Removed'
    BY <2>1, TaskFacts DEF Crash, AllOk, Removed, TypeOK
  <2>4. QED
    BY <2>2, <2>3
<1>2. CASE \E f \in Files : \E c \in Edits[f] : Edit(f, c)
  BY <1>2 DEF Edit, ScratchLeft, AllOk, Removed
<1>3. CASE Clear
  BY <1>3 DEF Clear, ClearStart, ClearEntry, ClearDir, ScratchLeft, AllOk, Removed
<1>4. CASE UNCHANGED vars
  BY <1>4 DEF vars, ScratchLeft, AllOk, Removed
<1>5. QED
  BY <1>1, <1>2, <1>3, <1>4

\* NothingLeft: a build that returns its output has removed every file of its own, and the
\* database and arena of a compilation (compile_to_ir_artifacts) outlive only a panic or a
\* kill, whatever the other builds, the user and the cache do meanwhile.
THEOREM NothingIsLeft == Spec => []NothingLeft
<1>1. Init => StructInv /\ LeftInv
  BY StructInit DEF Init, LeftInv, ScratchLeft, AllOk, Removed, Tasks
<1>2. StructInv /\ LeftInv /\ [Next]_vars => LeftInv'
  BY LeftTask, LeftBuilder, LeftEnvironment DEF Next, Quiet
<1>3. StructInv /\ LeftInv => NothingLeft
  <2> SUFFICES ASSUME StructInv, LeftInv PROVE NothingLeft
    OBVIOUS
  <2>1. ASSUME NEW b \in Builds, bpc[b] = "done", NEW t \in TasksOf(b)
        PROVE  t \notin scratch /\ obj[Slot(t)] = Absent /\ ll[Slot(t)] = Absent
    <3>1. t \in Tasks /\ t[1] = b
      BY <2>1 DEF TasksOf
    <3>2. Slot(t) \in Slots /\ Slot(t)[1] = b
      BY <3>1, TaskFacts DEF Slot
    <3>3. pc[t] = "ok"
      BY <2>1, <3>1 DEF LeftInv, AllOk
    <3>4. QED
      BY <2>1, <3>2, <3>3 DEF LeftInv, ScratchLeft, Removed
  <2>2. QED
    BY <2>1 DEF NothingLeft, LeftInv, ScratchLeft, Removed
<1>4. QED
  BY <1>1, <1>2, <1>3, StructStep, PTL DEF Spec

-----------------------------------------------------------------------------
(* Soundness of the cache.  An entry is made from what a task read and is  *)
(* named by what it hashed before.  The two agree when the source is not   *)
(* saved in between, and when no other task of the build writes files of   *)
(* the same names.                                                         *)

\* The user saves headers only.
SourcesUnedited == \A s \in Sources : Edits[s] = {}

SourceKept == \A s \in Sources : disk[s] = Initial[s]

\* A file or a value in memory that task t may store under its key.
Fits(t, v) == Whole(v) => KeyOf(v) = MyKey(t)

TaskSound(t) ==
  /\ pc[t] \notin {"queued", "err", "killed"} => key[t] = MyKey(t)
  /\ pc[t] = "reading" => ir[t] = Initial[Source(t)]
  /\ pc[t] \in {"compiled", "creating", "emitting"} => Fits(t, ir[t])
  /\ Fits(t, ll[Slot(t)])
  /\ Fits(t, asm[Slot(t)])
  /\ Fits(t, obj[Slot(t)])
  /\ Fits(t, pinned[t])

SoundInv ==
  /\ SourceKept
  /\ \A t \in Tasks : TaskSound(t)
  /\ CacheSound

\* A task's step keeps its own files, memory and pinned entry sound.
LEMMA SoundSelf ==
  ASSUME StructInv, SoundInv, NEW t \in Tasks, Task(t)
  PROVE  TaskSound(t)'
<1> USE TaskFacts, Sentinels DEF StructInv, SoundInv, SourceKept, TypeOK
<1>1. TaskSound(t)
  OBVIOUS
<1>2. \A v \in {Absent, Damaged} : Fits(t, v)
  BY DEF Fits
<1>3. CASE BuildKey(t)
  <2>1. CacheKey(t[1], disk[Source(t)]) = MyKey(t)
    BY DEF MyKey
  <2>2. QED
    BY <1>3, <1>1, <1>2, <2>1 DEF BuildKey, TaskSound
<1>4. CASE Lookup(t)
  BY <1>4, <1>1, <1>2 DEF Lookup, TaskSound
<1>5. CASE RestoreOpen(t)
  BY <1>5, <1>1, <1>2 DEF RestoreOpen, TaskSound
<1>6. CASE RestoreCopy(t)
  <2>1. pinned[t] = Absent => Fits(t, cache[key[t]])
    BY <1>6, <1>1 DEF RestoreCopy, TaskSound, CacheOpen, CacheSound, Fits
  <2>2. QED
    BY <1>6, <1>1, <1>2, <2>1 DEF RestoreCopy, TaskSound
<1>7. CASE ReadSource(t)
  <2>1. disk[Source(t)] = Initial[Source(t)]
    OBVIOUS
  <2>2. QED
    BY <1>7, <1>1, <1>2, <2>1 DEF ReadSource, TaskSound
<1>8. CASE FrontEnd(t)
  <2>1. pc[t] = "reading" /\ ir[t] = Initial[Source(t)] /\ ir[t] \in Contents
    BY <1>8, <1>1 DEF FrontEnd, TaskSound, MemoryOK
  <2>2. disk[HeaderOf[Source(t)]] \in Contents \cup {Absent}
    BY ConstantsAssumption DEF Files
  <2>3. Outcome(ir[t], disk[HeaderOf[Source(t)]]) = "compiled" => disk[HeaderOf[Source(t)]] \in Contents
    BY <2>2 DEF Outcome
  <2>4. pc'[t] = "compiled" => Fits(t, ir'[t])
    BY <1>8, <2>1, <2>3, FrontEndProduct DEF FrontEnd, Fits, MyKey
  <2>5. pc'[t] \in {"err", "panic", "compiled"}
    BY <1>8 DEF FrontEnd, Outcome
  <2>6. QED
    BY <1>8, <1>1, <1>2, <2>1, <2>2, <2>3, <2>4, <2>5 DEF FrontEnd, TaskSound
<1>9. CASE CreateLl(t)
  BY <1>9, <1>1, <1>2 DEF CreateLl, TaskSound
<1>10. CASE WriteLl(t)
  BY <1>10, <1>1, <1>2 DEF WriteLl, TaskSound
<1>11. CASE LlcFails(t)
  BY <1>11, <1>1, <1>2 DEF LlcFails, TaskSound
<1>12. CASE LlcObj(t)
  BY <1>12, <1>1, <1>2 DEF LlcObj, TaskSound
<1>13. CASE LlcAsm(t)
  BY <1>13, <1>1, <1>2 DEF LlcAsm, TaskSound
<1>14. CASE RewriteAsm(t)
  <2>1. Whole(asm[Slot(t)]) => asm[Slot(t)] \in Product
    BY DEF FileValue
  <2>2. Whole(asm[Slot(t)]) => Fits(t, [asm[Slot(t)] EXCEPT !.rethunk = TRUE])
    BY <2>1, <1>1, RewrittenProduct DEF Fits, TaskSound
  <2>3. asm'[Slot(t)] = IF Whole(asm[Slot(t)]) THEN [asm[Slot(t)] EXCEPT !.rethunk = TRUE] ELSE asm[Slot(t)]
    BY <1>14 DEF RewriteAsm
  <2>4. QED
    BY <1>14, <1>1, <1>2, <2>1, <2>2, <2>3 DEF RewriteAsm, TaskSound
<1>15. CASE AssembleFails(t)
  BY <1>15, <1>1, <1>2 DEF AssembleFails, TaskSound
<1>16. CASE Assemble(t)
  BY <1>16, <1>1, <1>2 DEF Assemble, TaskSound
<1>17. CASE Emitted(t)
  BY <1>17, <1>1, <1>2 DEF Emitted, TaskSound
<1>18. CASE StoreMkdir(t)
  BY <1>18, <1>1, <1>2 DEF StoreMkdir, TaskSound
<1>19. CASE StoreOpen(t)
  BY <1>19, <1>1, <1>2 DEF StoreOpen, TaskSound
<1>20. CASE StoreCopy(t)
  BY <1>20, <1>1, <1>2 DEF StoreCopy, TaskSound
<1>21. QED
  BY <1>3, <1>4, <1>5, <1>6, <1>7, <1>8, <1>9, <1>10, <1>11, <1>12, <1>13, <1>14, <1>15,
     <1>16, <1>17, <1>18, <1>19, <1>20 DEF Task

\* With distinct stems a task's step leaves the files of the other tasks alone, and what it
\* puts into the cache fits its key.
LEMMA SoundTask ==
  ASSUME DistinctStems, StructInv, SoundInv, NEW t \in Tasks, Task(t)
  PROVE  SoundInv'
<1>1. SourceKept'
  BY TaskFrame DEF SoundInv, SourceKept
<1>2. ASSUME NEW u \in Tasks PROVE TaskSound(u)'
  <2>1. CASE u = t
    BY <2>1, SoundSelf
  <2>2. CASE u # t
    <3>1. Slot(u) \in Slots \ {Slot(t)}
      BY <2>2, TaskFacts DEF DistinctStems
    <3>2. QED
      BY <2>2, <3>1, TaskFrame DEF SoundInv, TaskSound, Fits
  <2>3. QED
    BY <2>1, <2>2
<1>3. CacheSound'
  <2>1. CASE StoreOpen(t)
    BY <2>1 DEF StoreOpen, SoundInv, CacheSound
  <2>2. CASE StoreCopy(t)
    <3>1. key[t] = MyKey(t) /\ Fits(t, obj[Slot(t)])
      BY <2>2 DEF StoreCopy, SoundInv, TaskSound
    <3>2. QED
      BY <2>2, <3>1 DEF StoreCopy, SoundInv, CacheSound, Fits
  <2>3. CASE UNCHANGED cache
    BY <2>3 DEF SoundInv, CacheSound
  <2>4. StoreOpen(t) \/ StoreCopy(t) \/ UNCHANGED cache
    BY DEF Task, BuildKey, Lookup, RestoreOpen, RestoreCopy, ReadSource, FrontEnd, CreateLl,
           WriteLl, LlcFails, LlcObj, LlcAsm, RewriteAsm, AssembleFails, Assemble, Emitted,
           StoreMkdir
  <2>5. QED
    BY <2>1, <2>2, <2>3, <2>4
<1>4. QED
  BY <1>1, <1>2, <1>3 DEF SoundInv

LEMMA SoundBuilder ==
  ASSUME StructInv, SoundInv, NEW b \in Builds, Builder(b)
  PROVE  SoundInv'
<1>1. UNCHANGED <<disk, cache, pc, key, ir, pinned>>
  BY DEF Builder, Begin, Collect, Produce, ProduceFails, Cleanup
<1>2. \A x \in Slots : /\ ll'[x] \in {ll[x], Absent}
                       /\ asm'[x] \in {asm[x], Absent}
                       /\ obj'[x] \in {obj[x], Absent}
  BY DEF Builder, Begin, Collect, Produce, ProduceFails, Cleanup
<1>3. \A u \in Tasks : TaskSound(u)'
  BY <1>1, <1>2, TaskFacts DEF SoundInv, TaskSound, Fits
<1>4. QED
  BY <1>1, <1>3 DEF SoundInv, SourceKept, CacheSound

LEMMA SoundEnvironment ==
  ASSUME SourcesUnedited, StructInv, SoundInv,
         \/ \E f \in Files : \E c \in Edits[f] : Edit(f, c)
         \/ \E b \in Builds : Crash(b)
         \/ Clear
         \/ UNCHANGED vars
  PROVE  SoundInv'
<1> USE DEF SoundInv
<1>1. CASE \E f \in Files : \E c \in Edits[f] : Edit(f, c)
  <2>1. PICK f \in Files : \E c \in Edits[f] : Edit(f, c)
    BY <1>1
  <2>2. f \notin Sources
    BY <2>1 DEF SourcesUnedited
  <2>3. SourceKept'
    BY <2>1, <2>2 DEF Edit, SourceKept
  <2>4. UNCHANGED <<cache, pc, key, ir, pinned, ll, asm, obj>>
    BY <2>1 DEF Edit
  <2>5. QED
    BY <2>3, <2>4 DEF TaskSound, Fits, CacheSound
<1>2. CASE \E b \in Builds : Crash(b)
  <2>1. PICK b \in Builds : Crash(b)
    BY <1>2
  <2>2. UNCHANGED <<disk, cache, key, ir, pinned, ll, asm, obj>>
    BY <2>1 DEF Crash
  <2>3. \A u \in Tasks : pc'[u] \in {pc[u], "killed"}
    BY <2>1 DEF Crash
  <2>4. QED
    BY <2>2, <2>3 DEF SourceKept, TaskSound, Fits, CacheSound
<1>3. CASE \E k \in cleaner : ClearEntry(k)
  <2>1. PICK k \in cleaner : ClearEntry(k)
    BY <1>3
  <2>2. ASSUME NEW u \in Tasks PROVE Fits(u, pinned'[u])
    <3>1. CASE pc[u] \in {"restoring", "storing"} /\ key[u] = k /\ pinned[u] = Absent
      <4>1. k \in DOMAIN cache /\ k = MyKey(u)
        BY <3>1 DEF StructInv, CacheOpen, TaskSound
      <4>2. QED
        BY <2>1, <3>1, <4>1 DEF ClearEntry, CacheSound, Fits
    <3>2. CASE ~(pc[u] \in {"restoring", "storing"} /\ key[u] = k /\ pinned[u] = Absent)
      BY <2>1, <3>2 DEF ClearEntry, TaskSound, Fits
    <3>3. QED
      BY <3>1, <3>2
  <2>3. UNCHANGED <<disk, pc, key, ir, ll, asm, obj>>
    BY <2>1 DEF ClearEntry
  <2>4. \A u \in Tasks : TaskSound(u)'
    BY <2>2, <2>3 DEF TaskSound, Fits
  <2>5. QED
    BY <2>1, <2>3, <2>4 DEF ClearEntry, SourceKept, CacheSound
<1>4. CASE ClearStart \/ ClearDir
  BY <1>4 DEF ClearStart, ClearDir, SourceKept, TaskSound, Fits, CacheSound
<1>5. CASE UNCHANGED vars
  BY <1>5 DEF vars, SourceKept, TaskSound, Fits, CacheSound
<1>6. QED
  BY <1>1, <1>2, <1>3, <1>4, <1>5 DEF Clear

\* CacheSound: as long as sources are not saved while they are compiled and the sources of
\* a build have distinct stems, no overlap of builds, edit of a header, kill or clear puts
\* an object into the cache under the key of another text or of other flags.
THEOREM CacheIsSound ==
  ASSUME DistinctStems, SourcesUnedited
  PROVE  Spec => []CacheSound
<1>1. Init => SoundInv
  <2> SUFFICES ASSUME Init PROVE SoundInv
    OBVIOUS
  <2>1. SourceKept /\ CacheSound
    BY DEF Init, SourceKept, CacheSound, Files
  <2>2. ASSUME NEW t \in Tasks PROVE TaskSound(t)
    BY TaskFacts DEF Init, TaskSound, Fits
  <2>3. QED
    BY <2>1, <2>2 DEF SoundInv
<1>2. StructInv /\ SoundInv /\ [Next]_vars => SoundInv'
  BY SoundTask, SoundBuilder, SoundEnvironment DEF Next, Quiet
<1>3. SoundInv => CacheSound
  BY DEF SoundInv
<1>4. QED
  BY <1>1, <1>2, <1>3, StructInit, StructStep, PTL DEF Spec

-----------------------------------------------------------------------------
(* Half-written entries.  A task that stores its object has made it        *)
(* completely, so an entry stays half written only if its writer is killed.*)

\* What task t relies on when it goes on is whole, and it has nothing open but an entry.
TaskWhole(t) ==
  /\ pc[t] \in {"restoring", "storing", "killed"} \/ pinned[t] = Absent
  /\ pc[t] = "creating" => ll[Slot(t)] # Absent
  /\ pc[t] = "ll" => ll[Slot(t)] \in Product
  /\ pc[t] \in {"asm", "rewritten"} => asm[Slot(t)] \in Product
  /\ pc[t] = "emitting" => ir[t] \in Product
  /\ pc[t] \in {"mkdir", "store", "storing"} => obj[Slot(t)] \in Product

\* The writer of a half-written entry still has it open, or was killed.
Writer(t, k) ==
  key[t] = k /\ (pc[t] = "killed" \/ (pc[t] = "storing" /\ pinned[t] = Absent))

WriterInv ==
  /\ \A t \in Tasks : TaskWhole(t)
  /\ \A k \in DOMAIN cache : cache[k] = Damaged => \E t \in Tasks : Writer(t, k)

LEMMA WholeSelf ==
  ASSUME StructInv, NEW t \in Tasks, TaskWhole(t), Task(t)
  PROVE  TaskWhole(t)'
<1> USE TaskFacts, Sentinels DEF StructInv, TypeOK
<1>1. CASE BuildKey(t) \/ Lookup(t) \/ RestoreOpen(t) \/ RestoreCopy(t) \/ ReadSource(t)
  BY <1>1 DEF BuildKey, Lookup, RestoreOpen, RestoreCopy, ReadSource, TaskWhole
<1>2. CASE FrontEnd(t)
  BY <1>2 DEF FrontEnd, Outcome, TaskWhole
<1>3. CASE CreateLl(t)
  BY <1>3 DEF CreateLl, TaskWhole
<1>4. CASE WriteLl(t)
  BY <1>4 DEF WriteLl, MemoryOK, TaskWhole
<1>5. CASE LlcFails(t)
  BY <1>5 DEF LlcFails, TaskWhole
<1>6. CASE LlcObj(t)
  BY <1>6 DEF LlcObj, TaskWhole
<1>7. CASE LlcAsm(t)
  BY <1>7 DEF LlcAsm, TaskWhole
<1>8. CASE RewriteAsm(t)
  <2>1. asm[Slot(t)] \in Product
    BY <1>8 DEF RewriteAsm, TaskWhole
  <2>2. [asm[Slot(t)] EXCEPT !.rethunk = TRUE] \in Product
    BY <2>1, RewrittenProduct
  <2>3. asm'[Slot(t)] \in Product /\ pc'[t] \in {"rewritten", "err"} /\ pinned'[t] = Absent
    BY <1>8, <2>1, <2>2 DEF RewriteAsm, TaskWhole
  <2>4. QED
    BY <2>3 DEF TaskWhole
<1>9. CASE AssembleFails(t)
  BY <1>9 DEF AssembleFails, TaskWhole
<1>10. CASE Assemble(t)
  BY <1>10 DEF Assemble, TaskWhole
<1>11. CASE Emitted(t)
  BY <1>11 DEF Emitted, TaskWhole
<1>12. CASE StoreMkdir(t)
  BY <1>12 DEF StoreMkdir, TaskWhole
<1>13. CASE StoreOpen(t)
  BY <1>13 DEF StoreOpen, TaskWhole
<1>14. CASE StoreCopy(t)
  BY <1>14 DEF StoreCopy, TaskWhole
<1>15. QED
  BY <1>1, <1>2, <1>3, <1>4, <1>5, <1>6, <1>7, <1>8, <1>9, <1>10, <1>11, <1>12, <1>13,
     <1>14 DEF Task

LEMMA WriterTask ==
  ASSUME DistinctStems, StructInv, WriterInv, NEW t \in Tasks, Task(t)
  PROVE  WriterInv'
<1>1. ASSUME NEW u \in Tasks PROVE TaskWhole(u)'
  <2>1. CASE u = t
    BY <2>1, WholeSelf DEF WriterInv
  <2>2. CASE u # t
    <3>1. Slot(u) \in Slots \ {Slot(t)}
      BY <2>2, TaskFacts DEF DistinctStems
    <3>2. QED
      BY <2>2, <3>1, TaskFrame DEF WriterInv, TaskWhole
  <2>3. QED
    BY <2>1, <2>2
<1>2. ASSUME NEW k \in DOMAIN cache', cache'[k] = Damaged
      PROVE  \E u \in Tasks : Writer(u, k)'
  <2>1. CASE StoreOpen(t)
    <3>1. CASE k = key[t] /\ cacheDir
      <4>1. pinned[t] = Absent
        BY <2>1 DEF StoreOpen, WriterInv, TaskWhole
      <4>2. QED
        BY <2>1, <3>1, <4>1 DEF StoreOpen, Writer, StructInv, TypeOK
    <3>2. CASE ~(k = key[t] /\ cacheDir)
      <4>1. k \in DOMAIN cache /\ cache[k] = Damaged
        BY <1>2, <2>1, <3>2 DEF StoreOpen
      <4>2. PICK u \in Tasks : Writer(u, k)
        BY <4>1 DEF WriterInv
      <4>3. u # t
        BY <2>1, <4>2 DEF StoreOpen, Writer
      <4>4. QED
        BY <4>2, <4>3, TaskFrame DEF Writer
    <3>3. QED
      BY <3>1, <3>2
  <2>2. CASE StoreCopy(t)
    <3>1. obj[Slot(t)] \in Product
      BY <2>2 DEF StoreCopy, WriterInv, TaskWhole
    <3>2. k \in DOMAIN cache /\ cache[k] = Damaged /\ ~(pinned[t] = Absent /\ key[t] = k)
      BY <1>2, <2>2, <3>1, Sentinels DEF StoreCopy
    <3>3. PICK u \in Tasks : Writer(u, k)
      BY <3>2 DEF WriterInv
    <3>4. u # t
      BY <2>2, <3>2, <3>3 DEF StoreCopy, Writer
    <3>5. QED
      BY <3>3, <3>4, TaskFrame DEF Writer
  <2>3. CASE UNCHANGED cache /\ pc[t] \notin {"storing", "killed"}
    <3>1. PICK u \in Tasks : Writer(u, k)
      BY <1>2, <2>3 DEF WriterInv
    <3>2. u # t
      BY <2>3, <3>1 DEF Writer
    <3>3. QED
      BY <3>1, <3>2, TaskFrame DEF Writer
  <2>4. StoreOpen(t) \/ StoreCopy(t) \/ (UNCHANGED cache /\ pc[t] \notin {"storing", "killed"})
    BY DEF Task, BuildKey, Lookup, RestoreOpen, RestoreCopy, ReadSource, FrontEnd, CreateLl,
           WriteLl, LlcFails, LlcObj, LlcAsm, RewriteAsm, AssembleFails, Assemble, Emitted,
           StoreMkdir
  <2>5. QED
    BY <2>1, <2>2, <2>3, <2>4
<1>3. QED
  BY <1>1, <1>2 DEF WriterInv

LEMMA WriterBuilder ==
  ASSUME StructInv, WriterInv, NEW b \in Builds, Builder(b)
  PROVE  WriterInv'
<1>1. UNCHANGED <<cache, pc, key, ir, pinned>>
  BY DEF Builder, Begin, Collect, Produce, ProduceFails, Cleanup
<1>2. \A u \in Tasks : pc[u] \notin Ended =>
        /\ ll'[Slot(u)] = ll[Slot(u)] /\ asm'[Slot(u)] = asm[Slot(u)] /\ obj'[Slot(u)] = obj[Slot(u)]
  <2>1. CASE Cleanup(b)
    <3>1. \A u \in Tasks : Slot(u)[1] = b => pc[u] \in Ended
      BY <2>1, TaskFacts DEF Cleanup, StructInv, TasksEnded, Slot
    <3>2. QED
      BY <2>1, <3>1, TaskFacts DEF Cleanup
  <2>2. CASE ~Cleanup(b)
    BY <2>2 DEF Builder, Begin, Collect, Produce, ProduceFails
  <2>3. QED
    BY <2>1, <2>2
<1>3. \A u \in Tasks : TaskWhole(u)'
  BY <1>1, <1>2 DEF WriterInv, TaskWhole
<1>4. QED
  BY <1>1, <1>3 DEF WriterInv, Writer

LEMMA WriterEnvironment ==
  ASSUME StructInv, WriterInv,
         \/ \E f \in Files : \E c \in Edits[f] : Edit(f, c)
         \/ \E b \in Builds : Crash(b)
         \/ Clear
         \/ UNCHANGED vars
  PROVE  WriterInv'
<1> USE DEF WriterInv
<1>1. CASE \E b \in Builds : Crash(b)
  <2>1. PICK b \in Builds : Crash(b)
    BY <1>1
  <2>2. UNCHANGED <<cache, key, ir, pinned, ll, asm, obj>>
    BY <2>1 DEF Crash
  <2>3. \A u \in Tasks : pc'[u] \in {pc[u], "killed"}
    BY <2>1 DEF Crash
  <2>4. QED
    BY <2>2, <2>3 DEF TaskWhole, Writer
<1>2. CASE \E k \in cleaner : ClearEntry(k)
  <2>1. PICK k \in cleaner : ClearEntry(k)
    BY <1>2
  <2>2. UNCHANGED <<pc, key, ir, ll, asm, obj>>
    BY <2>1 DEF ClearEntry
  <2>3. \A u \in Tasks : key[u] # k => pinned'[u] = pinned[u]
    BY <2>1 DEF ClearEntry
  <2>4. DOMAIN cache' = DOMAIN cache \ {k} /\ \A j \in DOMAIN cache' : cache'[j] = cache[j]
    BY <2>1 DEF ClearEntry
  <2>5. \A u \in Tasks : pc[u] \in {"restoring", "storing"} \/ pinned'[u] = pinned[u]
    BY <2>1 DEF ClearEntry
  <2>6. \A u \in Tasks : TaskWhole(u)'
    BY <2>2, <2>5 DEF TaskWhole
  <2>7. QED
    BY <2>2, <2>3, <2>4, <2>6 DEF Writer
<1>3. CASE ClearStart \/ ClearDir
  BY <1>3 DEF ClearStart, ClearDir, TaskWhole, Writer
<1>4. CASE \E f \in Files : \E c \in Edits[f] : Edit(f, c)
  BY <1>4 DEF Edit, TaskWhole, Writer
<1>5. CASE UNCHANGED vars
  BY <1>5 DEF vars, TaskWhole, Writer
<1>6. QED
  BY <1>1, <1>2, <1>3, <1>4, <1>5 DEF Clear

\* DamagedHasWriter: with distinct stems, a half-written entry is being stored or has the key
\* of a task that was killed (store_cached_object); a compilation that fails at any step
\* leaves none.
THEOREM OnlyWritersDamage ==
  ASSUME DistinctStems
  PROVE  Spec => []DamagedHasWriter
<1>1. Init => WriterInv
  BY DEF Init, WriterInv, TaskWhole
<1>2. StructInv /\ WriterInv /\ [Next]_vars => WriterInv'
  BY WriterTask, WriterBuilder, WriterEnvironment DEF Next, Quiet
<1>3. WriterInv => DamagedHasWriter
  BY DEF WriterInv, Writer, DamagedHasWriter
<1>4. QED
  BY <1>1, <1>2, <1>3, StructInit, StructStep, PTL DEF Spec

=============================================================================
