------------------------- MODULE BuildPromiseProofs -------------------------
(***************************************************************************)
(* How builds end, what they link and what their callers are promised, for *)
(* every set of builds over a source tree that nobody changes meanwhile:   *)
(* OutcomeByInputs, OwnObjects, and that OpticBuild implements             *)
(* BuildPromise.                                                           *)
(***************************************************************************)
EXTENDS OpticBuildProofs

USE DEF treeVars, cacheVars, tempVars, taskVars, buildVars, Goto, TaskStates, Ended,
        BuildStates, BuildEnded, Whole

-----------------------------------------------------------------------------
(* How compile_all ends.  A task that fails has an input that makes it     *)
(* fail, and one that goes on past a step has an input that passes it; a   *)
(* hit stands for a source that has compiled before.                       *)

Good(t) == ~Bad(t, Initial) /\ ~Panics(t, Initial)

\* The source gets through the front end; llc or the assembler may still refuse it.
Parsed(t) ==
  /\ Initial[HeaderOf[Source(t)]] # Absent
  /\ Initial[Source(t)] \notin Broken \cup Panicking

\* The IR of task t.
Plain(t) ==
  [text |-> Initial[Source(t)], header |-> Initial[HeaderOf[Source(t)]],
   flags |-> FlagStrings(t[1]), rethunk |-> FALSE]

Settled == disk = Initial /\ faults.edit = 0 /\ faults.clear = 0 /\ cleaner = Absent

\* What the place of a task tells of its inputs.
TaskTells(t) ==
  /\ pc[t] = "err" => Bad(t, Initial)
  /\ pc[t] = "panic" => Panics(t, Initial)
  /\ pc[t] \notin {"queued", "err", "killed"} => Present(t) /\ key[t] = MyKey(t)
  /\ pc[t] = "reading" => ir[t] = Initial[Source(t)]
  /\ pc[t] \in {"hit", "restoring"} => key[t] \in DOMAIN cache
  /\ pc[t] \in {"compiled", "creating"} => ir[t] = Plain(t) /\ Parsed(t)
  /\ pc[t] = "ll" => ll[Slot(t)] = Plain(t) /\ Parsed(t)
  /\ pc[t] \in {"asm", "rewritten"} => asm[Slot(t)].text = Initial[Source(t)] /\ Parsed(t)
  /\ pc[t] \in {"emitting", "mkdir", "store", "storing", "ok"} => Good(t)
  /\ pc[t] \in {"store", "storing"} => cacheDir

\* An entry of the cache, whole or not, is of a source that compiles.
CacheTells == \A k \in DOMAIN cache : \E u \in Tasks : Present(u) /\ k = MyKey(u) /\ Good(u)

\* What the end of a build tells of its tasks.
BuildTells(b) ==
  /\ bpc[b] = "panicked" => \E t \in TasksOf(b) : pc[t] = "panic"
  /\ why[b] # 0 => /\ \A t \in TasksOf(b) : pc[t] \in {"ok", "err"}
                   /\ Failing(b) # {}
                   /\ why[b] = FirstError(b)

OutcomeInv ==
  /\ Settled
  /\ \A t \in Tasks : TaskTells(t)
  /\ CacheTells
  /\ \A b \in Builds : BuildTells(b)

\* A source that compiles passes that on to every source with its key.
LEMMA KeyIsGood ==
  ASSUME KeysTell, CacheTells, NEW t \in Tasks, Present(t), MyKey(t) \in DOMAIN cache
  PROVE  Good(t)
<1>1. PICK u \in Tasks : Present(u) /\ MyKey(t) = MyKey(u) /\ Good(u)
  BY DEF CacheTells
<1>2. Compiled(t, Initial) = Compiled(u, Initial)
  BY <1>1 DEF KeysTell
<1>3. /\ Initial[Source(t)] = Initial[Source(u)]
      /\ Initial[HeaderOf[Source(t)]] = Initial[HeaderOf[Source(u)]]
  BY <1>2 DEF Compiled
<1>4. QED
  BY <1>1, <1>3 DEF Good, Bad, Panics


\* A task's step takes nothing from the cache.
LEMMA CacheGrows ==
  ASSUME StructInv, NEW t \in Tasks, Task(t)
  PROVE  /\ DOMAIN cache \subseteq DOMAIN cache'
         /\ cacheDir => cacheDir'
<1>1. CASE StoreOpen(t)
  BY <1>1 DEF StoreOpen
<1>2. CASE StoreCopy(t)
  BY <1>2 DEF StoreCopy
<1>3. CASE StoreMkdir(t)
  BY <1>3 DEF StoreMkdir
<1>4. CASE UNCHANGED <<cache, cacheDir>>
  BY <1>4
<1>5. StoreOpen(t) \/ StoreCopy(t) \/ StoreMkdir(t) \/ UNCHANGED <<cache, cacheDir>>
  BY DEF Task, BuildKey, Lookup, RestoreOpen, RestoreCopy, ReadSource, FrontEnd, CreateLl,
         WriteLl, LlcFails, LlcObj, LlcAsm, RewriteAsm, AssembleFails, Assemble, Emitted
<1>6. QED
  BY <1>1, <1>2, <1>3, <1>4, <1>5

\* The place a task reaches tells of its inputs what its old place and its files told.
LEMMA OutcomeSelf ==
  ASSUME ToolsThere, KeysTell, StructInv, WriterInv, OutcomeInv, NEW t \in Tasks, Task(t)
  PROVE  TaskTells(t)'
<1> USE TaskFacts, Sentinels DEF StructInv, OutcomeInv, Settled, TypeOK
<1>1. TaskTells(t) /\ TaskWhole(t)
  BY DEF WriterInv
<1>2. disk = Initial
  OBVIOUS
<1>3. CASE BuildKey(t)
  <2>1. CacheKey(t[1], Initial[Source(t)]) = MyKey(t)
    BY DEF MyKey
  <2>2. Initial[Source(t)] = Absent => Bad(t, Initial)
    BY DEF Bad
  <2>3. QED
    BY <1>3, <1>1, <2>1, <2>2 DEF BuildKey, TaskTells, Present
<1>4. CASE Lookup(t)
  BY <1>4, <1>1 DEF Lookup, TaskTells
<1>5. CASE RestoreOpen(t)
  BY <1>5, <1>1 DEF RestoreOpen, TaskTells
<1>6. CASE RestoreCopy(t)
  <2>1. Good(t)
    BY <1>6, <1>1, KeyIsGood DEF RestoreCopy, TaskTells
  <2>2. QED
    BY <1>6, <1>1, <2>1 DEF RestoreCopy, TaskTells
<1>7. CASE ReadSource(t)
  BY <1>7, <1>1 DEF ReadSource, TaskTells, Present
<1>8. CASE FrontEnd(t)
  <2>1. pc[t] = "reading" /\ ir[t] = Initial[Source(t)] /\ Present(t) /\ key[t] = MyKey(t)
    BY <1>8, <1>1 DEF FrontEnd, TaskTells
  <2> DEFINE header == Initial[HeaderOf[Source(t)]]
             text == Initial[Source(t)]
  <2>2. pc'[t] = Outcome(text, header) /\ key'[t] = key[t]
    BY <1>8, <2>1 DEF FrontEnd
  <2>3. CASE header = Absent \/ text \in Broken
    <3>1. Outcome(text, header) = "err" /\ Bad(t, Initial)
      BY <2>3 DEF Outcome, Bad
    <3>2. QED
      BY <2>2, <3>1 DEF TaskTells
  <2>4. CASE header # Absent /\ text \in Panicking
    <3>1. text \notin Broken \cup Rejected \cup {Absent}
      BY <2>4, ConstantsAssumption
    <3>2. Panics(t, Initial)
      BY <2>4, <3>1 DEF Panics, Bad
    <3>3. Outcome(text, header) = "panic"
      BY <2>4, <3>1 DEF Outcome
    <3>4. QED
      BY <2>1, <2>2, <3>2, <3>3 DEF TaskTells, Present
  <2>5. CASE header # Absent /\ text \notin Broken \cup Panicking
    <3>1. Outcome(text, header) = "compiled" /\ Parsed(t)
      BY <2>5 DEF Outcome, Parsed
    <3>2. ir'[t] = Plain(t)
      BY <1>8, <2>1, <3>1 DEF FrontEnd, Plain
    <3>3. QED
      BY <2>1, <2>2, <3>1, <3>2 DEF TaskTells, Present
  <2>6. QED
    BY <2>3, <2>4, <2>5
<1>9. CASE CreateLl(t)
  BY <1>9, <1>1 DEF CreateLl, TaskTells
<1>10. CASE WriteLl(t)
  BY <1>10, <1>1 DEF WriteLl, TaskTells, TaskWhole, ToolsThere
<1>11. CASE LlcFails(t)
  <2>1. Initial[Source(t)] \in Rejected
    BY <1>11, <1>1 DEF LlcFails, TaskTells, TaskWhole, Plain
  <2>2. Bad(t, Initial) /\ pc'[t] = "err"
    BY <1>11, <2>1 DEF LlcFails, Bad
  <2>3. QED
    BY <2>2 DEF TaskTells
<1>12. CASE LlcObj(t)
  <2>1. Initial[Source(t)] \notin Rejected /\ Parsed(t)
    BY <1>12, <1>1 DEF LlcObj, Accepts, TaskTells, TaskWhole, Plain
  <2>2. Good(t)
    BY <2>1, <1>12, <1>1 DEF Good, Bad, Panics, Parsed, TaskTells, Present, LlcObj
  <2>3. pc'[t] = "emitting" /\ pc[t] = "ll" /\ key'[t] = key[t]
    BY <1>12 DEF LlcObj
  <2>4. QED
    BY <1>1, <2>2, <2>3 DEF TaskTells, Present
<1>13. CASE LlcAsm(t)
  <2>1. ll[Slot(t)].text = Initial[Source(t)] /\ Parsed(t)
    BY <1>13, <1>1 DEF LlcAsm, TaskTells, Plain
  <2>2. pc'[t] = "asm" /\ pc[t] = "ll" /\ key'[t] = key[t] /\ asm'[Slot(t)] = ll[Slot(t)]
    BY <1>13 DEF LlcAsm
  <2>3. QED
    BY <1>1, <2>1, <2>2 DEF TaskTells, Present
<1>14. CASE RewriteAsm(t)
  <2>1. Whole(asm[Slot(t)]) /\ asm[Slot(t)] \in Product
    BY <1>14, <1>1 DEF RewriteAsm, TaskWhole
  <2>2. asm'[Slot(t)] = [asm[Slot(t)] EXCEPT !.rethunk = TRUE]
    BY <1>14, <2>1 DEF RewriteAsm
  <2>3. asm'[Slot(t)].text = asm[Slot(t)].text
    BY <2>1, <2>2 DEF Product
  <2>4. pc'[t] = "rewritten" /\ pc[t] = "asm" /\ key'[t] = key[t]
    BY <1>14, <2>1 DEF RewriteAsm, ToolsThere, Whole
  <2>5. QED
    BY <1>1, <2>3, <2>4 DEF TaskTells, Present
<1>15. CASE AssembleFails(t)
  <2>1. Initial[Source(t)] \in Rejected
    BY <1>15, <1>1 DEF AssembleFails, TaskTells, TaskWhole
  <2>2. Bad(t, Initial) /\ pc'[t] = "err"
    BY <1>15, <2>1 DEF AssembleFails, Bad
  <2>3. QED
    BY <2>2 DEF TaskTells
<1>16. CASE Assemble(t)
  <2>1. Initial[Source(t)] \notin Rejected /\ Parsed(t)
    BY <1>16, <1>1 DEF Assemble, Accepts, TaskTells, TaskWhole
  <2>2. Good(t)
    BY <2>1, <1>16, <1>1 DEF Good, Bad, Panics, Parsed, TaskTells, Present, Assemble
  <2>3. pc'[t] = "emitting" /\ pc[t] = "rewritten" /\ key'[t] = key[t]
    BY <1>16 DEF Assemble
  <2>4. QED
    BY <1>1, <2>2, <2>3 DEF TaskTells, Present
<1>17. CASE Emitted(t)
  BY <1>17, <1>1 DEF Emitted, TaskTells
<1>18. CASE StoreMkdir(t)
  BY <1>18, <1>1 DEF StoreMkdir, TaskTells
<1>19. CASE StoreOpen(t)
  BY <1>19, <1>1 DEF StoreOpen, TaskTells
<1>20. CASE StoreCopy(t)
  BY <1>20, <1>1 DEF StoreCopy, TaskTells
<1>21. QED
  BY <1>3, <1>4, <1>5, <1>6, <1>7, <1>8, <1>9, <1>10, <1>11, <1>12, <1>13, <1>14, <1>15,
     <1>16, <1>17, <1>18, <1>19, <1>20 DEF Task


LEMMA OutcomeTask ==
  ASSUME DistinctStems, ToolsThere, KeysTell, StructInv, WriterInv, OutcomeInv,
         NEW t \in Tasks, Task(t)
  PROVE  OutcomeInv'
<1>1. Settled'
  BY TaskFrame DEF OutcomeInv, Settled
<1>2. ASSUME NEW u \in Tasks PROVE TaskTells(u)'
  <2>1. CASE u = t
    BY <2>1, OutcomeSelf
  <2>2. CASE u # t
    <3>1. Slot(u) \in Slots \ {Slot(t)}
      BY <2>2, TaskFacts DEF DistinctStems
    <3>2. /\ pc'[u] = pc[u] /\ key'[u] = key[u] /\ ir'[u] = ir[u]
          /\ ll'[Slot(u)] = ll[Slot(u)] /\ asm'[Slot(u)] = asm[Slot(u)]
      BY <2>2, <3>1, TaskFrame
    <3>3. TaskTells(u)
      BY DEF OutcomeInv
    <3>4. QED
      BY <3>2, <3>3, CacheGrows DEF TaskTells
  <2>3. QED
    BY <2>1, <2>2
<1>3. CacheTells'
  <2>1. CASE StoreOpen(t)
    <3>1. DOMAIN cache' \subseteq DOMAIN cache \cup {key[t]}
      BY <2>1 DEF StoreOpen
    <3>2. Present(t) /\ key[t] = MyKey(t) /\ Good(t)
      BY <2>1 DEF StoreOpen, OutcomeInv, TaskTells
    <3>3. QED
      BY <3>1, <3>2 DEF OutcomeInv, CacheTells
  <2>2. CASE StoreCopy(t)
    BY <2>2 DEF StoreCopy, OutcomeInv, CacheTells
  <2>3. CASE UNCHANGED cache
    BY <2>3 DEF OutcomeInv, CacheTells
  <2>4. StoreOpen(t) \/ StoreCopy(t) \/ UNCHANGED cache
    BY DEF Task, BuildKey, Lookup, RestoreOpen, RestoreCopy, ReadSource, FrontEnd, CreateLl,
           WriteLl, LlcFails, LlcObj, LlcAsm, RewriteAsm, AssembleFails, Assemble, Emitted,
           StoreMkdir
  <2>5. QED
    BY <2>1, <2>2, <2>3, <2>4
<1>4. ASSUME NEW b \in Builds PROVE BuildTells(b)'
  <2>1. UNCHANGED <<bpc, why>> /\ pc[t] \notin Ended
    BY TaskFrame
  <2>2. ASSUME NEW u \in Tasks, pc[u] \in Ended PROVE pc'[u] = pc[u]
    BY <2>1, <2>2, TaskFrame
  <2>3. BuildTells(b)
    BY DEF OutcomeInv
  <2>4. bpc[b] = "panicked" => \E u \in TasksOf(b) : pc'[u] = "panic"
    BY <2>2, <2>3 DEF BuildTells, TasksOf
  <2>5. ASSUME why[b] # 0
        PROVE  /\ \A u \in TasksOf(b) : pc'[u] \in {"ok", "err"}
               /\ \A u \in TasksOf(b) : pc'[u] = pc[u]
    BY <2>2, <2>3, <2>5 DEF BuildTells, TasksOf
  <2>6. why[b] # 0 => Failing(b)' = Failing(b)
    <3>1. ASSUME NEW i \in DOMAIN Config[b].sources PROVE <<b, i>> \in TasksOf(b)
      BY DEF TasksOf, Tasks
    <3>2. QED
      BY <2>5, <3>1 DEF Failing
  <2>7. why[b] # 0 => FirstError(b)' = FirstError(b)
    BY <2>6 DEF FirstError
  <2>8. QED
    BY <2>1, <2>3, <2>4, <2>5, <2>6, <2>7 DEF BuildTells
<1>5. QED
  BY <1>1, <1>2, <1>3, <1>4 DEF OutcomeInv


\* A task that is not finished keeps its files: only the directory of a build whose tasks
\* have ended is removed.
LEMMA BuilderFrame ==
  ASSUME StructInv, NEW b \in Builds, Builder(b)
  PROVE  /\ UNCHANGED <<treeVars, cacheVars, taskVars, scratch>>
         /\ \A c \in Builds \ {b} : bpc'[c] = bpc[c] /\ why'[c] = why[c]
         /\ \A u \in Tasks : pc[u] \notin Ended =>
              ll'[Slot(u)] = ll[Slot(u)] /\ asm'[Slot(u)] = asm[Slot(u)] /\ obj'[Slot(u)] = obj[Slot(u)]
<1>1. UNCHANGED <<treeVars, cacheVars, taskVars, scratch>>
  BY DEF Builder, Begin, Collect, Produce, ProduceFails, Cleanup
<1>2. \A c \in Builds \ {b} : bpc'[c] = bpc[c] /\ why'[c] = why[c]
  BY DEF Builder, Begin, Collect, Produce, ProduceFails, Cleanup, StructInv, TypeOK
<1>3. CASE Cleanup(b)
  <2>1. \A u \in Tasks : Slot(u)[1] = b => pc[u] \in Ended
    BY <1>3, TaskFacts DEF Cleanup, StructInv, TasksEnded, Slot
  <2>2. \A u \in Tasks : pc[u] \notin Ended =>
          ll'[Slot(u)] = ll[Slot(u)] /\ asm'[Slot(u)] = asm[Slot(u)] /\ obj'[Slot(u)] = obj[Slot(u)]
    BY <1>3, <2>1, TaskFacts DEF Cleanup
  <2>3. QED
    BY <1>1, <1>2, <2>2
<1>4. CASE ~Cleanup(b)
  <2>1. UNCHANGED <<ll, asm, obj>>
    BY <1>4 DEF Builder, Begin, Collect, Produce, ProduceFails
  <2>2. QED
    BY <1>1, <1>2, <2>1
<1>5. QED
  BY <1>3, <1>4

LEMMA OutcomeBuilder ==
  ASSUME StructInv, LeftInv, OutcomeInv, NEW b \in Builds, Builder(b)
  PROVE  OutcomeInv'
<1>1. Settled' /\ CacheTells'
  BY BuilderFrame DEF OutcomeInv, Settled, CacheTells
<1>2. ASSUME NEW u \in Tasks PROVE TaskTells(u)'
  <2>1. TaskTells(u)
    BY DEF OutcomeInv
  <2>2. /\ pc[u] = "ll" => ll'[Slot(u)] = ll[Slot(u)]
        /\ pc[u] \in {"asm", "rewritten"} => asm'[Slot(u)] = asm[Slot(u)]
    BY BuilderFrame
  <2>3. QED
    BY <2>1, <2>2, BuilderFrame DEF TaskTells
<1>3. UNCHANGED pc
  BY BuilderFrame
<1>4. Failing(b)' = Failing(b)
  BY <1>3 DEF Failing
<1>5. FirstError(b)' = FirstError(b)
  BY <1>4 DEF FirstError
<1>6. BuildTells(b)'
  <2>1. BuildTells(b) /\ bpc \in [Builds -> BuildStates] /\ why \in [Builds -> Nat]
    BY DEF OutcomeInv, StructInv, TypeOK
  <2>2. CASE Collect(b)
    BY <1>3, <1>4, <1>5, <2>1, <2>2 DEF Collect, BuildTells
  <2>3. CASE Begin(b) \/ Produce(b) \/ ProduceFails(b) \/ Cleanup(b)
    <3>1. UNCHANGED why /\ bpc'[b] # "panicked"
      BY <2>1, <2>3 DEF Begin, Produce, ProduceFails, Cleanup
    <3>2. QED
      BY <1>3, <1>4, <1>5, <2>1, <3>1 DEF BuildTells
  <2>4. QED
    BY <2>2, <2>3 DEF Builder
<1>7. ASSUME NEW c \in Builds \ {b} PROVE BuildTells(c)'
  <2>1. BuildTells(c)
    BY DEF OutcomeInv
  <2>2. Failing(c)' = Failing(c)
    BY <1>3 DEF Failing
  <2>3. FirstError(c)' = FirstError(c)
    BY <2>2 DEF FirstError
  <2>4. bpc'[c] = bpc[c] /\ why'[c] = why[c]
    BY BuilderFrame
  <2>5. QED
    BY <1>3, <2>1, <2>2, <2>3, <2>4 DEF BuildTells
<1>8. QED
  BY <1>1, <1>2, <1>6, <1>7 DEF OutcomeInv

LEMMA OutcomeEnvironment ==
  ASSUME StructInv, OutcomeInv,
         \/ \E f \in Files : \E c \in Edits[f] : Edit(f, c)
         \/ \E b \in Builds : Crash(b)
         \/ Clear
         \/ UNCHANGED vars
  PROVE  OutcomeInv'
<1>1. ~(\E f \in Files : \E c \in Edits[f] : Edit(f, c))
  BY DEF Edit, OutcomeInv, Settled
<1>2. ~Clear
  BY ConstantsAssumption DEF Clear, ClearStart, ClearEntry, ClearDir, OutcomeInv, Settled
<1>3. CASE UNCHANGED vars
  <2>1. UNCHANGED <<disk, faults, cleaner, cache, cacheDir, pc, key, ir, ll, asm, bpc, why>>
    BY <1>3 DEF vars
  <2>2. Settled' /\ CacheTells' /\ \A t \in Tasks : TaskTells(t)'
    BY <2>1 DEF OutcomeInv, Settled, CacheTells, TaskTells
  <2>3. \A b \in Builds : Failing(b)' = Failing(b)
    BY <2>1 DEF Failing
  <2>4. \A b \in Builds : FirstError(b)' = FirstError(b)
    BY <2>3 DEF FirstError
  <2>5. \A b \in Builds : BuildTells(b)'
    BY <2>1, <2>3, <2>4 DEF OutcomeInv, BuildTells
  <2>6. QED
    BY <2>2, <2>5 DEF OutcomeInv
<1>4. CASE \E b \in Builds : Crash(b)
  <2>1. PICK b \in Builds : Crash(b)
    BY <1>4
  <2>2. UNCHANGED <<disk, cleaner, cache, cacheDir, key, ir, ll, asm, why>>
    BY <2>1 DEF Crash
  <2>3. \A u \in Tasks : pc'[u] \in {pc[u], "killed"} /\ (pc[u] \in Ended => pc'[u] = pc[u])
    BY <2>1 DEF Crash
  <2>4. Settled' /\ CacheTells'
    BY <2>1, <2>2 DEF Crash, OutcomeInv, Settled, CacheTells, StructInv, TypeOK
  <2>5. \A t \in Tasks : TaskTells(t)'
    BY <2>2, <2>3 DEF OutcomeInv, TaskTells
  <2>6. ASSUME NEW c \in Builds PROVE BuildTells(c)'
    <3>1. BuildTells(c)
      BY DEF OutcomeInv
    <3>2. bpc'[c] \in {bpc[c], "killed"}
      BY <2>1 DEF Crash, StructInv, TypeOK
    <3>3. bpc'[c] = "panicked" => \E u \in TasksOf(c) : pc'[u] = "panic"
      BY <2>3, <3>1, <3>2 DEF BuildTells, TasksOf
    <3>4. ASSUME why[c] # 0 PROVE \A u \in TasksOf(c) : pc'[u] = pc[u]
      BY <2>3, <3>1, <3>4 DEF BuildTells, TasksOf
    <3>5. why[c] # 0 => Failing(c)' = Failing(c)
      <4>1. ASSUME NEW i \in DOMAIN Config[c].sources PROVE <<c, i>> \in TasksOf(c)
        BY DEF TasksOf, Tasks
      <4>2. QED
        BY <3>4, <4>1 DEF Failing
    <3>6. why[c] # 0 => FirstError(c)' = FirstError(c)
      BY <3>5 DEF FirstError
    <3>7. QED
      BY <2>2, <3>1, <3>3, <3>4, <3>5, <3>6 DEF BuildTells
  <2>7. QED
    BY <2>4, <2>5, <2>6 DEF OutcomeInv
<1>5. QED
  BY <1>1, <1>2, <1>3, <1>4


LEMMA OutcomeInit == ASSUME TreeAtRest, Init PROVE OutcomeInv
<1>1. Settled
  BY DEF TreeAtRest, Init, Settled
<1>2. \A t \in Tasks : TaskTells(t)
  BY DEF Init, TaskTells
<1>3. CacheTells
  BY DEF Init, CacheTells
<1>4. \A b \in Builds : BuildTells(b)
  BY DEF Init, BuildTells
<1>5. QED
  BY <1>1, <1>2, <1>3, <1>4 DEF OutcomeInv

\* The error that is returned is the first one.
LEMMA FirstErrorFirst ==
  ASSUME NEW b \in Builds, Failing(b) # {}
  PROVE  \A i \in Failing(b) : FirstError(b) <= i
<1>1. Failing(b) \subseteq Nat
  BY ConstantsAssumption DEF Failing
<1>2. PICK i \in Failing(b) : \A j \in Failing(b) : ~(<<j, i>> \in OpToRel(<, Nat))
  BY <1>1, NatLessThanWellFounded, WFMin
<1>3. ASSUME NEW j \in Failing(b) PROVE i <= j
  <2>1. i \in Nat /\ j \in Nat
    BY <1>1
  <2>2. <<j, i>> \in Nat \X Nat /\ <<j, i>>[1] = j /\ <<j, i>>[2] = i
    BY <2>1
  <2>3. ~(j < i)
    BY <1>2, <2>2 DEF OpToRel
  <2>4. QED
    BY <2>1, <2>3
<1>4. QED
  BY <1>3 DEF FirstError

\* What the invariants say of the outcome of a build.
LEMMA OutcomeFollows ==
  ASSUME StructInv, LeftInv, OutcomeInv
  PROVE  OutcomeByInputs
<1> SUFFICES ASSUME NEW b \in Builds
             PROVE  LET panics == \E t \in TasksOf(b) : Panics(t, disk)
                    IN /\ bpc[b] = "panicked" => panics
                       /\ bpc[b] \in {"linking", "linked", "done"} => ~panics /\ \A t \in TasksOf(b) : ~Bad(t, disk)
                       /\ why[b] # 0 => /\ ~panics
                                        /\ Bad(<<b, why[b]>>, disk)
                                        /\ \A i \in 1..(why[b] - 1) : ~Bad(<<b, i>>, disk)
  BY DEF OutcomeByInputs
<1>1. disk = Initial /\ BuildTells(b) /\ \A t \in TasksOf(b) : TaskTells(t)
  BY DEF OutcomeInv, Settled, TasksOf
<1>2. \A t \in TasksOf(b) : pc[t] = "ok" => ~Bad(t, disk) /\ ~Panics(t, disk)
  BY <1>1 DEF TaskTells, Good
<1>3. \A t \in TasksOf(b) : pc[t] = "err" => Bad(t, disk) /\ ~Panics(t, disk)
  BY <1>1 DEF TaskTells, Panics
<1>4. bpc[b] = "panicked" => \E t \in TasksOf(b) : Panics(t, disk)
  BY <1>1 DEF BuildTells, TaskTells
<1>5. bpc[b] \in {"linking", "linked", "done"} => \A t \in TasksOf(b) : pc[t] = "ok"
  BY DEF LeftInv, AllOk, TasksOf
<1>6. ASSUME why[b] # 0
      PROVE  /\ ~(\E t \in TasksOf(b) : Panics(t, disk))
             /\ Bad(<<b, why[b]>>, disk)
             /\ \A i \in 1..(why[b] - 1) : ~Bad(<<b, i>>, disk)
  <2>1. Config[b].sources \in Seq(Sources)
    BY ConstantsAssumption
  <2>2. \A i \in DOMAIN Config[b].sources : <<b, i>> \in TasksOf(b)
    BY DEF TasksOf, Tasks
  <2>3. /\ \A t \in TasksOf(b) : pc[t] \in {"ok", "err"}
        /\ why[b] \in Failing(b) /\ why[b] \in Nat
        /\ \A i \in Failing(b) : why[b] <= i
    BY <1>1, <1>6, FirstErrorType, FirstErrorFirst DEF BuildTells
  <2>4. why[b] \in DOMAIN Config[b].sources /\ pc[<<b, why[b]>>] = "err"
    BY <2>3 DEF Failing
  <2>5. ASSUME NEW i \in 1..(why[b] - 1) PROVE ~Bad(<<b, i>>, disk)
    <3>1. i \in DOMAIN Config[b].sources /\ i < why[b]
      BY <2>1, <2>3, <2>4
    <3>2. i \notin Failing(b)
      BY <2>3, <3>1
    <3>3. pc[<<b, i>>] = "ok"
      BY <2>2, <2>3, <3>1, <3>2 DEF Failing
    <3>4. QED
      BY <1>2, <2>2, <3>1, <3>3
  <2>6. Bad(<<b, why[b]>>, disk)
    BY <1>3, <2>2, <2>4
  <2>7. QED
    BY <1>2, <1>3, <2>3, <2>5, <2>6
<1>7. QED
  BY <1>2, <1>4, <1>5, <1>6

\* OutcomeByInputs: over a source tree at rest, with the tools there and keys that tell
\* objects apart, what compile_all returns is a function of the inputs: a panic only if
\* an input calls for one, else the error of the first bad source, else success, in
\* whatever order workers and builds ran, whatever the cache held and whichever builds
\* were killed meanwhile.
THEOREM OutcomeIsOfInputs ==
  ASSUME DistinctStems, TreeAtRest, ToolsThere, KeysTell
  PROVE  Spec => []OutcomeByInputs
<1> DEFINE Inv == StructInv /\ LeftInv /\ WriterInv /\ OutcomeInv
<1>1. Init => Inv
  <2>1. Init => LeftInv
    BY DEF Init, LeftInv, ScratchLeft, AllOk, Removed, Tasks
  <2>2. Init => WriterInv
    BY DEF Init, WriterInv, TaskWhole
  <2>3. QED
    BY <2>1, <2>2, StructInit, OutcomeInit
<1>2. Inv /\ [Next]_vars => Inv'
  <2> SUFFICES ASSUME Inv, [Next]_vars PROVE Inv'
    OBVIOUS
  <2>1. StructInv'
    BY StructStep
  <2>2. CASE \E t \in Tasks : Task(t)
    BY <2>1, <2>2, LeftTask, WriterTask, OutcomeTask
  <2>3. CASE \E b \in Builds : Builder(b)
    BY <2>1, <2>3, LeftBuilder, WriterBuilder, OutcomeBuilder
  <2>4. CASE \/ \E f \in Files : \E c \in Edits[f] : Edit(f, c)
             \/ \E b \in Builds : Crash(b)
             \/ Clear
             \/ UNCHANGED vars
    BY <2>1, <2>4, LeftEnvironment, WriterEnvironment, OutcomeEnvironment
  <2>5. QED
    BY <2>2, <2>3, <2>4 DEF Next, Quiet
<1>3. Inv => OutcomeByInputs
  BY OutcomeFollows
<1>4. QED
  <2> HIDE DEF Inv
  <2>1. QED
    BY <1>1, <1>2, <1>3, PTL DEF Spec


-----------------------------------------------------------------------------
(* What is linked.  Two tasks with one key never work at the same time, so *)
(* a hit finds a whole entry, and every object is its own source's.        *)

\* A build has begun only if those of earlier turns have ended.
TurnsTaken ==
  \A b, c \in Builds : Turn[c] < Turn[b] /\ bpc[b] # "idle" => bpc[c] \in BuildEnded

\* The workers of a build that is not compiling rest.
Working == \A t \in Tasks : pc[t] \notin Ended \cup {"queued"} => bpc[t[1]] = "compiling"

\* A build that goes on has sources.
Begun == \A b \in Builds : bpc[b] \in {"compiling", "linking"} => Config[b].sources # <<>>

TurnInv == TurnsTaken /\ Working /\ Begun /\ faults.crash = 0

\* An entry is being stored, or is the object of every source that looks it up.
CacheWhole ==
  \A k \in DOMAIN cache :
    \/ \E u \in Tasks : pc[u] = "storing" /\ key[u] = k
    \/ \E u \in Tasks : Present(u) /\ k = MyKey(u) /\ cache[k] = Compiled(u, Initial)

\* What the files of a task hold at each place.
TaskOwns(t) ==
  /\ pinned[t] = Absent
  /\ pc[t] = "asm" => asm[Slot(t)] = Plain(t) /\ Config[t[1]].thunk
  /\ pc[t] = "rewritten" => asm[Slot(t)] = Compiled(t, Initial)
  /\ pc[t] = "emitting" => ir[t] = Compiled(t, Initial)
  /\ pc[t] \in {"mkdir", "store", "storing", "ok"} /\ bpc[t[1]] # "done"
       => obj[Slot(t)] = Compiled(t, Initial)

\* Every object is some source's.
ObjOwned == \A x \in Slots : obj[x] # Absent => \E t \in Tasks : Slot(t) = x

OwnInv ==
  /\ \A t \in Tasks : TaskOwns(t)
  /\ CacheWhole
  /\ ObjOwned

LEMMA TurnTask ==
  ASSUME StructInv, TurnInv, NEW t \in Tasks, Task(t)
  PROVE  TurnInv'
<1>1. UNCHANGED <<bpc, faults>>
  BY TaskFrame
<1>2. TurnsTaken' /\ Begun' /\ faults'.crash = 0
  BY <1>1 DEF TurnInv, TurnsTaken, Begun
<1>3. ASSUME NEW u \in Tasks, pc'[u] \notin Ended \cup {"queued"} PROVE bpc'[u[1]] = "compiling"
  <2>1. CASE u # t
    BY <1>1, <1>3, <2>1, TaskFrame DEF TurnInv, Working
  <2>2. CASE u = t /\ BuildKey(t)
    BY <1>1, <2>2 DEF BuildKey
  <2>3. CASE u = t /\ ~BuildKey(t)
    <3>1. pc[t] \notin Ended \cup {"queued"}
      BY <2>3 DEF Task, Lookup, RestoreOpen, RestoreCopy, ReadSource, FrontEnd, CreateLl,
                  WriteLl, LlcFails, LlcObj, LlcAsm, RewriteAsm, AssembleFails, Assemble,
                  Emitted, StoreMkdir, StoreOpen, StoreCopy
    <3>2. QED
      BY <1>1, <2>3, <3>1 DEF TurnInv, Working
  <2>4. QED
    BY <2>1, <2>2, <2>3
<1>4. QED
  BY <1>2, <1>3 DEF TurnInv, Working

LEMMA TurnBuilder ==
  ASSUME StructInv, TurnInv, NEW b \in Builds, Builder(b)
  PROVE  TurnInv'
<1>1. bpc \in [Builds -> BuildStates]
  BY DEF StructInv, TypeOK
<1>2. UNCHANGED <<pc, faults>> /\ \A c \in Builds \ {b} : bpc'[c] = bpc[c]
  BY BuilderFrame
<1>3. bpc[b] \notin BuildEnded
  BY DEF Builder, Begin, Collect, Produce, ProduceFails, Cleanup
<1>4. bpc[b] = "idle" => \A c \in Builds : Turn[c] < Turn[b] => bpc[c] \in BuildEnded
  BY DEF Builder, Begin, Collect, Produce, ProduceFails, Cleanup
<1>5. TurnsTaken'
  <2> SUFFICES ASSUME NEW d \in Builds, NEW c \in Builds, Turn[c] < Turn[d], bpc'[d] # "idle"
               PROVE  bpc'[c] \in BuildEnded
    BY DEF TurnsTaken
  <2>1. bpc[c] \in BuildEnded
    BY <1>2, <1>4 DEF TurnInv, TurnsTaken
  <2>2. QED
    BY <1>2, <1>3, <2>1
<1>6. Working'
  <2>1. bpc[b] = "compiling" => Active(b) = {}
    <3>1. CASE bpc[b] = "compiling"
      BY <3>1 DEF Builder, Begin, Collect, Produce, ProduceFails, Cleanup
    <3>2. QED
      BY <3>1
  <2>2. ASSUME NEW u \in Tasks, pc[u] \notin Ended \cup {"queued"} PROVE u[1] # b
    <3>1. bpc[u[1]] = "compiling"
      BY <2>2 DEF TurnInv, Working
    <3>2. u[1] = b => u \in Active(b)
      BY <2>2 DEF Active, TasksOf
    <3>3. QED
      BY <2>1, <3>1, <3>2
  <2>3. QED
    BY <1>2, <2>2, TaskFacts DEF TurnInv, Working
<1>7. Begun'
  <2>1. bpc'[b] \in {"compiling", "linking"} => Config[b].sources # <<>>
    <3>1. CASE Begin(b)
      BY <1>1, <3>1 DEF Begin
    <3>2. CASE ~Begin(b)
      <4>1. bpc'[b] \in {"compiling", "linking"} => bpc[b] = "compiling"
        BY <1>1, <3>2 DEF Builder, Collect, Produce, ProduceFails, Cleanup
      <4>2. QED
        BY <4>1 DEF TurnInv, Begun
    <3>3. QED
      BY <3>1, <3>2
  <2>2. QED
    BY <1>2, <2>1 DEF TurnInv, Begun
<1>8. QED
  BY <1>2, <1>5, <1>6, <1>7 DEF TurnInv

\* Two tasks at work with one key are one.
LEMMA OneWorker ==
  ASSUME SameKeyApart, OutcomeInv, TurnInv, NEW t \in Tasks, NEW u \in Tasks,
         pc[t] \notin Ended \cup {"queued"}, pc[u] \notin Ended \cup {"queued"}, key[t] = key[u]
  PROVE  t = u
<1>1. Present(t) /\ Present(u) /\ MyKey(t) = MyKey(u)
  BY DEF OutcomeInv, TaskTells
<1>2. bpc[t[1]] = "compiling" /\ bpc[u[1]] = "compiling"
  BY DEF TurnInv, Working
<1>3. ~(Turn[t[1]] < Turn[u[1]]) /\ ~(Turn[u[1]] < Turn[t[1]])
  BY <1>2, TaskFacts DEF TurnInv, TurnsTaken
<1>4. Turn[t[1]] \in Nat /\ Turn[u[1]] \in Nat
  BY TaskFacts, ConstantsAssumption
<1>5. Turn[t[1]] = Turn[u[1]]
  BY <1>3, <1>4
<1>6. QED
  BY <1>1, <1>5 DEF SameKeyApart

\* What a hit finds is the object of the source.
LEMMA HitIsOwn ==
  ASSUME KeysTell, SameKeyApart, OutcomeInv, TurnInv, OwnInv,
         NEW t \in Tasks, pc[t] = "restoring"
  PROVE  cache[key[t]] = Compiled(t, Initial)
<1>1. key[t] \in DOMAIN cache /\ Present(t) /\ key[t] = MyKey(t)
  BY DEF OutcomeInv, TaskTells
<1>2. ~(\E u \in Tasks : pc[u] = "storing" /\ key[u] = key[t])
  BY OneWorker
<1>3. PICK u \in Tasks : Present(u) /\ key[t] = MyKey(u) /\ cache[key[t]] = Compiled(u, Initial)
  BY <1>1, <1>2 DEF OwnInv, CacheWhole
<1>4. QED
  BY <1>1, <1>3 DEF KeysTell


\* Rewriting the returns of the IR's assembly makes what a build with return thunks should.
LEMMA RewrittenPlain ==
  ASSUME NEW t \in Tasks, Config[t[1]].thunk, NEW v, v = Plain(t), NEW w, w = [v EXCEPT !.rethunk = TRUE]
  PROVE  w = Compiled(t, Initial)
<1>1. Config[t[1]].thunk = TRUE
  BY TaskFacts, ConstantsAssumption
<1>2. QED
  BY <1>1 DEF Plain, Compiled

\* The IR is what a build without return thunks should make.
LEMMA PlainCompiled ==
  ASSUME NEW t \in Tasks, ~Config[t[1]].thunk
  PROVE  Plain(t) = Compiled(t, Initial)
<1>1. Config[t[1]].thunk = FALSE
  BY TaskFacts, ConstantsAssumption
<1>2. QED
  BY <1>1 DEF Plain, Compiled

LEMMA OwnSelf ==
  ASSUME KeysTell, SameKeyApart, StructInv, WriterInv, OutcomeInv, TurnInv, OwnInv,
         NEW t \in Tasks, Task(t)
  PROVE  TaskOwns(t)'
<1> USE TaskFacts, Sentinels DEF StructInv, TypeOK
<1>1. TaskOwns(t) /\ TaskTells(t) /\ TaskWhole(t)
  BY DEF OwnInv, OutcomeInv, WriterInv
<1>2. pc[t] # "queued" => bpc[t[1]] = "compiling"
  BY TaskFrame DEF TurnInv, Working
<1>3. CASE BuildKey(t) \/ Lookup(t) \/ RestoreOpen(t) \/ ReadSource(t)
  BY <1>3, <1>1 DEF BuildKey, Lookup, RestoreOpen, ReadSource, TaskOwns
<1>4. CASE RestoreCopy(t)
  <2>1. cache[key[t]] = Compiled(t, Initial)
    BY <1>4, HitIsOwn DEF RestoreCopy
  <2>2. pc'[t] = "ok" /\ pinned'[t] = Absent /\ obj'[Slot(t)] = cache[key[t]]
    BY <1>4, <1>1 DEF RestoreCopy, TaskOwns
  <2>3. QED
    BY <2>1, <2>2 DEF TaskOwns
<1>5. CASE FrontEnd(t)
  <2>1. pc'[t] \in {"err", "panic", "compiled"} /\ pinned'[t] = pinned[t]
    BY <1>5 DEF FrontEnd, Outcome
  <2>2. QED
    BY <2>1, <1>1 DEF TaskOwns
<1>6. CASE CreateLl(t) \/ WriteLl(t) \/ LlcFails(t)
  BY <1>6, <1>1 DEF CreateLl, WriteLl, LlcFails, TaskOwns
<1>7. CASE LlcObj(t)
  <2>1. ir'[t] = Plain(t) /\ pc'[t] = "emitting" /\ pinned'[t] = Absent
    BY <1>7, <1>1 DEF LlcObj, TaskTells, TaskOwns
  <2>2. Plain(t) = Compiled(t, Initial)
    BY <1>7, PlainCompiled DEF LlcObj
  <2>3. QED
    BY <2>1, <2>2 DEF TaskOwns
<1>8. CASE LlcAsm(t)
  <2>1. asm'[Slot(t)] = Plain(t) /\ pc'[t] = "asm" /\ pinned'[t] = Absent /\ Config[t[1]].thunk
    BY <1>8, <1>1 DEF LlcAsm, TaskTells, TaskOwns
  <2>2. QED
    BY <2>1 DEF TaskOwns
<1>9. CASE RewriteAsm(t)
  <2>1. /\ asm[Slot(t)] = Plain(t) /\ Config[t[1]].thunk
        /\ pc'[t] \in {"rewritten", "err"} /\ pinned'[t] = Absent
    BY <1>9, <1>1 DEF RewriteAsm, TaskOwns
  <2>2. Whole(asm[Slot(t)])
    BY <1>9, <1>1 DEF RewriteAsm, TaskWhole
  <2>3. asm'[Slot(t)] = [asm[Slot(t)] EXCEPT !.rethunk = TRUE]
    BY <1>9, <2>2 DEF RewriteAsm
  <2>4. asm'[Slot(t)] = Compiled(t, Initial)
    BY <2>1, <2>3, RewrittenPlain
  <2>5. QED
    BY <2>1, <2>4 DEF TaskOwns
<1>10. CASE AssembleFails(t)
  BY <1>10, <1>1 DEF AssembleFails, TaskOwns
<1>11. CASE Assemble(t)
  BY <1>11, <1>1 DEF Assemble, TaskOwns
<1>12. CASE Emitted(t)
  BY <1>12, <1>1 DEF Emitted, TaskOwns
<1>13. CASE StoreMkdir(t) \/ StoreOpen(t) \/ StoreCopy(t)
  <2>1. UNCHANGED <<obj, bpc>> /\ pinned'[t] = Absent
    BY <1>13, <1>1, TaskFrame DEF StoreMkdir, StoreOpen, StoreCopy, TaskOwns
  <2>2. pc[t] \in {"mkdir", "store", "storing"} /\ pc'[t] \in {"store", "storing", "err", "ok"}
    BY <1>13 DEF StoreMkdir, StoreOpen, StoreCopy
  <2>3. QED
    BY <1>1, <1>2, <2>1, <2>2 DEF TaskOwns
<1>14. QED
  BY <1>3, <1>4, <1>5, <1>6, <1>7, <1>8, <1>9, <1>10, <1>11, <1>12, <1>13 DEF Task

LEMMA OwnTask ==
  ASSUME DistinctStems, KeysTell, SameKeyApart, StructInv, WriterInv, OutcomeInv, TurnInv,
         OwnInv, NEW t \in Tasks, Task(t)
  PROVE  OwnInv'
<1>1. ASSUME NEW u \in Tasks PROVE TaskOwns(u)'
  <2>1. CASE u = t
    BY <2>1, OwnSelf
  <2>2. CASE u # t
    <3>1. Slot(u) \in Slots \ {Slot(t)}
      BY <2>2, TaskFacts DEF DistinctStems
    <3>2. /\ pc'[u] = pc[u] /\ ir'[u] = ir[u] /\ pinned'[u] = pinned[u] /\ UNCHANGED bpc
          /\ asm'[Slot(u)] = asm[Slot(u)] /\ obj'[Slot(u)] = obj[Slot(u)]
      BY <2>2, <3>1, TaskFrame
    <3>3. TaskOwns(u)
      BY DEF OwnInv
    <3>4. QED
      BY <3>2, <3>3 DEF TaskOwns
  <2>3. QED
    BY <2>1, <2>2
<1>2. ASSUME NEW k \in DOMAIN cache'
      PROVE  \/ \E u \in Tasks : pc'[u] = "storing" /\ key'[u] = k
             \/ \E u \in Tasks : Present(u) /\ k = MyKey(u) /\ cache'[k] = Compiled(u, Initial)
  <2>1. CASE k = key[t] /\ StoreOpen(t)
    <3>1. cacheDir
      BY <2>1 DEF StoreOpen, OutcomeInv, TaskTells
    <3>2. pc'[t] = "storing" /\ key'[t] = k
      BY <2>1, <3>1 DEF StoreOpen, StructInv, TypeOK
    <3>3. QED
      BY <3>2
  <2>2. CASE k = key[t] /\ StoreCopy(t)
    <3>1. pc[t] = "storing" /\ bpc[t[1]] = "compiling" /\ pinned[t] = Absent /\ TaskOwns(t)
      BY <2>2 DEF StoreCopy, TurnInv, Working, OwnInv, TaskOwns
    <3>2. cache' = [cache EXCEPT ![k] = obj[Slot(t)]] /\ k \in DOMAIN cache
      BY <1>2, <2>2, <3>1 DEF StoreCopy
    <3>3. cache'[k] = Compiled(t, Initial)
      BY <3>1, <3>2 DEF TaskOwns
    <3>4. Present(t) /\ k = MyKey(t)
      BY <2>2, <3>1 DEF OutcomeInv, TaskTells
    <3>5. QED
      BY <3>3, <3>4
  <2>3. CASE /\ k \in DOMAIN cache /\ cache'[k] = cache[k]
             /\ ~(pc[t] = "storing" /\ key[t] = k)
    <3>1. CASE \E u \in Tasks : pc[u] = "storing" /\ key[u] = k
      <4>1. PICK u \in Tasks : pc[u] = "storing" /\ key[u] = k
        BY <3>1
      <4>2. u # t
        BY <2>3, <4>1
      <4>3. QED
        BY <4>1, <4>2, TaskFrame
    <3>2. CASE ~\E u \in Tasks : pc[u] = "storing" /\ key[u] = k
      BY <2>3, <3>2 DEF OwnInv, CacheWhole
    <3>3. QED
      BY <3>1, <3>2
  <2>4. \/ k = key[t] /\ (StoreOpen(t) \/ StoreCopy(t))
        \/ /\ k \in DOMAIN cache /\ cache'[k] = cache[k]
           /\ ~(pc[t] = "storing" /\ key[t] = k)
    <3>1. CASE StoreOpen(t)
      BY <1>2, <3>1 DEF StoreOpen
    <3>2. CASE StoreCopy(t)
      BY <1>2, <3>2 DEF StoreCopy
    <3>3. CASE UNCHANGED cache /\ pc[t] # "storing"
      BY <1>2, <3>3
    <3>4. StoreOpen(t) \/ StoreCopy(t) \/ (UNCHANGED cache /\ pc[t] # "storing")
      BY DEF Task, BuildKey, Lookup, RestoreOpen, RestoreCopy, ReadSource, FrontEnd, CreateLl,
             WriteLl, LlcFails, LlcObj, LlcAsm, RewriteAsm, AssembleFails, Assemble, Emitted,
             StoreMkdir
    <3>5. QED
      BY <3>1, <3>2, <3>3, <3>4
  <2>5. QED
    BY <2>1, <2>2, <2>3, <2>4
<1>3. ObjOwned'
  <2>1. \A x \in Slots : x # Slot(t) => obj'[x] = obj[x]
    BY TaskFrame
  <2>2. QED
    BY <2>1 DEF OwnInv, ObjOwned
<1>4. QED
  BY <1>1, <1>2, <1>3 DEF OwnInv, CacheWhole

LEMMA OwnBuilder ==
  ASSUME StructInv, TurnInv, OwnInv, NEW b \in Builds, Builder(b)
  PROVE  OwnInv'
<1>1. UNCHANGED <<cache, pinned, pc, key, ir>> /\ \A c \in Builds \ {b} : bpc'[c] = bpc[c]
  BY BuilderFrame
<1>2. CacheWhole'
  BY <1>1 DEF OwnInv, CacheWhole
<1>3. bpc[b] # "done"
  BY DEF Builder, Begin, Collect, Produce, ProduceFails, Cleanup
<1>4. \A x \in Slots : \/ obj'[x] = obj[x]
                       \/ obj'[x] = Absent /\ x[1] = b /\ bpc'[b] = "done"
  <2>1. CASE Cleanup(b)
    BY <2>1 DEF Cleanup, StructInv, TypeOK
  <2>2. CASE ~Cleanup(b)
    BY <2>2 DEF Builder, Begin, Collect, Produce, ProduceFails
  <2>3. QED
    BY <2>1, <2>2
<1>5. ObjOwned'
  BY <1>4 DEF OwnInv, ObjOwned
<1>6. ASSUME NEW u \in Tasks PROVE TaskOwns(u)'
  <2>1. TaskOwns(u) /\ Slot(u)[1] = u[1] /\ Slot(u) \in Slots /\ u[1] \in Builds
    BY TaskFacts DEF OwnInv, Slot
  <2>2. pc[u] \in {"asm", "rewritten"} => asm'[Slot(u)] = asm[Slot(u)]
    BY BuilderFrame
  <2>3. bpc'[u[1]] # "done" => bpc[u[1]] # "done" /\ obj'[Slot(u)] = obj[Slot(u)]
    BY <1>1, <1>3, <1>4, <2>1
  <2>4. QED
    BY <1>1, <2>1, <2>2, <2>3 DEF TaskOwns
<1>7. QED
  BY <1>2, <1>5, <1>6 DEF OwnInv


\* The inductive invariant of what is linked and promised.
PromiseInv == StructInv /\ LeftInv /\ WriterInv /\ OutcomeInv /\ TurnInv /\ OwnInv

LEMMA PromiseInit == ASSUME TreeAtRest, NoCrashes, Init PROVE PromiseInv
<1>1. StructInv /\ OutcomeInv
  BY StructInit, OutcomeInit
<1>2. LeftInv
  BY DEF Init, LeftInv, ScratchLeft, AllOk, Removed, Tasks
<1>3. WriterInv
  BY DEF Init, WriterInv, TaskWhole
<1>4. TurnInv
  BY DEF Init, NoCrashes, TurnInv, TurnsTaken, Working, Begun
<1>5. OwnInv
  BY DEF Init, OwnInv, TaskOwns, CacheWhole, ObjOwned
<1>6. QED
  BY <1>1, <1>2, <1>3, <1>4, <1>5 DEF PromiseInv

\* Nobody but the tasks and the builders does anything.
LEMMA OnlyBuilds ==
  ASSUME PromiseInv, [Next]_vars
  PROVE  \/ \E t \in Tasks : Task(t)
         \/ \E b \in Builds : Builder(b)
         \/ UNCHANGED vars
<1>1. ~(\E f \in Files : \E c \in Edits[f] : Edit(f, c))
  BY DEF Edit, PromiseInv, OutcomeInv, Settled
<1>2. ~Clear
  BY ConstantsAssumption DEF Clear, ClearStart, ClearEntry, ClearDir, PromiseInv, OutcomeInv, Settled
<1>3. ~(\E b \in Builds : Crash(b))
  BY DEF Crash, PromiseInv, TurnInv
<1>4. QED
  BY <1>1, <1>2, <1>3 DEF Next, Quiet

LEMMA PromiseStep ==
  ASSUME DistinctStems, ToolsThere, KeysTell, SameKeyApart, PromiseInv, [Next]_vars
  PROVE  PromiseInv'
<1> USE DEF PromiseInv
<1>1. StructInv'
  BY StructStep
<1>2. CASE \E t \in Tasks : Task(t)
  BY <1>1, <1>2, LeftTask, WriterTask, OutcomeTask, TurnTask, OwnTask
<1>3. CASE \E b \in Builds : Builder(b)
  BY <1>1, <1>3, LeftBuilder, WriterBuilder, OutcomeBuilder, TurnBuilder, OwnBuilder
<1>4. CASE UNCHANGED vars
  <2>1. LeftInv' /\ WriterInv' /\ OutcomeInv'
    BY <1>4, LeftEnvironment, WriterEnvironment, OutcomeEnvironment
  <2>2. UNCHANGED <<faults, bpc, pc, key, ir, pinned, cache, asm, obj>>
    BY <1>4 DEF vars
  <2>3. TurnInv'
    BY <2>2 DEF TurnInv, TurnsTaken, Working, Begun
  <2>4. OwnInv'
    BY <2>2 DEF OwnInv, TaskOwns, CacheWhole, ObjOwned
  <2>5. QED
    BY <1>1, <2>1, <2>3, <2>4
<1>5. QED
  BY <1>2, <1>3, <1>4, OnlyBuilds

\* A build that links finds the object of each of its sources.
LEMMA LinkedIsOwn ==
  ASSUME PromiseInv, NEW b \in Builds, bpc[b] \in {"linking", "linked"}, NEW t \in TasksOf(b)
  PROVE  pc[t] = "ok" /\ obj[Slot(t)] = Compiled(t, Initial)
<1>1. t \in Tasks /\ t[1] = b
  BY DEF TasksOf
<1>2. pc[t] = "ok"
  BY <1>1 DEF PromiseInv, LeftInv, AllOk
<1>3. QED
  BY <1>1, <1>2 DEF PromiseInv, OwnInv, TaskOwns

\* OwnObjects: when builds overlap only if their sources differ in text or flags, what a
\* build hands to the archiver or the linker is, for each source, the object of that source
\* with that build's flags, whether a worker of this build made it, or restore_cached_object
\* copied what another build had stored, and however the workers of all builds interleave.
THEOREM LinksOwnObjects ==
  ASSUME DistinctStems, TreeAtRest, NoCrashes, ToolsThere, KeysTell, SameKeyApart
  PROVE  Spec => []OwnObjects
<1>1. Init => PromiseInv
  BY PromiseInit
<1>2. PromiseInv /\ [Next]_vars => PromiseInv'
  BY PromiseStep
<1>3. PromiseInv => OwnObjects
  BY LinkedIsOwn DEF PromiseInv, OutcomeInv, Settled, OwnObjects
<1>4. QED
  BY <1>1, <1>2, <1>3, PTL DEF Spec

-----------------------------------------------------------------------------
(* The promise.  A build is seen to start, to fail or to succeed; what     *)
(* workers, files and cache do besides is not seen.                        *)

\* The place of a builder in the eyes of its caller.
Seen(place) ==
  CASE place = "idle" -> "idle"
    [] place \in {"compiling", "linking"} -> "running"
    [] place \in {"linked", "done"} -> "done"
    [] OTHER -> "failed"

LEMMA SeenCases ==
  /\ Seen("idle") = "idle"
  /\ Seen("compiling") = "running" /\ Seen("linking") = "running"
  /\ Seen("linked") = "done" /\ Seen("done") = "done"
  /\ Seen("failed") = "failed" /\ Seen("panicked") = "failed"
BY Zenon DEF Seen

\* A step of one builder moves what is seen of its build.
LEMMA SeenMoves ==
  ASSUME PromiseInv, NEW b \in Builds, NEW from, bpc[b] = from, NEW to, bpc' = [bpc EXCEPT ![b] = to]
  PROVE  Promise!Move(b, Seen(from), Seen(to))
<1>1. bpc \in [Builds -> BuildStates]
  BY DEF PromiseInv, StructInv, TypeOK
<1>2. Status = [c \in Builds |-> Seen(bpc[c])]
  BY Zenon DEF Status, Seen
<1>3. Status' = [c \in Builds |-> Seen(bpc'[c])]
  BY Zenon DEF Status, Seen
<1>4. Status' = [Status EXCEPT ![b] = Seen(to)]
  BY <1>1, <1>2, <1>3
<1>5. Status[b] = Seen(from)
  BY <1>2
<1>6. QED
  BY <1>4, <1>5 DEF Promise!Move

\* A move to the same place is not seen.
LEMMA MovesNowhere ==
  ASSUME NEW b \in Builds, NEW at, Promise!Move(b, at, at)
  PROVE  Status' = Status
<1>1. Status = [c \in Builds |-> Status[c]]
  BY DEF Status
<1>2. Status[b] = at /\ Status' = [Status EXCEPT ![b] = at]
  BY DEF Promise!Move
<1>3. QED
  BY <1>1, <1>2

\* The image of a build holds the object each of its sources should become.
LEMMA ImageOfTask ==
  ASSUME DistinctStems, NEW b \in Builds, NEW st \in Stems, NEW t \in TasksOf(b), Slot(t) = <<b, st>>
  PROVE  Image[b][st] = Compiled(t, Initial)
<1>1. \A u \in TasksOf(b) : Slot(u) = <<b, st>> => u = t
  BY DEF DistinctStems, TasksOf
<1>2. (CHOOSE u \in TasksOf(b) : Slot(u) = <<b, st>>) = t
  BY <1>1
<1>3. QED
  BY <1>2 DEF Image

LEMMA ImageElsewhere ==
  ASSUME NEW b \in Builds, NEW st \in Stems, ~\E t \in TasksOf(b) : Slot(t) = <<b, st>>
  PROVE  Image[b][st] = Absent
BY DEF Image

\* What a build links is its image.
LEMMA RowIsImage ==
  ASSUME DistinctStems, PromiseInv, NEW b \in Builds, bpc[b] = "linking"
  PROVE  Row(b) = [st \in Stems |-> Image[b][st]]
<1>1. ASSUME NEW st \in Stems PROVE obj[<<b, st>>] = Image[b][st]
  <2>1. CASE \E t \in TasksOf(b) : Slot(t) = <<b, st>>
    <3>1. PICK t \in TasksOf(b) : Slot(t) = <<b, st>>
      BY <2>1
    <3>2. obj[<<b, st>>] = Compiled(t, Initial)
      BY <3>1, LinkedIsOwn
    <3>3. QED
      BY <3>1, <3>2, ImageOfTask
  <2>2. CASE ~\E t \in TasksOf(b) : Slot(t) = <<b, st>>
    <3>1. ASSUME NEW t \in Tasks, Slot(t) = <<b, st>> PROVE FALSE
      <4>1. t[1] = b
        BY <3>1 DEF Slot
      <4>2. QED
        BY <2>2, <3>1, <4>1 DEF TasksOf
    <3>2. <<b, st>> \in Slots
      BY DEF Slots
    <3>3. obj[<<b, st>>] = Absent
      BY <3>1, <3>2 DEF PromiseInv, OwnInv, ObjOwned
    <3>4. QED
      BY <2>2, <3>3, ImageElsewhere
  <2>3. QED
    BY <2>1, <2>2
<1>2. QED
  BY <1>1 DEF Row

\* The output a build makes, by its type.
LEMMA OutputCases ==
  ASSUME NEW b \in Builds
  PROVE  /\ Config[b].output_type = "StaticLib" =>
              OutputOf(b) = [st \in Stems |-> IF Row(b)[st] = Absent
                                                THEN out[Config[b].output][st] ELSE Row(b)[st]]
         /\ Config[b].output_type # "StaticLib" => OutputOf(b) = Row(b)
BY Zenon DEF OutputOf

\* Which builds have something to link, by the type of the output.
LEMMA ProducibleCases ==
  ASSUME NEW b \in Builds
  PROVE  /\ Config[b].output_type = "Object" => (CanProduce(b) <=> Len(Config[b].sources) = 1)
         /\ Config[b].output_type = "StaticLib" => (CanProduce(b) <=> "ar" \in Installed)
BY Zenon DEF CanProduce

\* A build with a source that fails has a reason to fail.
LEMMA ReasonToFail ==
  ASSUME NEW b \in Builds, NEW t \in TasksOf(b), Bad(t, Initial) \/ Panics(t, Initial)
  PROVE  b \in MayFail
BY DEF MayFail, Succeeding

\* Init implies the abstract Init.
LEMMA PromisedInit == Init => Promise!Init
<1> SUFFICES ASSUME Init PROVE Promise!Init
  OBVIOUS
<1>1. Status = [b \in Builds |-> Seen(bpc[b])]
  BY Zenon DEF Status, Seen
<1>2. Status = [b \in Builds |-> "idle"]
  BY <1>1, SeenCases DEF Init
<1>3. QED
  BY <1>2 DEF Init, Promise!Init

\* A failure of a builder is a promised failure.
LEMMA PromisedFail ==
  ASSUME PromiseInv, NEW b \in Builds, b \in MayFail, NEW to \in {"failed", "panicked"},
         bpc[b] \in {"idle", "compiling", "linking"}, bpc' = [bpc EXCEPT ![b] = to], UNCHANGED out
  PROVE  Promise!Fail(b)
<1>1. Promise!Move(b, Seen(bpc[b]), Seen(to))
  BY SeenMoves
<1>2. Seen(bpc[b]) \in {"idle", "running"} /\ Seen(to) = "failed"
  BY SeenCases
<1>3. Promise!Move(b, "idle", "failed") \/ Promise!Move(b, "running", "failed")
  BY <1>1, <1>2
<1>4. QED
  BY <1>3 DEF Promise!Fail

\* Starting to compile is a promised start.
LEMMA PromisedBegin ==
  ASSUME PromiseInv, NEW b \in Builds, Begin(b)
  PROVE  Promise!Start(b) \/ Promise!Fail(b)
<1>1. CASE Config[b].sources = <<>> \/ \E t \in TasksOf(b) : disk[Source(t)] = Absent
  <2>1. CASE Config[b].sources = <<>>
    <3>1. b \in MayFail
      BY <2>1 DEF MayFail, Succeeding
    <3>2. QED
      BY <1>1, <3>1, PromisedFail DEF Begin
  <2>2. CASE \E t \in TasksOf(b) : disk[Source(t)] = Absent
    <3>1. PICK t \in TasksOf(b) : disk[Source(t)] = Absent
      BY <2>2
    <3>2. Bad(t, Initial)
      BY <3>1 DEF Bad, PromiseInv, OutcomeInv, Settled
    <3>3. QED
      BY <1>1, <3>2, ReasonToFail, PromisedFail DEF Begin
  <2>3. QED
    BY <1>1, <2>1, <2>2
<1>2. CASE ~(Config[b].sources = <<>> \/ \E t \in TasksOf(b) : disk[Source(t)] = Absent)
  <2>1. bpc[b] = "idle" /\ bpc' = [bpc EXCEPT ![b] = "compiling"] /\ UNCHANGED out
    BY <1>2 DEF Begin
  <2>2. Promise!Move(b, Seen("idle"), Seen("compiling"))
    BY <2>1, SeenMoves
  <2>3. Promise!Move(b, "idle", "running")
    BY <2>2, SeenCases
  <2>4. QED
    BY <2>1, <2>3 DEF Promise!Start
<1>3. QED
  BY <1>1, <1>2

\* The end of compile_all is a promised failure, or not seen.
LEMMA PromisedCollect ==
  ASSUME PromiseInv, NEW b \in Builds, Collect(b)
  PROVE  Promise!Fail(b) \/ UNCHANGED <<Status, out>>
<1>1. bpc[b] = "compiling" /\ UNCHANGED <<pc, out>>
  BY DEF Collect
<1>2. \A t \in TasksOf(b) : TaskTells(t)
  BY DEF PromiseInv, OutcomeInv, TasksOf
<1>3. CASE (\E t \in TasksOf(b) : pc[t] = "panic") /\ bpc' = [bpc EXCEPT ![b] = "panicked"]
  <2>1. PICK t \in TasksOf(b) : pc[t] = "panic"
    BY <1>3
  <2>2. Panics(t, Initial)
    BY <1>2, <2>1 DEF TaskTells
  <2>3. QED
    BY <1>1, <1>3, <2>2, ReasonToFail, PromisedFail
<1>4. CASE Failing(b) # {} /\ bpc' = [bpc EXCEPT ![b] = "failed"]
  <2>1. PICK i \in Failing(b) : TRUE
    BY <1>4
  <2>2. <<b, i>> \in TasksOf(b) /\ pc[<<b, i>>] = "err"
    BY <2>1 DEF Failing, TasksOf, Tasks
  <2>3. Bad(<<b, i>>, Initial)
    BY <1>2, <2>2 DEF TaskTells
  <2>4. b \in MayFail
    BY <2>2, <2>3, ReasonToFail
  <2>5. QED
    BY <1>1, <1>4, <2>4, PromisedFail
<1>5. CASE bpc' = [bpc EXCEPT ![b] = "linking"]
  <2>1. Promise!Move(b, Seen("compiling"), Seen("linking"))
    BY <1>1, <1>5, SeenMoves
  <2>2. Promise!Move(b, "running", "running")
    BY <2>1, SeenCases
  <2>3. Status' = Status
    BY <2>2, MovesNowhere
  <2>4. QED
    BY <1>1, <2>3
<1>6. QED
  BY <1>3, <1>4, <1>5 DEF Collect

\* What Produce writes is what is promised of the build.
LEMMA PromisedProduce ==
  ASSUME DistinctStems, PromiseInv, NEW b \in Builds, Produce(b)
  PROVE  Promise!Succeed(b)
<1>1. bpc[b] = "linking" /\ bpc' = [bpc EXCEPT ![b] = "linked"]
  BY DEF Produce
<1>2. Promise!Move(b, "running", "done")
  <2>1. Promise!Move(b, Seen("linking"), Seen("linked"))
    BY <1>1, SeenMoves
  <2>2. QED
    BY <2>1, SeenCases
<1>3. b \in Succeeding
  <2>1. \A t \in TasksOf(b) : ~Bad(t, Initial) /\ ~Panics(t, Initial)
    <3> SUFFICES ASSUME NEW t \in TasksOf(b) PROVE ~Bad(t, Initial) /\ ~Panics(t, Initial)
      OBVIOUS
    <3>1. pc[t] = "ok" /\ t \in Tasks
      BY <1>1, LinkedIsOwn DEF TasksOf
    <3>2. QED
      BY <3>1 DEF PromiseInv, OutcomeInv, TaskTells, Good
  <2>2. Config[b].sources # <<>>
    BY <1>1 DEF PromiseInv, TurnInv, Begun
  <2>3. Config[b].output_type = "Object" => Len(Config[b].sources) = 1
    BY ProducibleCases DEF Produce
  <2>4. QED
    BY <2>1, <2>2, <2>3 DEF Succeeding
<1>4. out' = [out EXCEPT ![Target[b]] =
               [m \in DOMAIN Image[b] |->
                  IF Archive[b] /\ Image[b][m] = Absent THEN @[m] ELSE Image[b][m]]]
  <2>1. Row(b) = [st \in Stems |-> Image[b][st]]
    BY <1>1, RowIsImage
  <2>2. /\ DOMAIN Image[b] = Stems
        /\ Target[b] = Config[b].output
        /\ Archive[b] = (Config[b].output_type = "StaticLib")
    BY DEF Image, Target, Archive
  <2>3. OutputOf(b) = [m \in DOMAIN Image[b] |->
                         IF Archive[b] /\ Image[b][m] = Absent
                           THEN out[Target[b]][m] ELSE Image[b][m]]
    <3>1. CASE Config[b].output_type = "StaticLib"
      <4>1. OutputOf(b) = [st \in Stems |-> IF Row(b)[st] = Absent
                                              THEN out[Config[b].output][st] ELSE Row(b)[st]]
        BY <3>1, OutputCases
      <4>2. QED
        BY <2>1, <2>2, <3>1, <4>1
    <3>2. CASE Config[b].output_type # "StaticLib"
      BY <2>1, <2>2, <3>2, OutputCases
    <3>3. QED
      BY <3>1, <3>2
  <2>4. out' = [out EXCEPT ![Target[b]] = OutputOf(b)]
    BY <2>2 DEF Produce
  <2>5. QED
    BY <2>3, <2>4
<1>5. QED
  BY <1>2, <1>3, <1>4 DEF Promise!Succeed

\* With the archiver there, only a refusal that the caller must expect stops a build that links.
LEMMA PromisedRefusal ==
  ASSUME Installed = Tools, PromiseInv, NEW b \in Builds, ProduceFails(b)
  PROVE  Promise!Fail(b)
<1>1. Config[b].output_type \in OutputTypes
  BY ConstantsAssumption
<1>2. CASE Config[b].output_type \in {"SharedLib", "Executable"}
  <2>1. b \in MayFail
    BY <1>2 DEF MayFail
  <2>2. QED
    BY <2>1, PromisedFail DEF ProduceFails
<1>3. CASE Config[b].output_type = "Object"
  <2>1. Len(Config[b].sources) # 1
    BY <1>3, ProducibleCases DEF ProduceFails
  <2>2. b \in MayFail
    BY <1>3, <2>1 DEF MayFail, Succeeding
  <2>3. QED
    BY <2>2, PromisedFail DEF ProduceFails
<1>4. CASE Config[b].output_type = "StaticLib"
  BY <1>4, ProducibleCases DEF ProduceFails, Tools
<1>5. QED
  BY <1>1, <1>2, <1>3, <1>4 DEF OutputTypes

\* Every step is a promised one or is not seen.
LEMMA PromisedStep ==
  ASSUME DistinctStems, Installed = Tools, PromiseInv, [Next]_vars
  PROVE  [Promise!Next]_<<Status, out>>
<1>1. CASE UNCHANGED <<bpc, out>>
  BY <1>1 DEF Status
<1>2. CASE \E b \in Builds : Builder(b)
  <2>1. PICK b \in Builds : Builder(b)
    BY <1>2
  <2>2. CASE Begin(b)
    BY <2>2, PromisedBegin DEF Promise!Next
  <2>3. CASE Collect(b)
    BY <2>3, PromisedCollect DEF Promise!Next
  <2>4. CASE Produce(b)
    BY <2>4, PromisedProduce DEF Promise!Next
  <2>5. CASE ProduceFails(b)
    BY <2>5, PromisedRefusal DEF Promise!Next
  <2>6. CASE Cleanup(b)
    <3>1. bpc[b] = "linked" /\ bpc' = [bpc EXCEPT ![b] = "done"] /\ UNCHANGED out
      BY <2>6 DEF Cleanup
    <3>2. Promise!Move(b, Seen("linked"), Seen("done"))
      BY <3>1, SeenMoves
    <3>3. Promise!Move(b, "done", "done")
      BY <3>2, SeenCases
    <3>4. Status' = Status
      BY <3>3, MovesNowhere
    <3>5. QED
      BY <3>1, <3>4
  <2>7. QED
    BY <2>1, <2>2, <2>3, <2>4, <2>5, <2>6 DEF Builder
<1>3. (\E t \in Tasks : Task(t)) => UNCHANGED <<bpc, out>>
  BY TaskFrame DEF PromiseInv
<1>4. UNCHANGED vars => UNCHANGED <<bpc, out>>
  BY DEF vars
<1>5. QED
  BY <1>1, <1>2, <1>3, <1>4, OnlyBuilds

\* KeepsPromise: OpticBuild implements BuildPromise.  Over a source tree at rest, with every
\* tool there and no process killed, a build that its caller starts either replaces its
\* output, in one step, by the objects of exactly its own sources (an archive keeps the
\* members it does not replace), or fails for a reason in its inputs and leaves the output
\* as it was, through all interleavings of workers, hits and misses beneath.
THEOREM BuildsKeepPromise ==
  ASSUME DistinctStems, TreeAtRest, NoCrashes, Installed = Tools, KeysTell, SameKeyApart
  PROVE  Spec => KeepsPromise
<1>1. ToolsThere
  BY DEF ToolsThere, Tools
<1>2. Init => PromiseInv /\ Promise!Init
  BY PromiseInit, PromisedInit
<1>3. PromiseInv /\ [Next]_vars => PromiseInv'
  BY <1>1, PromiseStep
<1>4. PromiseInv /\ [Next]_vars => [Promise!Next]_<<Status, out>>
  BY PromisedStep
<1>5. QED
  BY <1>2, <1>3, <1>4, PTL DEF Spec, KeepsPromise, Promise!Spec
====
