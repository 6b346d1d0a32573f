---------------------------- MODULE MCOpticBuild ----------------------------
(***************************************************************************)
(* Small instances of OpticBuild: the builds a user runs, their sources    *)
(* and what those sources hold.                                            *)
(***************************************************************************)
EXTENDS OpticBuild

CONSTANTS TextA, TextB, TextC, TextN, TextBroken, TextRejected, TextPanic, HdrOld, HdrNew

Texts == {TextA, TextB, TextC, TextN, TextBroken, TextRejected, TextPanic, HdrOld, HdrNew}

\* A BuildConfig with flags that are one letter each.
Build(srcs, flag, thunk, jobs, type, output) ==
  [sources |-> srcs, flags |-> << <<flag>> >>, thunk |-> thunk, jobs |-> jobs,
   output_type |-> type, output |-> output]

-----------------------------------------------------------------------------
(* Builds of disjoint cache keys overlap, builds of equal keys follow each *)
(* other: a library and a kernel object at once, then a rebuild of the     *)
(* library with another member, then builds that fail.                     *)

SeqStem == [s \in {"a.c", "b.c", "c.c", "broken.c", "rejected.c", "panic.c", "gone.c", "nohdr.c"} |-> s]
SeqSources == DOMAIN SeqStem
SeqHeaderOf == [s \in SeqSources |-> IF s = "nohdr.c" THEN "gone.h" ELSE "h.h"]
SeqHeaders == {"h.h", "gone.h"}
SeqInitial ==
  [f \in SeqSources \cup SeqHeaders |->
     CASE f = "a.c" -> TextA [] f = "b.c" -> TextB [] f = "c.c" -> TextC [] f = "nohdr.c" -> TextN
       [] f = "broken.c" -> TextBroken [] f = "rejected.c" -> TextRejected
       [] f = "panic.c" -> TextPanic [] f = "h.h" -> HdrOld [] OTHER -> Absent]
SeqEdits == [f \in SeqSources \cup SeqHeaders |-> {}]
SeqConfig ==
  [lib     |-> Build(<<"a.c", "b.c">>, "0", FALSE, 2, "StaticLib", "lib.a"),
   kernel  |-> Build(<<"a.c", "c.c">>, "2", TRUE, 1, "Executable", "vm"),
   relib   |-> Build(<<"c.c", "a.c">>, "0", FALSE, 2, "StaticLib", "lib.a"),
   failing |-> Build(<<"a.c", "rejected.c", "broken.c", "nohdr.c">>, "0", FALSE, 2, "StaticLib", "f.a"),
   thunks  |-> Build(<<"rejected.c">>, "0", TRUE, 1, "StaticLib", "t.a"),
   panics  |-> Build(<<"broken.c", "panic.c">>, "0", FALSE, 2, "Object", "p.o"),
   pair    |-> Build(<<"a.c", "b.c">>, "0", FALSE, 2, "Object", "pair.o"),
   single  |-> Build(<<"c.c">>, "0", FALSE, 1, "Object", "c.o"),
   missing |-> Build(<<"gone.c">>, "0", FALSE, 1, "Object", "g.o"),
   none    |-> Build(<<>>, "0", FALSE, 1, "Executable", "a.out")]
SeqTurn ==
  [lib |-> 0, kernel |-> 0, relib |-> 1, failing |-> 2, panics |-> 3,
   pair |-> 4, single |-> 5, thunks |-> 6, missing |-> 7, none |-> 7]
SeqBuilds == DOMAIN SeqConfig

\* These builds are of the kind the theorems about OwnObjects, OutcomeByInputs and
\* KeepsPromise speak of.
ASSUME SequentialAssumption ==
  Builds = SeqBuilds =>
    /\ DistinctStems /\ KeysTell /\ SameKeyApart
    /\ TreeAtRest /\ NoCrashes /\ Installed = Tools

-----------------------------------------------------------------------------
(* Two processes build the same source with the same flags at once, while  *)
(* the user edits the header, kills a process and clears the cache.        *)

SharedStem == [s \in {"a.c", "b.c"} |-> s]
SharedSources == DOMAIN SharedStem
SharedHeaders == {"h.h"}
SharedHeaderOf == [s \in SharedSources |-> "h.h"]
SharedInitial ==
  [f \in SharedSources \cup SharedHeaders |->
     CASE f = "a.c" -> TextA [] f = "b.c" -> TextB [] OTHER -> HdrOld]
SharedConfig ==
  [one |-> Build(<<"a.c", "b.c">>, "0", FALSE, 2, "StaticLib", "one.a"),
   two |-> Build(<<"a.c">>, "0", FALSE, 1, "SharedLib", "two.so")]
SharedTurn == [one |-> 0, two |-> 0]
SharedEdits ==
  [f \in SharedSources \cup SharedHeaders |-> IF f = "h.h" THEN {HdrNew} ELSE {}]
SharedBuilds == DOMAIN SharedConfig

\* The same, one after the other.
IncrementalTurn == [one |-> 0, two |-> 1]

-----------------------------------------------------------------------------
(* Two copies of one source under different names, compiled by two workers.*)

CopyStem == [s \in {"u.c", "copy.c"} |-> s]
CopySources == DOMAIN CopyStem
CopyHeaders == {"h.h"}
CopyHeaderOf == [s \in CopySources |-> "h.h"]
CopyInitial == [f \in CopySources \cup CopyHeaders |-> IF f = "h.h" THEN HdrOld ELSE TextA]
CopyEdits == [f \in CopySources \cup CopyHeaders |-> {}]
CopyConfig == [both |-> Build(<<"u.c", "copy.c">>, "0", FALSE, 2, "StaticLib", "u.a")]
CopyTurn == [both |-> 0]
CopyBuilds == DOMAIN CopyConfig

=============================================================================
