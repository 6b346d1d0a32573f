---------------------------- MODULE Preprocessor ----------------------------
(***************************************************************************)
(* The directives of src/src/frontend/preprocessor.rs: resolve_includes    *)
(* reads a file line by line, keeps a stack of conditional groups, and     *)
(* calls itself for an included file.  The calls are the sequence frames.  *)
(* A text is a sequence of lines; the replacement of a macro is a value,   *)
(* and a condition asks for one macro.                                     *)
(***************************************************************************)
EXTENDS Integers, Sequences, FiniteSets

CONSTANTS
  Files,     \* canonical paths
  Root,      \* the file that is compiled ...
  RootName,  \* ... and the path it was given by
  Paths,     \* what #include names
  Found,     \* Found[f][p]: the readable file that path p names in file f, or None
  Names,     \* macro names
  Texts,     \* what the files may hold
  Settings,  \* values of allow_missing_includes, and whether the database works
  None

Values == {0, 1}

Ops == {"text", "define", "undef", "ifdef", "ifndef", "if", "elif", "else", "endif",
        "include", "error", "other"}

\* A line that lacks its operand has arg None.
Lines ==
  [op : Ops \ {"include"}, arg : Names \cup {None}, value : Values]
    \cup [op : {"include"}, arg : Paths \cup {None}, value : Values]

ASSUME PreprocessorAssumption ==
  /\ Root \in Files
  /\ Found \in [Files -> [Paths -> Files \cup {None}]]
  /\ Texts \subseteq [Files -> Seq(Lines)]
  /\ Settings \subseteq [allow_missing_includes : BOOLEAN, db_works : BOOLEAN]
  /\ None \notin Files \cup Paths \cup Names \cup Values

VARIABLES
  texts,          \* the content of every file
  setting,        \* one of Settings
  frames,         \* the calls of resolve_includes, the innermost last
  include_stack,  \* names of the files being included
  macros,         \* macros[n]: the value of macro n, or None
  hashes,         \* the texts whose hash is in the database
  status,         \* of the outermost call
  entered         \* history: the files that were included

vars == <<texts, setting, frames, include_stack, macros, hashes, status, entered>>

Macros == [Names -> Values \cup {None}]
Output == [file : Files, line : Nat, value : Values \cup {None}]

\* saw and expected are history: the macros before each line that was read, and the
\* output that the reading so far should give.
Frames == [file : Files, pos : Nat, in_if_stack : Seq(BOOLEAN), branch_taken : Seq(BOOLEAN),
           pending : Seq(Nat), result : Seq(Output), saw : Seq(Macros), expected : Seq(Output)]

Frame(f) ==
  [file |-> f, pos |-> 1, in_if_stack |-> <<>>, branch_taken |-> <<>>,
   pending |-> <<>>, result |-> <<>>, saw |-> <<>>, expected |-> <<>>]

Init ==
  /\ texts \in Texts
  /\ setting \in Settings
  /\ frames = <<Frame(Root)>>
  /\ include_stack = <<RootName>>
  /\ macros = [n \in Names |-> None]
  /\ hashes = {}
  /\ status = "running"
  /\ entered = <<>>

Elements(s) == {s[i] : i \in DOMAIN s}
Front(s) == SubSeq(s, 1, Len(s) - 1)

Top == frames[Len(frames)]
AtEnd(f) == f.pos > Len(texts[f.file])
LineOf(f) == texts[f.file][f.pos]

-----------------------------------------------------------------------------
(* What the directives mean: which groups of a text are read.              *)

Openers == {"if", "ifdef", "ifndef"}
Heads == Openers \cup {"elif", "else"}

\* Does line l, the head of a group, hold under macros m?
Holds(m, l) ==
  CASE l.op = "else" -> TRUE
    [] l.arg \notin Names -> FALSE
    [] l.op = "ifdef" -> m[l.arg] # None
    [] l.op = "ifndef" -> m[l.arg] = None
    [] OTHER -> m[l.arg] \notin {None, 0}

\* The conditionals open behind line p of text t.
Depth(t, p) ==
  Cardinality({l \in 1 .. p : t[l].op \in Openers}) - Cardinality({l \in 1 .. p : t[l].op = "endif"})

\* Line p of t is in the group that line g heads.
InGroup(t, g, p) ==
  /\ g < p
  /\ t[g].op \in Heads
  /\ \A l \in g + 1 .. p - 1 :
       /\ Depth(t, l) >= Depth(t, g)
       /\ t[l].op \in {"elif", "else"} => Depth(t, l) > Depth(t, g)

\* Lines h and g head groups of one conditional, h an earlier one.
EarlierGroup(t, h, g) ==
  /\ h < g
  /\ t[h].op \in Heads
  /\ Depth(t, h) = Depth(t, g)
  /\ \A l \in h + 1 .. g - 1 : Depth(t, l) >= Depth(t, g)

\* A conditional reads the first group whose head holds.
Chosen(f, g) ==
  LET t == texts[f.file]
  IN /\ Holds(f.saw[g], t[g])
     /\ \A h \in 1 .. g - 1 : EarlierGroup(t, h, g) => ~Holds(f.saw[h], t[h])

\* Line p of a file is read if all groups it is in are.
Reached(f, p) ==
  \A g \in 1 .. p - 1 : InGroup(texts[f.file], g, p) => Chosen(f, g)

-----------------------------------------------------------------------------
(* resolve_includes.                                                       *)

Active(f) == \A i \in DOMAIN f.in_if_stack : f.in_if_stack[i]
ParentActive(f) == \A i \in 1 .. Len(f.in_if_stack) - 1 : f.in_if_stack[i]
Taken(f) == f.branch_taken[Len(f.branch_taken)]

\* Line p of file f as it comes out under the macros there are.
Expanded(f, p) ==
  LET name == texts[f][p].arg
  IN [file |-> f, line |-> p, value |-> IF name \in Names THEN macros[name] ELSE None]

\* The text that is pending is expanded.
flush_pending(f) ==
  [f EXCEPT !.result = @ \o [i \in DOMAIN f.pending |-> Expanded(f.file, f.pending[i])],
            !.pending = <<>>]

Past(f) == [f EXCEPT !.pos = @ + 1, !.saw = Append(@, macros)]
Continue(f) == frames' = [frames EXCEPT ![Len(frames)] = Past(f)]

\* The innermost call runs, and its next line is one of these.
At(ops) ==
  /\ status = "running"
  /\ ~AtEnd(Top)
  /\ LineOf(Top).op \in ops

Same == UNCHANGED <<texts, setting, include_stack, macros, hashes, status, entered>>

\* The innermost call returns an error: its includer goes on, or everything fails.
Fail ==
  /\ IF setting.allow_missing_includes /\ Len(frames) > 1
       THEN frames' = Front(frames) /\ status' = status
       ELSE frames' = frames /\ status' = "error"
  /\ UNCHANGED <<texts, setting, include_stack, macros, hashes, entered>>

Text ==
  /\ At({"text"})
  /\ LET f == Top
         g == IF Active(f) THEN [f EXCEPT !.pending = Append(@, f.pos)] ELSE f
         read == IF Reached(f, f.pos) THEN <<Expanded(f.file, f.pos)>> ELSE <<>>
     IN Continue([g EXCEPT !.expected = @ \o read])
  /\ Same

Skip ==
  /\ \/ At({"other"})
     \/ At({"include", "define", "undef", "error"}) /\ ~Active(Top)
  /\ Continue(flush_pending(Top))
  /\ Same

\* Mutant: an #error counts wherever it stands.
ErrorUnread ==
  /\ \/ At({"include", "define", "error"})
     \/ At({"if"}) /\ Active(Top)
     \/ At({"elif"}) /\ Top.in_if_stack # <<>> /\ ~Taken(Top) /\ ParentActive(Top)
     \/ At({"ifdef", "ifndef"})
  /\ LineOf(Top).op # "error" => LineOf(Top).arg = None
  /\ Fail

\* #error, and lines without the operand they need.
Malformed ==
  /\ \/ At({"include", "define", "error"}) /\ Active(Top)
     \/ At({"if"}) /\ Active(Top)
     \/ At({"elif"}) /\ Top.in_if_stack # <<>> /\ ~Taken(Top) /\ ParentActive(Top)
     \/ At({"ifdef", "ifndef"})
  /\ LineOf(Top).op # "error" => LineOf(Top).arg = None
  /\ Fail

\* Mutant: the text before the definition is not expanded yet.
DefineUnflushed ==
  /\ At({"define"}) /\ Active(Top)
  /\ LineOf(Top).arg # None
  /\ macros' = [macros EXCEPT ![LineOf(Top).arg] = LineOf(Top).value]
  /\ Continue(Top)
  /\ UNCHANGED <<texts, setting, include_stack, hashes, status, entered>>

process_define ==
  /\ At({"define"}) /\ Active(Top)
  /\ LineOf(Top).arg # None
  /\ macros' = [macros EXCEPT ![LineOf(Top).arg] = LineOf(Top).value]
  /\ Continue(flush_pending(Top))
  /\ UNCHANGED <<texts, setting, include_stack, hashes, status, entered>>

process_undef ==
  /\ At({"undef"}) /\ Active(Top)
  /\ macros' = IF LineOf(Top).arg = None THEN macros ELSE [macros EXCEPT ![LineOf(Top).arg] = None]
  /\ Continue(flush_pending(Top))
  /\ UNCHANGED <<texts, setting, include_stack, hashes, status, entered>>

\* #if, #ifdef, #ifndef.
Open ==
  /\ At(Openers)
  /\ LineOf(Top).arg = None => LineOf(Top).op = "if" /\ ~Active(Top)
  /\ LET active == Active(Top) /\ Holds(macros, LineOf(Top))
     IN Continue([flush_pending(Top) EXCEPT !.in_if_stack = Append(@, active),
                                            !.branch_taken = Append(@, active)])
  /\ Same

\* Mutant: the group of an #elif is not remembered.
ForgetElif ==
  /\ At({"elif", "else"})
  /\ Top.in_if_stack # <<>>
  /\ ~(LineOf(Top).op = "elif" /\ LineOf(Top).arg = None /\ ~Taken(Top) /\ ParentActive(Top))
  /\ LET active == ParentActive(Top) /\ ~Taken(Top) /\ Holds(macros, LineOf(Top))
         last == Len(Top.in_if_stack)
     IN Continue([flush_pending(Top) EXCEPT !.in_if_stack[last] = active])
  /\ Same

\* #elif and #else: a group is read if none was before it and its head holds.
Alternative ==
  /\ At({"elif", "else"})
  /\ Top.in_if_stack # <<>>
  /\ ~(LineOf(Top).op = "elif" /\ LineOf(Top).arg = None /\ ~Taken(Top) /\ ParentActive(Top))
  /\ LET active == ParentActive(Top) /\ ~Taken(Top) /\ Holds(macros, LineOf(Top))
         last == Len(Top.in_if_stack)
     IN Continue([flush_pending(Top) EXCEPT !.in_if_stack[last] = active,
                                            !.branch_taken[last] = @ \/ active])
  /\ Same

\* Mutant: branch_taken is not popped.
EndifKeepsTaken ==
  /\ At({"endif"})
  /\ Top.in_if_stack # <<>>
  /\ Continue([flush_pending(Top) EXCEPT !.in_if_stack = Front(@)])
  /\ Same

Endif ==
  /\ At({"endif"})
  /\ Top.in_if_stack # <<>>
  /\ Continue([flush_pending(Top) EXCEPT !.in_if_stack = Front(@), !.branch_taken = Front(@)])
  /\ Same

Unopened ==
  /\ At({"elif", "else", "endif"})
  /\ Top.in_if_stack = <<>>
  /\ Fail

\* The file that the #include of the innermost call names.
Target == Found[Top.file][LineOf(Top).arg]

Including == At({"include"}) /\ Active(Top) /\ LineOf(Top).arg # None

OnStack(name) == name \in Elements(include_stack)

\* Mutant: the database is not asked.
LeftOnStack == OnStack(Target)

\* Mutant: only the database is asked.
LeftByHash == setting.db_works /\ texts[Target] \in hashes

\* Is the file named by the line left out?
Left == OnStack(Target) \/ (setting.db_works /\ texts[Target] \in hashes)

\* resolve_include_file leaves a file out that is being included or was before.
LeaveOut ==
  /\ Including
  /\ OnStack(LineOf(Top).arg) \/ (Target # None /\ Left)
  /\ Continue(flush_pending(Top))
  /\ Same

\* Mutant: a missing file is always a warning.
NotFoundWarned ==
  /\ Including
  /\ ~OnStack(LineOf(Top).arg) /\ Target = None
  /\ Continue(flush_pending(Top)) /\ Same

\* No such file: a warning, or the call fails like any other.
NotFound ==
  /\ Including
  /\ ~OnStack(LineOf(Top).arg) /\ Target = None
  /\ IF setting.allow_missing_includes
       THEN Continue(flush_pending(Top)) /\ Same
       ELSE Fail

\* Mutant: the text before the #include is not put out yet.
IncludeUnflushed ==
  /\ Including
  /\ ~OnStack(LineOf(Top).arg) /\ Target # None /\ ~Left
  /\ frames' = Append([frames EXCEPT ![Len(frames)] = Past(@)], Frame(Target))
  /\ include_stack' = Append(include_stack, Target)
  /\ hashes' = IF setting.db_works THEN hashes \cup {texts[Target]} ELSE hashes
  /\ entered' = Append(entered, Target)
  /\ UNCHANGED <<texts, setting, macros, status>>

resolve_include_file ==
  /\ Including
  /\ ~OnStack(LineOf(Top).arg) /\ Target # None /\ ~Left
  /\ frames' = Append([frames EXCEPT ![Len(frames)] = Past(flush_pending(@))], Frame(Target))
  /\ include_stack' = Append(include_stack, Target)
  /\ hashes' = IF setting.db_works THEN hashes \cup {texts[Target]} ELSE hashes
  /\ entered' = Append(entered, Target)
  /\ UNCHANGED <<texts, setting, macros, status>>

\* Mutant: a file may end inside a conditional.
ReturnAnyway ==
  /\ status = "running" /\ AtEnd(Top)
  /\ LET f == flush_pending(Top)
     IN IF Len(frames) = 1
          THEN frames' = <<f>> /\ status' = "done"
          ELSE /\ frames' = [Front(frames) EXCEPT ![Len(frames) - 1].result = @ \o f.result,
                                                  ![Len(frames) - 1].expected = @ \o f.expected]
               /\ status' = status
  /\ include_stack' = Front(include_stack)
  /\ UNCHANGED <<texts, setting, macros, hashes, entered>>

\* The end of a file: its output goes to the includer.
Return ==
  /\ status = "running" /\ AtEnd(Top)
  /\ Top.in_if_stack = <<>>
  /\ LET f == flush_pending(Top)
     IN IF Len(frames) = 1
          THEN frames' = <<f>> /\ status' = "done"
          ELSE /\ frames' = [Front(frames) EXCEPT ![Len(frames) - 1].result = @ \o f.result,
                                                  ![Len(frames) - 1].expected = @ \o f.expected]
               /\ status' = status
  /\ include_stack' = Front(include_stack)
  /\ UNCHANGED <<texts, setting, macros, hashes, entered>>

Unterminated ==
  /\ status = "running" /\ AtEnd(Top)
  /\ Top.in_if_stack # <<>>
  /\ Fail

Next ==
  \/ Text \/ Skip \/ Malformed \/ process_define \/ process_undef
  \/ Open \/ Alternative \/ Endif \/ Unopened
  \/ LeaveOut \/ NotFound \/ resolve_include_file
  \/ Return \/ Unterminated

Spec == Init /\ [][Next]_vars

-----------------------------------------------------------------------------
(* Properties.                                                             *)

FrameOK(f) ==
  /\ f \in Frames
  /\ f.pos \in 1 .. Len(texts[f.file]) + 1
  /\ Len(f.branch_taken) = Len(f.in_if_stack)
  /\ Len(f.saw) = f.pos - 1

TypeOK ==
  /\ texts \in [Files -> Seq(Lines)] /\ setting \in Settings
  /\ frames \in Seq(Frames) /\ frames # <<>>
  /\ \A i \in DOMAIN frames : FrameOK(frames[i])
  /\ include_stack \in Seq(Files \cup {RootName})
  /\ macros \in Macros
  /\ hashes \subseteq {texts[f] : f \in Files}
  /\ status \in {"running", "done", "error"}
  /\ entered \in Seq(Files)

\* The stack of conditionals says of every line what the nesting of groups says: it is
\* read exactly if each group around it was the first of its conditional to hold
\* (#if, #ifdef, #ifndef, #elif, #else, #endif of resolve_includes).
ActiveGroups ==
  \A i \in DOMAIN frames : Active(frames[i]) <=> Reached(frames[i], frames[i].pos)

\* The output is the text of the groups that are read, with that of the included files
\* at its place, expanded under the macros of the line it stands on and not those of
\* the later directive that made flush_pending expand it.
OutputAsExpected ==
  \A i \in DOMAIN frames : flush_pending(frames[i]).result = frames[i].expected

\* With a database that works no two files of equal text are included, even if one of
\* them failed or is still being read (test_include_deduplication_via_redb).
OncePerText ==
  setting.db_works =>
    \A i, j \in DOMAIN entered : i # j => texts[entered[i]] # texts[entered[j]]

\* No file is included while it is being included, whether or not the database works
\* and although a call that fails leaves its name on include_stack: so the calls of
\* resolve_includes nest no deeper than there are files.
NeverReentered ==
  \A i, j \in DOMAIN frames : 1 < i /\ i < j => frames[i].file # frames[j].file

\* Line p of f, or its end, is one an error must be reported for.
Bad(f, p) ==
  LET t == texts[f.file]
  IN IF p > Len(t) THEN Depth(t, Len(t)) > 0
     ELSE \/ t[p].op \in {"elif", "else", "endif"} /\ Depth(t, p - 1) = 0
          \/ t[p].op \in {"ifdef", "ifndef"} /\ t[p].arg = None
          \/ t[p].op \in {"define", "include", "if"} /\ t[p].arg = None /\ Reached(f, p)
          \/ t[p].op = "error" /\ Reached(f, p)
          \/ /\ t[p].op = "elif" /\ t[p].arg = None
             /\ \A g \in 1 .. p - 1 : EarlierGroup(t, g, p) => ~Holds(f.saw[g], t[g])
             /\ \A g \in 1 .. p - 1 : InGroup(t, g, p) /\ Depth(t, g) < Depth(t, p) => Chosen(f, g)
          \/ t[p].op = "include" /\ Reached(f, p) /\ Found[f.file][t[p].arg] = None

\* The names of the files that the i-th call is in, its own included.
NameOf(i) == IF i = 1 THEN RootName ELSE frames[i].file
Around(i) == {NameOf(j) : j \in 1 .. i}

\* An #include whose file is not found may be passed where allow_missing_includes turns the
\* failure into a warning, and where it names, word for word, a file that it is in.
MayPass(i, p) ==
  LET l == texts[frames[i].file][p]
  IN /\ l.op = "include" /\ l.arg # None
     /\ setting.allow_missing_includes \/ l.arg \in Around(i)

\* An error is returned for a bad line only, and of the bad lines none is passed but such
\* an #include: neither one without an operand nor, in a strict run, any other missing
\* file (the early returns of resolve_includes and resolve_include_file).
ErrorsExactly ==
  /\ status = "error" => Bad(Top, Top.pos)
  /\ status = "done" => ~Bad(Top, Top.pos)
  /\ \A i \in DOMAIN frames : \A p \in 1 .. frames[i].pos - 1 :
       Bad(frames[i], p) => MayPass(i, p)
=============================================================================
