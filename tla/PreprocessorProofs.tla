------------------------- MODULE PreprocessorProofs -------------------------
(***************************************************************************)
(* Proofs about Preprocessor, for every set of files and every text.       *)
(***************************************************************************)
EXTENDS Preprocessor, SequenceTheorems, TLAPS

-----------------------------------------------------------------------------
(* Types.                                                                  *)

\* All but the last element of a sequence.
LEMMA FrontFacts ==
  ASSUME NEW S, NEW s \in Seq(S), Len(s) > 1
  PROVE  /\ Front(s) \in Seq(S)
         /\ Len(Front(s)) = Len(s) - 1
         /\ DOMAIN Front(s) = 1 .. Len(s) - 1
         /\ \A i \in 1 .. Len(s) - 1 : Front(s)[i] = s[i]
<1>1. Len(s) \in Nat
  OBVIOUS
<1>2. QED
  BY <1>1 DEF Front

\* A sequence with another element at one place, and with one more behind it.
LEMMA SetFacts ==
  ASSUME NEW S, NEW s \in Seq(S), NEW d \in 1 .. Len(s), NEW x \in S
  PROVE  LET t == [s EXCEPT ![d] = x]
         IN /\ t \in Seq(S) /\ Len(t) = Len(s) /\ DOMAIN t = 1 .. Len(s)
            /\ \A i \in 1 .. Len(s) : t[i] = IF i = d THEN x ELSE s[i]
OBVIOUS

LEMMA AppendFacts ==
  ASSUME NEW S, NEW s \in Seq(S), NEW x \in S
  PROVE  LET t == Append(s, x)
         IN /\ t \in Seq(S) /\ Len(t) = Len(s) + 1 /\ DOMAIN t = 1 .. Len(s) + 1
            /\ \A i \in 1 .. Len(s) : t[i] = s[i]
            /\ t[Len(s) + 1] = x
OBVIOUS

\* A new call starts before the first line of its file.
LEMMA NewFrameOK ==
  ASSUME NEW f \in Files, texts \in [Files -> Seq(Lines)]
  PROVE  FrameOK(Frame(f)) /\ Frame(f).file = f
BY DEF FrameOK, Frame, Frames

\* Expanding the pending text changes nothing else.
LEMMA FlushOK ==
  ASSUME NEW f, FrameOK(f), macros \in Macros
  PROVE  LET g == flush_pending(f)
         IN /\ FrameOK(g)
            /\ g.file = f.file /\ g.pos = f.pos
            /\ g.in_if_stack = f.in_if_stack /\ g.branch_taken = f.branch_taken
            /\ g.expected = f.expected
<1> DEFINE out == [i \in DOMAIN f.pending |-> Expanded(f.file, f.pending[i])]
           g == flush_pending(f)
<1>1. f \in Frames
  BY DEF FrameOK
<1>2. \A i \in DOMAIN f.pending : Expanded(f.file, f.pending[i]) \in Output
  BY <1>1 DEF Frames, Expanded, Output, Macros
<1>3. out \in Seq(Output)
  <2>1. f.pending \in Seq(Nat)
    BY <1>1 DEF Frames
  <2>2. Len(f.pending) \in Nat /\ DOMAIN f.pending = 1 .. Len(f.pending)
    BY <2>1
  <2>3. out \in [1 .. Len(f.pending) -> Output]
    BY <1>2, <2>2
  <2>4. QED
    BY <2>2, <2>3, SeqDef
<1>4. f.result \o out \in Seq(Output)
  BY <1>1, <1>3 DEF Frames
<1>5. g = [f EXCEPT !.result = f.result \o out, !.pending = <<>>]
  BY <1>1 DEF flush_pending, Frames
<1>6. g \in Frames
  <2>1. g = [file |-> f.file, pos |-> f.pos, in_if_stack |-> f.in_if_stack,
             branch_taken |-> f.branch_taken, pending |-> <<>>, result |-> f.result \o out,
             saw |-> f.saw, expected |-> f.expected]
    BY <1>1, <1>5 DEF Frames
  <2>2. <<>> \in Seq(Nat)
    OBVIOUS
  <2>3. QED
    BY <1>1, <1>4, <2>1, <2>2 DEF Frames
<1>7. /\ g.file = f.file /\ g.pos = f.pos /\ g.in_if_stack = f.in_if_stack
      /\ g.branch_taken = f.branch_taken /\ g.expected = f.expected /\ g.saw = f.saw
  BY <1>1, <1>5 DEF Frames
<1>8. QED
  BY <1>6, <1>7 DEF FrameOK

\* Reading a line that is there.
LEMMA PastOK ==
  ASSUME NEW f, FrameOK(f), ~AtEnd(f), macros \in Macros, texts \in [Files -> Seq(Lines)]
  PROVE  FrameOK(Past(f)) /\ Past(f).file = f.file
<1>1. f \in Frames /\ f.pos \in Nat /\ Len(texts[f.file]) \in Nat
  BY DEF FrameOK, Frames
<1>2. Past(f) = [f EXCEPT !.pos = f.pos + 1, !.saw = Append(f.saw, macros)]
  BY <1>1 DEF Past, Frames
<1>3. Append(f.saw, macros) \in Seq(Macros) /\ Len(Append(f.saw, macros)) = Len(f.saw) + 1
  BY <1>1 DEF Frames
<1>4. Past(f) \in Frames
  <2>1. Past(f) = [file |-> f.file, pos |-> f.pos + 1, in_if_stack |-> f.in_if_stack,
                   branch_taken |-> f.branch_taken, pending |-> f.pending, result |-> f.result,
                   saw |-> Append(f.saw, macros), expected |-> f.expected]
    BY <1>1, <1>2 DEF Frames
  <2>2. f.pos + 1 \in Nat
    BY <1>1
  <2>3. QED
    BY <1>1, <1>3, <2>1, <2>2 DEF Frames
<1>5. /\ Past(f).file = f.file /\ Past(f).pos = f.pos + 1 /\ Past(f).saw = Append(f.saw, macros)
      /\ Past(f).in_if_stack = f.in_if_stack /\ Past(f).branch_taken = f.branch_taken
  BY <1>1, <1>2 DEF Frames
<1>6. f.pos + 1 \in 1 .. Len(texts[f.file]) + 1
  BY <1>1 DEF AtEnd, FrameOK
<1>7. Len(f.saw) = f.pos - 1 /\ Len(f.branch_taken) = Len(f.in_if_stack)
  BY DEF FrameOK
<1>8. QED
  BY <1>1, <1>3, <1>4, <1>5, <1>6, <1>7 DEF FrameOK

\* The state of the calls: what TypeOK says of texts and frames.
FramesOK ==
  /\ texts \in [Files -> Seq(Lines)]
  /\ frames \in Seq(Frames) /\ frames # <<>>
  /\ \A i \in DOMAIN frames : FrameOK(frames[i])

\* There is an innermost call.
LEMMA TopOK ==
  ASSUME FramesOK
  PROVE  /\ Len(frames) \in Nat \ {0}
         /\ Len(frames) \in DOMAIN frames
         /\ FrameOK(Top) /\ Top \in Frames
<1>1. Len(frames) \in Nat \ {0} /\ DOMAIN frames = 1 .. Len(frames)
  BY DEF FramesOK
<1>2. QED
  BY <1>1 DEF FramesOK, Top, FrameOK

\* The innermost call reads a line and keeps its file.
LEMMA ContinueOK ==
  ASSUME FramesOK, macros \in Macros, NEW g, FrameOK(g), g.file = Top.file, ~AtEnd(g),
         texts' = texts, Continue(g)
  PROVE  /\ FramesOK'
         /\ Len(frames') = Len(frames)
         /\ \A i \in DOMAIN frames : frames'[i].file = frames[i].file
<1>1. Len(frames) \in Nat \ {0} /\ Len(frames) \in DOMAIN frames
  BY TopOK
<1>2. FrameOK(Past(g)) /\ Past(g).file = g.file
  BY PastOK DEF FramesOK
<1>3. Past(g) \in Frames
  BY <1>2 DEF FrameOK
<1>4. /\ frames' \in Seq(Frames)
      /\ Len(frames') = Len(frames)
      /\ DOMAIN frames' = DOMAIN frames
      /\ \A i \in DOMAIN frames : frames'[i] = IF i = Len(frames) THEN Past(g) ELSE frames[i]
  BY <1>1, <1>3 DEF Continue, FramesOK
<1>5. frames' # <<>>
  BY <1>1, <1>4
<1>6. \A i \in DOMAIN frames' : FrameOK(frames'[i])
  BY <1>2, <1>4 DEF FramesOK
<1>7. \A i \in DOMAIN frames' : FrameOK(frames[i])'
  BY <1>6 DEF FrameOK
<1>8. \A i \in DOMAIN frames : frames'[i].file = frames[i].file
  BY <1>2, <1>4 DEF Top
<1>9. QED
  BY <1>4, <1>5, <1>7, <1>8 DEF FramesOK

\* A frame with other conditionals and other text.
LEMMA WithOK ==
  ASSUME NEW f, FrameOK(f), NEW ifs \in Seq(BOOLEAN), NEW taken \in Seq(BOOLEAN),
         Len(ifs) = Len(taken), NEW pend \in Seq(Nat), NEW res \in Seq(Output),
         NEW ex \in Seq(Output)
  PROVE  LET g == [file |-> f.file, pos |-> f.pos, in_if_stack |-> ifs, branch_taken |-> taken,
                   pending |-> pend, result |-> res, saw |-> f.saw, expected |-> ex]
         IN FrameOK(g)
<1> DEFINE g == [file |-> f.file, pos |-> f.pos, in_if_stack |-> ifs, branch_taken |-> taken,
                 pending |-> pend, result |-> res, saw |-> f.saw, expected |-> ex]
<1>1. f \in Frames
  BY DEF FrameOK
<1>2. g \in Frames
  BY <1>1 DEF Frames
<1>3. QED
  BY <1>2 DEF FrameOK

\* Two fields of a frame are set.
LEMMA GroupsSet ==
  ASSUME NEW f \in Frames, NEW a, NEW b, NEW g,
         g = [f EXCEPT !.in_if_stack = a, !.branch_taken = b]
  PROVE  g = [file |-> f.file, pos |-> f.pos, in_if_stack |-> a, branch_taken |-> b,
              pending |-> f.pending, result |-> f.result, saw |-> f.saw, expected |-> f.expected]
BY DEF Frames

LEMMA TextSet ==
  ASSUME NEW f \in Frames, NEW a, NEW b, NEW g,
         g = [[f EXCEPT !.pending = a] EXCEPT !.expected = b]
  PROVE  g = [file |-> f.file, pos |-> f.pos, in_if_stack |-> f.in_if_stack,
              branch_taken |-> f.branch_taken, pending |-> a, result |-> f.result,
              saw |-> f.saw, expected |-> b]
BY DEF Frames

\* What an action on the innermost call leaves the other variables to be.
Others == macros \in Macros /\ texts' = texts

\* A change of the calls that leaves their files alone.
SameFiles ==
  /\ Len(frames') = Len(frames)
  /\ \A i \in DOMAIN frames : frames'[i].file = frames[i].file

\* The line that is read is one.
LEMMA LineOK ==
  ASSUME FramesOK, ~AtEnd(Top)
  PROVE  Top.file \in Files /\ LineOf(Top) \in Lines
<1>1. Top \in Frames /\ FrameOK(Top)
  BY TopOK
<1>2. Top.pos \in Nat /\ Top.file \in Files /\ texts[Top.file] \in Seq(Lines)
  BY <1>1 DEF Frames, FramesOK
<1>3. Len(texts[Top.file]) \in Nat
  BY <1>2
<1>4. Top.pos \in 1 .. Len(texts[Top.file])
  BY <1>1, <1>2, <1>3 DEF AtEnd, FrameOK
<1>5. QED
  BY <1>2, <1>4 DEF LineOf

LEMMA FlushTop ==
  ASSUME FramesOK, Others, ~AtEnd(Top)
  PROVE  /\ FrameOK(flush_pending(Top))
         /\ flush_pending(Top).file = Top.file
         /\ ~AtEnd(flush_pending(Top))
         /\ flush_pending(Top).in_if_stack = Top.in_if_stack
         /\ flush_pending(Top).branch_taken = Top.branch_taken
BY TopOK, FlushOK DEF Others, AtEnd

LEMMA FlushStep ==
  ASSUME FramesOK, Others, ~AtEnd(Top), Continue(flush_pending(Top))
  PROVE  FramesOK' /\ SameFiles
BY FlushTop, ContinueOK DEF Others, SameFiles

LEMMA TextStep ==
  ASSUME FramesOK, Others, Text
  PROVE  FramesOK' /\ SameFiles
<1> DEFINE g == IF Active(Top) THEN [Top EXCEPT !.pending = Append(@, Top.pos)] ELSE Top
           read == IF Reached(Top, Top.pos) THEN <<Expanded(Top.file, Top.pos)>> ELSE <<>>
           pend == IF Active(Top) THEN Append(Top.pending, Top.pos) ELSE Top.pending
           h == [g EXCEPT !.expected = @ \o read]
<1>1. FrameOK(Top) /\ Top \in Frames /\ ~AtEnd(Top)
  BY TopOK DEF Text, At
<1>2. Expanded(Top.file, Top.pos) \in Output
  BY <1>1 DEF Others, Expanded, Output, Macros, Frames
<1>3. read \in Seq(Output) /\ pend \in Seq(Nat)
  BY <1>1, <1>2 DEF Frames
<1>4. Top.expected \o read \in Seq(Output)
  BY <1>1, <1>3 DEF Frames
<1>5. h = [file |-> Top.file, pos |-> Top.pos, in_if_stack |-> Top.in_if_stack,
           branch_taken |-> Top.branch_taken, pending |-> pend, result |-> Top.result,
           saw |-> Top.saw, expected |-> Top.expected \o read]
  <2>1. g = [Top EXCEPT !.pending = pend]
    BY <1>1 DEF Frames
  <2>2. g.expected = Top.expected
    BY <1>1, <2>1 DEF Frames
  <2>3. h = [g EXCEPT !.expected = Top.expected \o read]
    BY <2>2
  <2>4. h = [[Top EXCEPT !.pending = pend] EXCEPT !.expected = Top.expected \o read]
    BY <2>1, <2>3
  <2> HIDE DEF h, pend, read, g
  <2>5. QED
    BY <1>1, <2>4, TextSet
<1>6. Len(Top.in_if_stack) = Len(Top.branch_taken)
  BY <1>1 DEF FrameOK
<1> HIDE DEF g, read, pend, h
<1>7. FrameOK(h) /\ h.file = Top.file /\ h.pos = Top.pos
  <2>1. /\ Top.in_if_stack \in Seq(BOOLEAN) /\ Top.branch_taken \in Seq(BOOLEAN)
        /\ Top.result \in Seq(Output)
    BY <1>1 DEF Frames
  <2>2. QED
    BY <1>1, <1>3, <1>4, <1>5, <1>6, <2>1, WithOK
<1>8. Continue(h)
  BY DEF Text, h, g, read
<1>9. ~AtEnd(h)
  BY <1>1, <1>7 DEF AtEnd
<1>10. QED
  BY <1>7, <1>8, <1>9, ContinueOK DEF Others, SameFiles

\* The conditionals of the innermost call change.
LEMMA GroupsStep ==
  ASSUME FramesOK, Others, ~AtEnd(Top), NEW a \in Seq(BOOLEAN), NEW b \in Seq(BOOLEAN),
         Len(a) = Len(b), NEW h,
         h = [flush_pending(Top) EXCEPT !.in_if_stack = a, !.branch_taken = b], Continue(h)
  PROVE  FramesOK' /\ SameFiles
<1> DEFINE f == flush_pending(Top)
<1>1. FrameOK(f) /\ f.file = Top.file /\ ~AtEnd(f) /\ f \in Frames
  BY FlushTop DEF FrameOK
<1> HIDE DEF f
<1>2. h = [file |-> f.file, pos |-> f.pos, in_if_stack |-> a, branch_taken |-> b,
           pending |-> f.pending, result |-> f.result, saw |-> f.saw, expected |-> f.expected]
  BY <1>1, GroupsSet DEF f
<1>3. f.pending \in Seq(Nat) /\ f.result \in Seq(Output) /\ f.expected \in Seq(Output)
  BY <1>1 DEF Frames
<1>4. FrameOK(h)
  <2>1. FrameOK([file |-> f.file, pos |-> f.pos, in_if_stack |-> a, branch_taken |-> b,
                 pending |-> f.pending, result |-> f.result, saw |-> f.saw,
                 expected |-> f.expected])
    BY <1>1, <1>3, WithOK
  <2>2. QED
    BY <1>2, <2>1
<1>5. h.file = f.file /\ ~AtEnd(h)
  <2>1. h.file = f.file /\ h.pos = f.pos
    <3>1. h = [f EXCEPT !.in_if_stack = a, !.branch_taken = b]
      BY DEF f
    <3>2. QED
      BY <1>1, <3>1 DEF Frames
  <2>2. f.pos <= Len(texts[f.file])
    BY <1>1 DEF AtEnd, FrameOK, FramesOK
  <2>3. QED
    BY <1>1, <2>1 DEF AtEnd
<1>6. QED
  BY <1>1, <1>4, <1>5, ContinueOK DEF Others, SameFiles

LEMMA OpenStep ==
  ASSUME FramesOK, Others, Open
  PROVE  FramesOK' /\ SameFiles
<1> DEFINE f == flush_pending(Top)
           active == Active(Top) /\ Holds(macros, LineOf(Top))
           h == [f EXCEPT !.in_if_stack = Append(@, active), !.branch_taken = Append(@, active)]
           a == Append(f.in_if_stack, active)
           b == Append(f.branch_taken, active)
<1>1. FrameOK(f) /\ ~AtEnd(Top) /\ f \in Frames
  BY FlushTop DEF Open, At, FrameOK
<1>2. active \in BOOLEAN
  <2>1. Holds(macros, LineOf(Top)) \in BOOLEAN
    BY DEF Holds
  <2>2. Active(Top) \in BOOLEAN
    BY DEF Active
  <2>3. QED
    BY <2>1, <2>2, Zenon
<1>3. Continue(h)
  BY DEF Open
<1>4. Len(f.in_if_stack) = Len(f.branch_taken)
  BY <1>1 DEF FrameOK
<1> HIDE DEF f, active
<1>5. a \in Seq(BOOLEAN) /\ b \in Seq(BOOLEAN) /\ Len(a) = Len(b)
  BY <1>1, <1>2, <1>4 DEF Frames
<1>6. h = [f EXCEPT !.in_if_stack = a, !.branch_taken = b]
  BY <1>1 DEF Frames
<1> HIDE DEF h, a, b
<1>7. QED
  BY <1>1, <1>3, <1>5, <1>6, GroupsStep DEF f

LEMMA AlternativeStep ==
  ASSUME FramesOK, Others, Alternative
  PROVE  FramesOK' /\ SameFiles
<1> DEFINE f == flush_pending(Top)
           active == ParentActive(Top) /\ ~Taken(Top) /\ Holds(macros, LineOf(Top))
           last == Len(Top.in_if_stack)
           h == [f EXCEPT !.in_if_stack[last] = active, !.branch_taken[last] = @ \/ active]
           taken == f.branch_taken[last] \/ active
           a == [f.in_if_stack EXCEPT ![last] = active]
           b == [f.branch_taken EXCEPT ![last] = taken]
<1>1. FrameOK(f) /\ ~AtEnd(Top) /\ f \in Frames /\ f.in_if_stack = Top.in_if_stack
  BY FlushTop DEF Alternative, At, FrameOK
<1>2. active \in BOOLEAN
  <2>1. Holds(macros, LineOf(Top)) \in BOOLEAN
    BY DEF Holds
  <2>2. ParentActive(Top) \in BOOLEAN
    BY DEF ParentActive
  <2>3. QED
    BY <2>1, <2>2, Zenon
<1>3. taken \in BOOLEAN
  OBVIOUS
<1>4. Continue(h)
  BY DEF Alternative
<1>5. /\ Len(f.in_if_stack) = Len(f.branch_taken) /\ last = Len(f.in_if_stack)
      /\ f.in_if_stack # <<>>
  BY <1>1 DEF FrameOK, Alternative
<1>6. h = [f EXCEPT !.in_if_stack = a, !.branch_taken = b]
  BY <1>1 DEF Frames
<1> HIDE DEF f, active, last, taken, h
<1>7. f.in_if_stack \in Seq(BOOLEAN) /\ f.branch_taken \in Seq(BOOLEAN)
  BY <1>1 DEF Frames
<1>8. a \in Seq(BOOLEAN) /\ b \in Seq(BOOLEAN) /\ Len(a) = Len(b)
  BY <1>2, <1>3, <1>5, <1>7
<1> HIDE DEF a, b
<1>9. QED
  BY <1>1, <1>4, <1>6, <1>8, GroupsStep DEF f

LEMMA EndifStep ==
  ASSUME FramesOK, Others, Endif
  PROVE  FramesOK' /\ SameFiles
<1> DEFINE f == flush_pending(Top)
           h == [f EXCEPT !.in_if_stack = Front(@), !.branch_taken = Front(@)]
           a == Front(f.in_if_stack)
           b == Front(f.branch_taken)
<1>1. FrameOK(f) /\ ~AtEnd(Top) /\ f \in Frames /\ f.in_if_stack = Top.in_if_stack
  BY FlushTop DEF Endif, At, FrameOK
<1>2. Continue(h)
  BY DEF Endif
<1>3. Len(f.in_if_stack) = Len(f.branch_taken) /\ f.in_if_stack # <<>>
  BY <1>1 DEF FrameOK, Endif
<1>4. h = [f EXCEPT !.in_if_stack = a, !.branch_taken = b]
  BY <1>1 DEF Frames
<1> HIDE DEF f, h
<1>5. f.in_if_stack \in Seq(BOOLEAN) /\ f.branch_taken \in Seq(BOOLEAN)
  BY <1>1 DEF Frames
<1>6. a \in Seq(BOOLEAN) /\ b \in Seq(BOOLEAN) /\ Len(a) = Len(b)
  BY <1>3, <1>5 DEF Front
<1> HIDE DEF a, b
<1>7. QED
  BY <1>1, <1>2, <1>4, <1>6, GroupsStep DEF f

\* The innermost call fails: it is dropped, or nothing changes.
LEMMA FailStep ==
  ASSUME FramesOK, Others, Fail
  PROVE  /\ FramesOK'
         /\ SameFiles \/ (Len(frames) > 1 /\ frames' = Front(frames))
<1>1. CASE frames' = frames
  BY <1>1 DEF FramesOK, FrameOK, SameFiles, Others
<1>2. CASE Len(frames) > 1 /\ frames' = Front(frames)
  <2>1. frames \in Seq(Frames) /\ Len(frames) \in Nat
    BY DEF FramesOK
  <2>2. /\ frames' \in Seq(Frames) /\ frames' # <<>>
        /\ DOMAIN frames' = 1 .. Len(frames) - 1
        /\ \A i \in DOMAIN frames' : frames'[i] = frames[i]
    <3>1. /\ frames' \in Seq(Frames) /\ Len(frames') = Len(frames) - 1
          /\ DOMAIN frames' = 1 .. Len(frames) - 1
          /\ \A i \in 1 .. Len(frames) - 1 : frames'[i] = frames[i]
      BY <1>2, <2>1, FrontFacts
    <3>2. frames' # <<>>
      BY <1>2, <2>1, <3>1
    <3>3. QED
      BY <3>1, <3>2
  <2>3. \A i \in DOMAIN frames' : FrameOK(frames[i])'
    BY <2>1, <2>2 DEF FramesOK, FrameOK, Others
  <2>4. QED
    BY <1>2, <2>2, <2>3 DEF FramesOK, Others
<1>3. QED
  BY <1>1, <1>2 DEF Fail

\* A file is entered.
LEMMA EnterStep ==
  ASSUME FramesOK, Others, resolve_include_file
  PROVE  /\ FramesOK'
         /\ Target \in Files
         /\ Len(frames') = Len(frames) + 1
         /\ \A i \in DOMAIN frames : frames'[i].file = frames[i].file
         /\ frames'[Len(frames) + 1].file = Target
<1> DEFINE d == Len(frames)
           g == Past(flush_pending(Top))
<1>1. d \in Nat \ {0} /\ d \in DOMAIN frames /\ DOMAIN frames = 1 .. d /\ frames \in Seq(Frames)
  BY TopOK DEF FramesOK
<1>2. FrameOK(g) /\ g.file = Top.file
  <2>1. ~AtEnd(Top)
    BY DEF resolve_include_file, Including, At
  <2>2. QED
    BY <2>1, FlushTop, PastOK DEF FramesOK, Others
<1>3. Target \in Files
  <2>1. Top.file \in Files /\ LineOf(Top) \in Lines
    BY LineOK DEF resolve_include_file, Including, At
  <2>2. LineOf(Top).arg \in Paths
    BY <2>1 DEF Lines, resolve_include_file, Including, At
  <2>3. QED
    BY <2>1, <2>2, PreprocessorAssumption DEF resolve_include_file, Target
<1>4. FrameOK(Frame(Target)) /\ Frame(Target).file = Target
  BY <1>3, NewFrameOK DEF FramesOK
<1>5. g \in Frames /\ Frame(Target) \in Frames
  BY <1>2, <1>4 DEF FrameOK
<1>6. frames' = Append([frames EXCEPT ![d] = g], Frame(Target))
  BY <1>1 DEF resolve_include_file, Top
<1> HIDE DEF g
<1>7. /\ frames' \in Seq(Frames) /\ Len(frames') = d + 1 /\ DOMAIN frames' = 1 .. d + 1
      /\ \A i \in 1 .. d : frames'[i] = IF i = d THEN g ELSE frames[i]
      /\ frames'[d + 1] = Frame(Target)
  <2> DEFINE s == [frames EXCEPT ![d] = g]
  <2>1. s \in Seq(Frames) /\ Len(s) = d /\ \A i \in 1 .. d : s[i] = IF i = d THEN g ELSE frames[i]
    BY <1>1, <1>5, SetFacts
  <2>2. frames' = Append(s, Frame(Target))
    BY <1>6
  <2> HIDE DEF s, d
  <2>3. QED
    BY <1>5, <2>1, <2>2, AppendFacts
<1>8. \A i \in DOMAIN frames' : FrameOK(frames'[i])
  <2>1. ASSUME NEW i \in 1 .. d + 1 PROVE FrameOK(frames'[i])
    <3>1. CASE i = d + 1
      BY <1>4, <1>7, <3>1
    <3>2. CASE i \in 1 .. d
      BY <1>1, <1>2, <1>7, <3>2 DEF FramesOK
    <3>3. QED
      BY <1>1, <3>1, <3>2
  <2>2. QED
    BY <1>7, <2>1
<1>9. \A i \in DOMAIN frames' : FrameOK(frames[i])'
  BY <1>8 DEF FrameOK, Others
<1>10. \A i \in DOMAIN frames : frames'[i].file = frames[i].file
  BY <1>1, <1>2, <1>7 DEF Top
<1>11. frames' # <<>>
  <2>1. Len(frames') = d + 1
    BY <1>7
  <2>2. d \in Nat
    BY <1>1
  <2> HIDE DEF d
  <2>3. QED
    BY <2>1, <2>2
<1>12. QED
  BY <1>3, <1>4, <1>7, <1>9, <1>10, <1>11 DEF FramesOK, Others

\* The innermost call returns its output.
LEMMA ReturnStep ==
  ASSUME FramesOK, Others, Return
  PROVE  /\ FramesOK'
         /\ \/ SameFiles /\ Len(frames) = 1
            \/ /\ Len(frames) > 1 /\ Len(frames') = Len(frames) - 1
               /\ \A i \in DOMAIN frames' : frames'[i].file = frames[i].file
<1> DEFINE d == Len(frames)
           f == flush_pending(Top)
<1>1. d \in Nat \ {0} /\ d \in DOMAIN frames /\ DOMAIN frames = 1 .. d /\ frames \in Seq(Frames)
  BY TopOK DEF FramesOK
<1>2. FrameOK(f) /\ f.file = Top.file /\ f \in Frames
  BY TopOK, FlushOK DEF Others, FrameOK
<1>3. CASE d = 1
  <2>1. frames' = <<f>>
    BY <1>3 DEF Return
  <2> HIDE DEF f
  <2>2. frames' \in Seq(Frames) /\ Len(frames') = 1 /\ DOMAIN frames' = {1} /\ frames'[1] = f
    BY <1>2, <2>1
  <2>3. FrameOK(frames[1])'
    BY <1>2, <2>2 DEF FrameOK, Others
  <2>4. QED
    BY <1>1, <1>2, <1>3, <2>1, <2>2, <2>3 DEF FramesOK, SameFiles, Others, Top
<1>4. CASE d # 1
  <2> DEFINE p == frames[d - 1]
             r == p.result \o f.result
             e == p.expected \o f.expected
             g == [[p EXCEPT !.result = r] EXCEPT !.expected = e]
  <2>1. d - 1 \in 1 .. d /\ FrameOK(p) /\ p \in Frames
    <3>1. d - 1 \in 1 .. d
      BY <1>1, <1>4
    <3>2. FrameOK(p)
      BY <1>1, <3>1 DEF FramesOK
    <3>3. QED
      BY <3>1, <3>2 DEF FrameOK
  <2>2. r \in Seq(Output) /\ e \in Seq(Output)
    BY SMTT(30), <1>2, <2>1 DEF Frames
  <2>3. Front(frames) \in Seq(Frames) /\ Len(Front(frames)) = d - 1
        /\ DOMAIN Front(frames) = 1 .. d - 1
        /\ \A i \in 1 .. d - 1 : Front(frames)[i] = frames[i]
    <3>1. d > 1
      BY <1>1, <1>4
    <3>2. QED
      BY <1>1, <3>1, FrontFacts
  <2>4. frames' = [[Front(frames) EXCEPT ![d - 1].result = @ \o f.result]
                                  EXCEPT ![d - 1].expected = @ \o f.expected]
    BY <1>4 DEF Return
  <2> HIDE DEF f
  <2>5. p.expected = [p EXCEPT !.result = r].expected
    BY <2>1 DEF Frames
  <2>6. frames' = [Front(frames) EXCEPT ![d - 1] = g]
    BY <1>1, <2>1, <2>3, <2>4, <2>5
  <2>7. /\ g.file = p.file
        /\ g = [file |-> p.file, pos |-> p.pos, in_if_stack |-> p.in_if_stack,
                branch_taken |-> p.branch_taken, pending |-> p.pending, result |-> r,
                saw |-> p.saw, expected |-> e]
    <3>1. g = [[p EXCEPT !.result = r] EXCEPT !.expected = e]
      OBVIOUS
    <3>2. p \in Frames
      BY <2>1
    <3> HIDE DEF p, r, e, g
    <3>3. QED
      BY <3>1, <3>2 DEF Frames
  <2>8. p.in_if_stack \in Seq(BOOLEAN) /\ p.branch_taken \in Seq(BOOLEAN) /\ p.pending \in Seq(Nat)
        /\ Len(p.in_if_stack) = Len(p.branch_taken)
    BY <2>1 DEF Frames, FrameOK
  <2> HIDE DEF g, r, e, p
  <2>9. FrameOK(g) /\ g \in Frames
    <3>1. FrameOK([file |-> p.file, pos |-> p.pos, in_if_stack |-> p.in_if_stack,
                   branch_taken |-> p.branch_taken, pending |-> p.pending, result |-> r,
                   saw |-> p.saw, expected |-> e])
      BY <2>1, <2>2, <2>8, WithOK
    <3>2. QED
      BY <2>7, <3>1 DEF FrameOK
  <2>10. /\ frames' \in Seq(Frames) /\ Len(frames') = d - 1 /\ DOMAIN frames' = 1 .. d - 1
         /\ \A i \in 1 .. d - 1 : frames'[i] = IF i = d - 1 THEN g ELSE frames[i]
    <3> DEFINE s == Front(frames)
    <3>1. s \in Seq(Frames) /\ Len(s) = d - 1 /\ d - 1 \in 1 .. Len(s)
      BY <1>1, <1>4, <2>3
    <3>2. frames' = [s EXCEPT ![d - 1] = g]
      BY <2>6
    <3>3. \A i \in 1 .. d - 1 : s[i] = frames[i]
      BY <2>3
    <3> HIDE DEF s, d
    <3>4. QED
      BY <2>9, <3>1, <3>2, <3>3, SetFacts
  <2>11. \A i \in DOMAIN frames' : FrameOK(frames'[i])
    <3>1. ASSUME NEW i \in 1 .. d - 1 PROVE FrameOK(frames'[i])
      <4>1. i \in DOMAIN frames
        BY <1>1, <3>1
      <4>2. frames'[i] = IF i = d - 1 THEN g ELSE frames[i]
        BY <2>10, <3>1
      <4>3. QED
        BY <2>9, <4>1, <4>2 DEF FramesOK
    <3>2. QED
      BY <2>10, <3>1
  <2>12. \A i \in DOMAIN frames' : FrameOK(frames[i])'
    BY <2>11 DEF FrameOK, Others
  <2>13. \A i \in DOMAIN frames' : frames'[i].file = frames[i].file
    BY <2>7, <2>10 DEF p
  <2>14. frames' # <<>> /\ d > 1
    <3>1. d > 1
      BY <1>1, <1>4
    <3>2. Len(frames') = d - 1
      BY <2>10
    <3>3. Len(frames') # 0
      BY <1>1, <3>1, <3>2
    <3>4. QED
      BY <3>1, <3>3
  <2>15. FramesOK'
    BY <2>10, <2>12, <2>14 DEF FramesOK, Others
  <2>16. QED
    BY <2>10, <2>13, <2>14, <2>15
<1>5. QED
  BY <1>3, <1>4

-----------------------------------------------------------------------------
(* Type correctness.                                                       *)

\* TypeOK of the variables other than frames.
RestOK ==
  /\ setting \in Settings
  /\ include_stack \in Seq(Files \cup {RootName})
  /\ macros \in Macros
  /\ hashes \subseteq {texts[f] : f \in Files}
  /\ status \in {"running", "done", "error"}
  /\ entered \in Seq(Files)

LEMMA TypeParts == TypeOK <=> FramesOK /\ RestOK
BY DEF TypeOK, FramesOK, RestOK

\* Every action leaves the texts alone.
LEMMA TextsKept ==
  ASSUME Next
  PROVE  texts' = texts /\ setting' = setting
BY DEF Next, Text, Skip, Malformed, process_define, process_undef, Open, Alternative, Endif,
       Unopened, LeaveOut, NotFound, resolve_include_file, Return, Unterminated, Same, Fail

\* A define and an undef leave macros a macro table.
LEMMA MacrosStep ==
  ASSUME FramesOK, macros \in Macros, process_define \/ process_undef
  PROVE  macros' \in Macros
<1>1. LineOf(Top) \in Lines
  BY LineOK DEF process_define, process_undef, At
<1>2. LineOf(Top).value \in Values
  BY <1>1 DEF Lines
<1>3. QED
  BY <1>2 DEF process_define, process_undef, Macros

LEMMA InitTypes == Init => TypeOK
<1> SUFFICES ASSUME Init PROVE TypeOK
  OBVIOUS
<1>1. texts \in [Files -> Seq(Lines)] /\ Root \in Files
  BY PreprocessorAssumption DEF Init
<1>2. FrameOK(Frame(Root)) /\ Frame(Root) \in Frames
  BY <1>1, NewFrameOK DEF FrameOK
<1>3. FramesOK
  <2>1. frames = <<Frame(Root)>>
    BY DEF Init
  <2>2. frames \in Seq(Frames) /\ frames # <<>> /\ DOMAIN frames = {1} /\ frames[1] = Frame(Root)
    BY <1>2, <2>1
  <2>3. QED
    BY <1>1, <1>2, <2>2 DEF FramesOK
<1>4. RestOK
  BY DEF Init, RestOK, Macros
<1>5. QED
  BY <1>3, <1>4, TypeParts

LEMMA StepTypes == TypeOK /\ [Next]_vars => TypeOK'
<1> SUFFICES ASSUME TypeOK, [Next]_vars PROVE TypeOK'
  OBVIOUS
<1>1. FramesOK /\ RestOK
  BY TypeParts
<1>2. SUFFICES FramesOK' /\ RestOK'
  BY TypeParts DEF TypeOK, FramesOK, RestOK
<1>3. ASSUME UNCHANGED vars PROVE FramesOK' /\ RestOK'
  BY <1>1, <1>3 DEF vars, FramesOK, RestOK, FrameOK
<1>4. ASSUME Next PROVE Others
  BY <1>1, <1>4, TextsKept DEF RestOK, Others
<1>5. ASSUME Same PROVE RestOK'
  BY <1>1, <1>5 DEF Same, RestOK
<1>6. ASSUME Others, Fail PROVE FramesOK' /\ RestOK'
  <2>1. FramesOK'
    BY <1>1, <1>6, FailStep
  <2>2. RestOK'
    BY <1>1, <1>6 DEF Fail, RestOK
  <2>3. QED
    BY <2>1, <2>2
<1>7. CASE Text
  BY <1>1, <1>4, <1>5, <1>7, TextStep DEF Next, Text
<1>8. CASE Skip
  BY <1>1, <1>4, <1>5, <1>8, FlushStep DEF Next, Skip, At
<1>9. CASE Malformed
  BY <1>4, <1>6, <1>9 DEF Next, Malformed
<1>10. CASE process_define
  <2>1. FramesOK'
    BY <1>1, <1>4, <1>10, FlushStep DEF Next, process_define, At
  <2>2. macros' \in Macros
    BY <1>1, <1>10, MacrosStep DEF RestOK
  <2>3. QED
    BY <1>1, <1>10, <2>1, <2>2 DEF process_define, RestOK
<1>11. CASE process_undef
  <2>1. FramesOK'
    BY <1>1, <1>4, <1>11, FlushStep DEF Next, process_undef, At
  <2>2. macros' \in Macros
    BY <1>1, <1>11, MacrosStep DEF RestOK
  <2>3. QED
    BY <1>1, <1>11, <2>1, <2>2 DEF process_undef, RestOK
<1>12. CASE Open
  BY <1>1, <1>4, <1>5, <1>12, OpenStep DEF Next, Open
<1>13. CASE Alternative
  BY <1>1, <1>4, <1>5, <1>13, AlternativeStep DEF Next, Alternative
<1>14. CASE Endif
  BY <1>1, <1>4, <1>5, <1>14, EndifStep DEF Next, Endif
<1>15. CASE Unopened
  BY <1>4, <1>6, <1>15 DEF Next, Unopened
<1>16. CASE LeaveOut
  BY <1>1, <1>4, <1>5, <1>16, FlushStep DEF Next, LeaveOut, Including, At
<1>17. CASE NotFound
  <2>1. CASE Continue(flush_pending(Top)) /\ Same
    BY <1>1, <1>4, <1>5, <1>17, <2>1, FlushStep DEF Next, NotFound, Including, At
  <2>2. CASE Fail
    BY <1>4, <1>6, <1>17, <2>2 DEF Next
  <2>3. QED
    BY <1>17, <2>1, <2>2 DEF NotFound
<1>18. CASE resolve_include_file
  <2>1. FramesOK' /\ Target \in Files
    BY <1>1, <1>4, <1>18, EnterStep DEF Next
  <2>2. include_stack' \in Seq(Files \cup {RootName}) /\ entered' \in Seq(Files)
    BY <1>1, <1>18, <2>1 DEF resolve_include_file, RestOK
  <2>3. hashes' \subseteq {texts[f] : f \in Files}'
    BY <1>1, <1>18, <2>1 DEF resolve_include_file, RestOK
  <2>4. QED
    BY <1>1, <1>18, <2>1, <2>2, <2>3 DEF resolve_include_file, RestOK
<1>19. CASE Return
  <2>1. FramesOK'
    BY <1>1, <1>4, <1>19, ReturnStep DEF Next
  <2>2. include_stack' \in Seq(Files \cup {RootName})
    <3>1. include_stack \in Seq(Files \cup {RootName}) /\ Len(include_stack) \in Nat
      BY <1>1 DEF RestOK
    <3>2. Front(include_stack) \in Seq(Files \cup {RootName})
      BY <3>1 DEF Front
    <3>3. QED
      BY <1>19, <3>2 DEF Return
  <2>3. QED
    BY <1>1, <1>19, <2>1, <2>2 DEF Return, RestOK
<1>20. CASE Unterminated
  BY <1>4, <1>6, <1>20 DEF Next, Unterminated
<1>21. QED
  BY <1>3, <1>7, <1>8, <1>9, <1>10, <1>11, <1>12, <1>13, <1>14, <1>15, <1>16, <1>17, <1>18,
     <1>19, <1>20 DEF Next

\* The variables stay what they are declared as, whatever the files hold: the groups
\* and the memory of their conditionals grow and shrink together, and no call reads
\* past the end of its file (resolve_includes).
THEOREM PreprocessorTypeCorrect == Spec => []TypeOK
BY InitTypes, StepTypes, PTL DEF Spec

-----------------------------------------------------------------------------
(* Files are not included again.                                           *)

\* The files of the calls are on include_stack, each at least as deep as its call is:
\* a name that a failed call has left there never takes the place of a call's own.
OpenOnStack ==
  \A i \in 2 .. Len(frames) :
    \E p \in 1 .. Len(include_stack) - (Len(frames) - i) : include_stack[p] = frames[i].file

\* The texts of the files that were included are in the database.
Remembered ==
  setting.db_works => \A i \in DOMAIN entered : texts[entered[i]] \in hashes

SafetyInv == OpenOnStack /\ NeverReentered /\ Remembered /\ OncePerText

\* A step that includes nothing.
NoEntry ==
  /\ UNCHANGED <<texts, setting, hashes, entered>>
  /\ \/ SameFiles /\ include_stack' = include_stack
     \/ Len(frames) = 1 /\ SameFiles
     \/ /\ Len(frames) > 1 /\ Len(frames') = Len(frames) - 1
        /\ \A i \in DOMAIN frames' : frames'[i].file = frames[i].file
        /\ include_stack' \in {include_stack, Front(include_stack)}

LEMMA NoEntrySafe ==
  ASSUME TypeOK, SafetyInv, NoEntry, TypeOK'
  PROVE  SafetyInv'
<1> DEFINE n == Len(frames)
           k == Len(include_stack)
<1>1. /\ n \in Nat \ {0} /\ DOMAIN frames = 1 .. n /\ k \in Nat
      /\ include_stack \in Seq(Files \cup {RootName})
      /\ Len(frames') \in Nat \ {0} /\ DOMAIN frames' = 1 .. Len(frames')
  BY DEF TypeOK
<1>2. Remembered' /\ OncePerText'
  BY DEF NoEntry, SafetyInv, Remembered, OncePerText
<1>3. CASE SameFiles /\ include_stack' = include_stack
  <2>1. /\ Len(frames') = n /\ DOMAIN frames' = 1 .. n /\ Len(include_stack') = k
        /\ \A i \in 1 .. n : frames'[i].file = frames[i].file
    BY <1>1, <1>3 DEF SameFiles
  <2>2. NeverReentered'
    BY <1>1, <2>1 DEF SafetyInv, NeverReentered
  <2>3. OpenOnStack'
    <3>1. ASSUME NEW i \in 2 .. n
          PROVE  \E p \in 1 .. k - (n - i) : include_stack'[p] = frames'[i].file
      BY <1>1, <1>3, <2>1 DEF SafetyInv, OpenOnStack
    <3>2. QED
      BY <2>1, <3>1 DEF OpenOnStack
  <2>4. QED
    BY <1>2, <2>2, <2>3 DEF SafetyInv
<1>4. CASE n = 1 /\ SameFiles
  BY <1>1, <1>2, <1>4 DEF SafetyInv, SameFiles, OpenOnStack, NeverReentered
<1>5. CASE /\ n > 1 /\ Len(frames') = n - 1
           /\ \A i \in DOMAIN frames' : frames'[i].file = frames[i].file
           /\ include_stack' \in {include_stack, Front(include_stack)}
  <2>1. NeverReentered'
    BY <1>1, <1>5 DEF SafetyInv, NeverReentered
  <2>2. ASSUME NEW i \in 2 .. n - 1
        PROVE  \E p \in 1 .. Len(include_stack') - (n - 1 - i) : include_stack'[p] = frames'[i].file
    <3> i \in 2 .. n
      BY <1>1, <2>2
    <3>1. PICK p \in 1 .. k - (n - i) : include_stack[p] = frames[i].file
      BY DEF SafetyInv, OpenOnStack
    <3>2. p \in Nat /\ p <= k - (n - i) /\ p >= 1 /\ n - i >= 1 /\ i \in Nat
      BY <1>1, <2>2, <3>1
    <3>3. p <= k - 1
      BY <1>1, <3>2
    <3>4. frames'[i].file = frames[i].file
      BY <1>1, <1>5, <2>2
    <3>5. CASE include_stack' = include_stack
      BY <1>1, <3>1, <3>2, <3>4, <3>5
    <3>6. CASE include_stack' = Front(include_stack)
      <4>1. k > 1 \/ k = 1
        BY <1>1, <3>2, <3>3
      <4>2. k > 1
        BY <1>1, <3>2, <3>3, <4>1
      <4>3. Len(include_stack') = k - 1 /\ \A q \in 1 .. k - 1 : include_stack'[q] = include_stack[q]
        BY <1>1, <3>6, <4>2, FrontFacts
      <4>4. include_stack'[p] = frames'[i].file
        BY <1>1, <3>1, <3>2, <3>3, <3>4, <4>3
      <4>5. p \in 1 .. Len(include_stack') - (n - 1 - i)
        BY <1>1, <3>2, <4>3
      <4>6. QED
        BY <4>4, <4>5
    <3>7. QED
      BY <1>5, <3>5, <3>6
  <2>3. OpenOnStack'
    BY <1>1, <1>5, <2>2 DEF OpenOnStack
  <2>4. QED
    BY <1>2, <2>1, <2>3 DEF SafetyInv
<1>6. QED
  BY <1>3, <1>4, <1>5 DEF NoEntry

LEMMA EntrySafe ==
  ASSUME TypeOK, SafetyInv, Others, resolve_include_file
  PROVE  SafetyInv'
<1> DEFINE n == Len(frames)
           k == Len(include_stack)
           e == Len(entered)
<1>1. FramesOK
  BY TypeParts
<1>2. /\ n \in Nat \ {0} /\ DOMAIN frames = 1 .. n /\ k \in Nat /\ e \in Nat
      /\ include_stack \in Seq(Files \cup {RootName}) /\ entered \in Seq(Files)
      /\ DOMAIN entered = 1 .. e
  BY <1>1, TopOK DEF TypeOK
<1>3. /\ Target \in Files /\ Len(frames') = n + 1
      /\ \A i \in 1 .. n : frames'[i].file = frames[i].file
      /\ frames'[n + 1].file = Target
  BY <1>1, <1>2, EnterStep
<1>4. /\ Len(include_stack') = k + 1
      /\ \A p \in 1 .. k : include_stack'[p] = include_stack[p]
      /\ include_stack'[k + 1] = Target
  <2>1. Target \in Files \cup {RootName} /\ include_stack' = Append(include_stack, Target)
    BY <1>3 DEF resolve_include_file
  <2> HIDE DEF n
  <2>2. QED
    BY <1>2, <2>1, AppendFacts
<1>5. \A p \in 1 .. k : include_stack[p] # Target
  BY <1>2 DEF resolve_include_file, Left, OnStack, Elements
<1>6. \A i \in 2 .. n : frames[i].file # Target
  <2>1. ASSUME NEW i \in 2 .. n PROVE frames[i].file # Target
    <3>1. PICK p \in 1 .. k - (n - i) : include_stack[p] = frames[i].file
      BY <1>2 DEF SafetyInv, OpenOnStack
    <3>2. p \in 1 .. k
      BY <1>2, <3>1
    <3>3. QED
      BY <1>5, <3>1, <3>2
  <2>2. QED
    BY <2>1
<1>7. NeverReentered'
  <2>1. DOMAIN frames' = 1 .. n + 1
    BY <1>1, <1>2, <1>3, EnterStep DEF FramesOK
  <2>2. SUFFICES ASSUME NEW i \in 1 .. n + 1, NEW j \in 1 .. n + 1, 1 < i, i < j
                 PROVE  frames'[i].file # frames'[j].file
    BY <2>1 DEF NeverReentered
  <2>3. i \in 2 .. n
    BY <1>2, <2>2
  <2>4. frames'[i].file = frames[i].file
    BY <1>2, <1>3, <2>3
  <2>5. CASE j = n + 1
    BY <1>3, <1>6, <2>3, <2>4, <2>5
  <2>6. CASE j \in 1 .. n
    <3>1. frames'[j].file = frames[j].file
      BY <1>3, <2>6
    <3>2. frames[i].file # frames[j].file
      BY <1>2, <2>2, <2>3, <2>6 DEF SafetyInv, NeverReentered
    <3>3. QED
      BY <2>4, <3>1, <3>2
  <2>7. QED
    BY <1>2, <2>5, <2>6
<1>8. OpenOnStack'
  <2>1. ASSUME NEW i \in 2 .. n + 1
        PROVE  \E p \in 1 .. k + 1 - (n + 1 - i) : include_stack'[p] = frames'[i].file
    <3>1. CASE i = n + 1
      <4>1. k + 1 \in 1 .. k + 1 - (n + 1 - i)
        BY <1>2, <3>1
      <4>2. QED
        BY <1>3, <1>4, <3>1, <4>1
    <3>2. CASE i \in 2 .. n
      <4>1. PICK p \in 1 .. k - (n - i) : include_stack[p] = frames[i].file
        BY <1>2, <3>2 DEF SafetyInv, OpenOnStack
      <4>2. p \in 1 .. k /\ p \in 1 .. k + 1 - (n + 1 - i)
        BY <1>2, <3>2, <4>1
      <4>3. include_stack'[p] = include_stack[p] /\ frames'[i].file = frames[i].file
        BY <1>2, <1>3, <1>4, <3>2, <4>2
      <4>4. QED
        BY <4>1, <4>2, <4>3
    <3>3. QED
      BY <1>2, <2>1, <3>1, <3>2
  <2>2. Len(frames') = n + 1 /\ Len(include_stack') = k + 1 /\ n \in Nat /\ k \in Nat
    BY <1>2, <1>3, <1>4
  <2>3. \A i \in 2 .. n + 1 :
          \E p \in 1 .. k + 1 - (n + 1 - i) : include_stack'[p] = frames'[i].file
    BY <2>1
  <2> HIDE DEF n, k
  <2>4. QED
    BY <2>2, <2>3 DEF OpenOnStack
<1>9. /\ Len(entered') = e + 1 /\ DOMAIN entered' = 1 .. e + 1
      /\ \A i \in 1 .. e : entered'[i] = entered[i]
      /\ entered'[e + 1] = Target
  <2>1. Target \in Files /\ entered' = Append(entered, Target)
    BY <1>3 DEF resolve_include_file
  <2> HIDE DEF n, k
  <2>2. QED
    BY <1>2, <2>1, AppendFacts
<1>10. /\ setting' = setting
       /\ setting.db_works => texts[Target] \notin hashes /\ hashes' = hashes \cup {texts[Target]}
  BY DEF resolve_include_file, Left
<1>11. Remembered'
  <2>1. ASSUME setting.db_works, NEW i \in 1 .. e + 1 PROVE texts[entered'[i]] \in hashes'
    <3>1. CASE i = e + 1
      BY <1>9, <1>10, <2>1, <3>1
    <3>2. CASE i \in 1 .. e
      BY <1>2, <1>9, <1>10, <2>1, <3>2 DEF SafetyInv, Remembered
    <3>3. QED
      BY <1>2, <3>1, <3>2
  <2>2. QED
    BY <1>9, <1>10, <2>1 DEF Remembered, Others
<1>12. OncePerText'
  <2>1. SUFFICES ASSUME setting.db_works, NEW i \in 1 .. e + 1, NEW j \in 1 .. e + 1, i < j
                 PROVE  texts[entered'[i]] # texts[entered'[j]]
    <3>1. ASSUME setting.db_works, NEW i \in 1 .. e + 1, NEW j \in 1 .. e + 1, i # j,
                 \A a, b \in 1 .. e + 1 : a < b => texts[entered'[a]] # texts[entered'[b]]
          PROVE  texts[entered'[i]] # texts[entered'[j]]
      BY <1>2, <3>1
    <3>2. QED
      BY <1>9, <1>10, <3>1 DEF OncePerText, Others
  <2>2. i \in 1 .. e /\ texts[entered'[i]] \in hashes
    BY <1>2, <1>9, <2>1 DEF SafetyInv, Remembered
  <2>3. CASE j = e + 1
    BY <1>9, <1>10, <2>1, <2>2, <2>3
  <2>4. CASE j \in 1 .. e
    BY <1>2, <1>9, <2>1, <2>2, <2>4 DEF SafetyInv, OncePerText
  <2>5. QED
    BY <1>2, <2>3, <2>4
<1>13. QED
  BY <1>7, <1>8, <1>11, <1>12 DEF SafetyInv

LEMMA StepSafe == TypeOK /\ SafetyInv /\ [Next]_vars => SafetyInv'
<1> SUFFICES ASSUME TypeOK, SafetyInv, [Next]_vars PROVE SafetyInv'
  OBVIOUS
<1>1. FramesOK /\ RestOK /\ TypeOK'
  BY TypeParts, StepTypes
<1>2. CASE UNCHANGED vars
  BY <1>2 DEF vars, SafetyInv, OpenOnStack, NeverReentered, Remembered, OncePerText
<1>3. ASSUME Next PROVE Others /\ setting' = setting
  BY <1>1, <1>3, TextsKept DEF RestOK, Others
<1>4. ASSUME Others, setting' = setting, SameFiles, UNCHANGED <<include_stack, hashes, entered>>
      PROVE  SafetyInv'
  BY <1>1, <1>4, NoEntrySafe DEF NoEntry, Others
<1>5. ASSUME Others, setting' = setting, Fail PROVE SafetyInv'
  <2>1. UNCHANGED <<include_stack, hashes, entered>>
    BY <1>5 DEF Fail
  <2>2. CASE SameFiles
    BY <1>4, <1>5, <2>1, <2>2
  <2>3. CASE Len(frames) > 1 /\ frames' = Front(frames)
    <3>1. /\ Len(frames') = Len(frames) - 1
          /\ \A i \in DOMAIN frames' : frames'[i].file = frames[i].file
      BY <1>1, <2>3, FrontFacts DEF FramesOK
    <3>2. NoEntry
      BY <1>5, <2>1, <2>3, <3>1 DEF NoEntry, Others
    <3>3. QED
      BY <1>1, <3>2, NoEntrySafe
  <2>4. QED
    BY <1>1, <1>5, <2>2, <2>3, FailStep
<1>6. CASE Text
  BY <1>1, <1>3, <1>4, <1>6, TextStep DEF Next, Text, Same
<1>7. CASE Skip
  BY <1>1, <1>3, <1>4, <1>7, FlushStep DEF Next, Skip, At, Same
<1>8. CASE process_define \/ process_undef
  BY <1>1, <1>3, <1>4, <1>8, FlushStep DEF Next, process_define, process_undef, At
<1>9. CASE Open
  BY <1>1, <1>3, <1>4, <1>9, OpenStep DEF Next, Open, Same
<1>10. CASE Alternative
  BY <1>1, <1>3, <1>4, <1>10, AlternativeStep DEF Next, Alternative, Same
<1>11. CASE Endif
  BY <1>1, <1>3, <1>4, <1>11, EndifStep DEF Next, Endif, Same
<1>12. CASE LeaveOut
  BY <1>1, <1>3, <1>4, <1>12, FlushStep DEF Next, LeaveOut, Including, At, Same
<1>13. CASE NotFound
  <2>1. CASE Continue(flush_pending(Top)) /\ Same
    BY <1>1, <1>3, <1>4, <1>13, <2>1, FlushStep DEF Next, NotFound, Including, At, Same
  <2>2. CASE Fail
    BY <1>3, <1>5, <1>13, <2>2 DEF Next
  <2>3. QED
    BY <1>13, <2>1, <2>2 DEF NotFound
<1>14. CASE Malformed \/ Unopened \/ Unterminated
  BY <1>3, <1>5, <1>14 DEF Next, Malformed, Unopened, Unterminated
<1>15. CASE resolve_include_file
  BY <1>3, <1>15, EntrySafe DEF Next
<1>16. CASE Return
  <2>1. /\ include_stack' = Front(include_stack)
        /\ UNCHANGED <<texts, setting, hashes, entered>>
    BY <1>16 DEF Return
  <2>2. \/ SameFiles /\ Len(frames) = 1
        \/ /\ Len(frames) > 1 /\ Len(frames') = Len(frames) - 1
           /\ \A i \in DOMAIN frames' : frames'[i].file = frames[i].file
    BY <1>1, <1>3, <1>16, ReturnStep DEF Next
  <2>3. NoEntry
    BY <2>1, <2>2 DEF NoEntry
  <2>4. QED
    BY <1>1, <2>3, NoEntrySafe
<1>17. QED
  BY <1>2, <1>6, <1>7, <1>8, <1>9, <1>10, <1>11, <1>12, <1>13, <1>14, <1>15, <1>16 DEF Next

LEMMA InitSafe == Init => SafetyInv
<1> SUFFICES ASSUME Init PROVE SafetyInv
  OBVIOUS
<1>1. Len(frames) = 1 /\ DOMAIN frames = {1} /\ DOMAIN entered = {}
  BY DEF Init
<1>2. QED
  BY <1>1 DEF SafetyInv, OpenOnStack, NeverReentered, Remembered, OncePerText

LEMMA AlwaysSafe == Spec => []SafetyInv
BY InitTypes, StepTypes, InitSafe, StepSafe, PTL DEF Spec

\* For every set of files, whatever they include and whether or not the database works,
\* no file is included while it is being included (the check of include_stack in
\* resolve_include_file, which a call that fails leaves without its pop).
THEOREM PreprocessorNeverReentered == Spec => []NeverReentered
<1>1. SafetyInv => NeverReentered
  BY DEF SafetyInv
<1>2. QED
  BY <1>1, AlwaysSafe, PTL

\* With a database that works, no text is included a second time, however its file is
\* named and wherever it was included before (is_content_processed and
\* insert_content_hash of resolve_include_file).
THEOREM PreprocessorOncePerText == Spec => []OncePerText
<1>1. SafetyInv => OncePerText
  BY DEF SafetyInv
<1>2. QED
  BY <1>1, AlwaysSafe, PTL
=============================================================================
