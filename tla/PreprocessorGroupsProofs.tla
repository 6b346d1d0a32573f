---------------------- MODULE PreprocessorGroupsProofs ----------------------
(***************************************************************************)
(* What is read of a file: the stacks of resolve_includes against the      *)
(* nesting of the groups in its text.                                      *)
(***************************************************************************)
EXTENDS PreprocessorProofs, FiniteSetTheorems

-----------------------------------------------------------------------------
(* Texts.                                                                  *)

Alternatives == {"elif", "else"}

\* How a line changes the number of open conditionals.
Turn(l) == IF l.op \in Openers THEN 1 ELSE IF l.op = "endif" THEN -1 ELSE 0

LEMMA TurnParts ==
  ASSUME NEW l
  PROVE  Turn(l) = (IF l.op \in Heads THEN 1 ELSE 0)
                     - (IF l.op \in Alternatives \cup {"endif"} THEN 1 ELSE 0)
BY DEF Turn, Heads, Alternatives, Openers

LEMMA DepthStart ==
  ASSUME NEW t \in Seq(Lines)
  PROVE  Depth(t, 0) = 0
<1>1. {l \in 1 .. 0 : t[l].op \in Openers} = {} /\ {l \in 1 .. 0 : t[l].op = "endif"} = {}
  OBVIOUS
<1>2. QED
  BY <1>1, FS_EmptySet DEF Depth

\* The lines up to a place that are of some kind can be counted, and the next line adds
\* one or none.
LEMMA CountStep ==
  ASSUME NEW K, NEW p \in Nat \ {0}
  PROVE  /\ Cardinality({l \in 1 .. p - 1 : l \in K}) \in Nat
         /\ Cardinality({l \in 1 .. p : l \in K})
              = Cardinality({l \in 1 .. p - 1 : l \in K}) + (IF p \in K THEN 1 ELSE 0)
<1> DEFINE S == {l \in 1 .. p - 1 : l \in K}
           T == {l \in 1 .. p : l \in K}
<1>1. IsFiniteSet(S)
  <2>1. IsFiniteSet(1 .. p - 1)
    BY FS_Interval
  <2>2. QED
    BY <2>1, FS_Subset
<1>2. Cardinality(S) \in Nat
  BY <1>1, FS_CardinalityType
<1>3. ASSUME p \in K PROVE Cardinality(T) = Cardinality(S) + 1
  <2>1. T = S \cup {p} /\ p \notin S
    BY <1>3
  <2> HIDE DEF S, T
  <2>2. QED
    BY <1>1, <1>2, <2>1, FS_AddElement
<1>4. ASSUME p \notin K PROVE T = S
  BY <1>4
<1> HIDE DEF S, T
<1>5. Cardinality(T) = Cardinality(S) + (IF p \in K THEN 1 ELSE 0)
  BY <1>2, <1>3, <1>4
<1>6. QED
  BY <1>2, <1>5 DEF S, T

LEMMA DepthStep ==
  ASSUME NEW t \in Seq(Lines), NEW p \in 1 .. Len(t)
  PROVE  /\ Depth(t, p - 1) \in Int
         /\ Depth(t, p) \in Int
         /\ Depth(t, p) = Depth(t, p - 1) + Turn(t[p])
<1> DEFINE K(n) == {l \in 1 .. n : t[l].op \in Openers}
           E(n) == {l \in 1 .. n : t[l].op = "endif"}
           A == {l \in 1 .. p : t[l].op \in Openers}
           B == {l \in 1 .. p : t[l].op = "endif"}
<1>1. p \in Nat \ {0}
  OBVIOUS
<1>2. /\ K(p) = {l \in 1 .. p : l \in A} /\ K(p - 1) = {l \in 1 .. p - 1 : l \in A}
      /\ E(p) = {l \in 1 .. p : l \in B} /\ E(p - 1) = {l \in 1 .. p - 1 : l \in B}
      /\ p \in A <=> t[p].op \in Openers
      /\ p \in B <=> t[p].op = "endif"
  BY <1>1
<1>3. /\ Depth(t, p) = Cardinality(K(p)) - Cardinality(E(p))
      /\ Depth(t, p - 1) = Cardinality(K(p - 1)) - Cardinality(E(p - 1))
  BY DEF Depth
<1> HIDE DEF K, E, A, B
<1>4. /\ Cardinality(K(p - 1)) \in Nat
      /\ Cardinality(K(p)) = Cardinality(K(p - 1)) + (IF p \in A THEN 1 ELSE 0)
  BY <1>1, <1>2, CountStep
<1>5. /\ Cardinality(E(p - 1)) \in Nat
      /\ Cardinality(E(p)) = Cardinality(E(p - 1)) + (IF p \in B THEN 1 ELSE 0)
  BY <1>1, <1>2, CountStep
<1>6. ~(t[p].op \in Openers /\ t[p].op = "endif")
  BY DEF Openers
<1>7. QED
  BY <1>2, <1>3, <1>4, <1>5, <1>6 DEF Turn

LEMMA DepthType ==
  ASSUME NEW t \in Seq(Lines), NEW p \in 0 .. Len(t)
  PROVE  Depth(t, p) \in Int
<1>1. CASE p = 0
  BY <1>1, DepthStart
<1>2. CASE p \in 1 .. Len(t)
  BY <1>2, DepthStep
<1>3. QED
  BY <1>1, <1>2

\* The groups of the next line: those of this line that it does not end, and its own.
LEMMA GroupNext ==
  ASSUME NEW t \in Seq(Lines), NEW p \in 1 .. Len(t), NEW g \in 1 .. p
  PROVE  InGroup(t, g, p + 1) <=>
           \/ g = p /\ t[p].op \in Heads
           \/ /\ InGroup(t, g, p)
              /\ Depth(t, g) <= Depth(t, p)
              /\ t[p].op \in Alternatives => Depth(t, g) < Depth(t, p)
<1>1. Depth(t, g) \in Int /\ Depth(t, p) \in Int
  BY DepthType
<1>2. \A l \in 1 .. p : Depth(t, l) \in Int
  BY DepthType
<1>3. CASE g = p
  <2>1. g + 1 .. p + 1 - 1 = {} /\ ~InGroup(t, g, p)
    BY <1>3 DEF InGroup
  <2>2. QED
    BY <1>3, <2>1 DEF InGroup
<1>4. CASE g < p
  <2> DEFINE Inside(l) == /\ Depth(t, l) >= Depth(t, g)
                          /\ t[l].op \in {"elif", "else"} => Depth(t, l) > Depth(t, g)
  <2>1. g + 1 .. p + 1 - 1 = (g + 1 .. p - 1) \cup {p}
    BY <1>4
  <2>2. InGroup(t, g, p + 1) <=> t[g].op \in Heads /\ \A l \in (g + 1 .. p - 1) \cup {p} : Inside(l)
    BY <1>4, <2>1 DEF InGroup
  <2>3. InGroup(t, g, p) <=> t[g].op \in Heads /\ \A l \in g + 1 .. p - 1 : Inside(l)
    BY <1>4 DEF InGroup
  <2>4. Inside(p) <=> /\ Depth(t, g) <= Depth(t, p)
                      /\ t[p].op \in Alternatives => Depth(t, g) < Depth(t, p)
    BY <1>1 DEF Alternatives
  <2> HIDE DEF Inside
  <2>5. QED
    BY <1>4, <2>2, <2>3, <2>4
<1>5. QED
  BY <1>3, <1>4

\* An opener is the first head of its conditional.
LEMMA OpenerFirst ==
  ASSUME NEW t \in Seq(Lines), NEW p \in 1 .. Len(t), t[p].op \in Openers, NEW h \in 1 .. p - 1
  PROVE  ~EarlierGroup(t, h, p)
<1>1. Depth(t, p) = Depth(t, p - 1) + 1 /\ Depth(t, p - 1) \in Int
  BY DepthStep DEF Turn
<1>2. CASE h = p - 1
  BY <1>1, <1>2 DEF EarlierGroup
<1>3. CASE h < p - 1
  <2>1. p - 1 \in h + 1 .. p - 1
    BY <1>3
  <2>2. QED
    BY <1>1, <2>1 DEF EarlierGroup
<1>4. QED
  BY <1>2, <1>3

\* The earlier groups of an #elif or #else are the one it ends and those before that.
LEMMA AlternativeEarlier ==
  ASSUME NEW t \in Seq(Lines), NEW p \in 1 .. Len(t), NEW c \in 1 .. p - 1,
         InGroup(t, c, p), Depth(t, c) = Depth(t, p), NEW h \in 1 .. p - 1
  PROVE  EarlierGroup(t, h, p) <=> h = c \/ EarlierGroup(t, h, c)
<1>1. \A l \in 0 .. p : Depth(t, l) \in Int
  BY DepthType
<1>2. ASSUME h = c PROVE EarlierGroup(t, h, p)
  BY <1>1, <1>2 DEF InGroup, EarlierGroup
<1>3. ASSUME EarlierGroup(t, h, c) PROVE EarlierGroup(t, h, p)
  <2>1. h < c /\ t[h].op \in Heads /\ Depth(t, h) = Depth(t, p)
    BY <1>3 DEF EarlierGroup
  <2>2. ASSUME NEW l \in h + 1 .. p - 1 PROVE Depth(t, l) >= Depth(t, p)
    <3>1. l \in h + 1 .. c - 1 \/ l = c \/ l \in c + 1 .. p - 1
      OBVIOUS
    <3>2. QED
      BY <1>1, <1>3, <3>1 DEF EarlierGroup, InGroup
  <2>3. QED
    BY <2>1, <2>2 DEF EarlierGroup
<1>4. ASSUME EarlierGroup(t, h, p), h < c PROVE EarlierGroup(t, h, c)
  BY <1>1, <1>4 DEF EarlierGroup
<1>5. ASSUME EarlierGroup(t, h, p), h > c PROVE FALSE
  <2>1. h \in c + 1 .. p - 1 /\ Depth(t, h) = Depth(t, c) /\ t[h].op \in Heads
    BY <1>5 DEF EarlierGroup
  <2>2. t[h].op \notin Alternatives
    BY <1>1, <2>1 DEF InGroup, Alternatives
  <2>3. t[h].op \in Openers
    BY <2>1, <2>2 DEF Heads, Alternatives
  <2>4. Depth(t, h) = Depth(t, h - 1) + 1
    <3>1. h \in 1 .. Len(t)
      OBVIOUS
    <3>2. Turn(t[h]) = 1
      BY <2>3 DEF Turn
    <3>3. QED
      BY <3>1, <3>2, DepthStep
  <2>5. h - 1 = c \/ h - 1 \in c + 1 .. p - 1
    BY <2>1
  <2>6. Depth(t, h - 1) \in Int /\ Depth(t, c) \in Int
    BY <1>1
  <2>7. QED
    BY <2>1, <2>4, <2>5, <2>6 DEF InGroup
<1>6. QED
  BY <1>2, <1>3, <1>4, <1>5

-----------------------------------------------------------------------------
(* The stacks of a call say how its next line is nested.                   *)

\* The groups that the next line of f is in, and how deep each is.
OpenGroups(f) == {g \in 1 .. f.pos - 1 : InGroup(texts[f.file], g, f.pos)}
Level(f, g) == Depth(texts[f.file], g)

\* There is one for each level of the stack.
Nested(f) ==
  /\ Depth(texts[f.file], f.pos - 1) = Len(f.in_if_stack)
  /\ \A g \in OpenGroups(f) : Level(f, g) \in 1 .. Len(f.in_if_stack)
  /\ \A k \in 1 .. Len(f.in_if_stack) : \E g \in OpenGroups(f) : Level(f, g) = k
  /\ \A g, h \in OpenGroups(f) : Level(f, g) = Level(f, h) => g = h

ChosenTo(f, k) == \A g \in OpenGroups(f) : Level(f, g) <= k => Chosen(f, g)

\* Did the head of g hold, or of an earlier group of its conditional?
SomeHeld(f, g) ==
  \E h \in 1 .. g : /\ h = g \/ EarlierGroup(texts[f.file], h, g)
                    /\ Holds(f.saw[h], texts[f.file][h])

\* An entry of in_if_stack is for its group and all around it; one of branch_taken says
\* that its conditional has had its group, or is itself left out.
Remembers(f) ==
  \A g \in OpenGroups(f) :
    /\ f.in_if_stack[Level(f, g)] <=> ChosenTo(f, Level(f, g))
    /\ f.branch_taken[Level(f, g)] <=> ChosenTo(f, Level(f, g) - 1) /\ SomeHeld(f, g)

GroupsOK(f) == Nested(f) /\ Remembers(f)

LEMMA FrameText ==
  ASSUME NEW f, FrameOK(f), texts \in [Files -> Seq(Lines)]
  PROVE  /\ texts[f.file] \in Seq(Lines)
         /\ Len(texts[f.file]) \in Nat
         /\ f.pos \in Nat \ {0} /\ f.pos - 1 \in 0 .. Len(texts[f.file])
         /\ Len(f.in_if_stack) \in Nat /\ Len(f.branch_taken) = Len(f.in_if_stack)
         /\ f.in_if_stack \in Seq(BOOLEAN) /\ f.branch_taken \in Seq(BOOLEAN)
         /\ DOMAIN f.in_if_stack = 1 .. Len(f.in_if_stack)
         /\ Len(f.saw) = f.pos - 1 /\ f.saw \in Seq(Macros)
         /\ \A g \in 0 .. f.pos - 1 : Level(f, g) \in Int
<1>1. f \in Frames
  BY DEF FrameOK
<1>2. f.file \in Files /\ texts[f.file] \in Seq(Lines) /\ f.pos \in Nat
  BY <1>1 DEF Frames
<1>3. Len(texts[f.file]) \in Nat
  BY <1>2
<1>4. f.pos - 1 \in 0 .. Len(texts[f.file]) /\ f.pos \in Nat \ {0}
  BY <1>2, <1>3 DEF FrameOK
<1>5. \A g \in 0 .. f.pos - 1 : Level(f, g) \in Int
  BY <1>2, <1>3, <1>4, DepthType DEF Level
<1>6. f.in_if_stack \in Seq(BOOLEAN) /\ f.branch_taken \in Seq(BOOLEAN) /\ f.saw \in Seq(Macros)
  BY <1>1 DEF Frames
<1>7. QED
  BY <1>2, <1>3, <1>4, <1>5, <1>6 DEF FrameOK

\* The entries up to a level are all true exactly if all groups up to it are read.
LEMMA StackMeans ==
  ASSUME NEW f, FrameOK(f), texts \in [Files -> Seq(Lines)], GroupsOK(f),
         NEW k \in 0 .. Len(f.in_if_stack)
  PROVE  (\A i \in 1 .. k : f.in_if_stack[i]) <=> ChosenTo(f, k)
<1> DEFINE n == Len(f.in_if_stack)
<1>1. n \in Nat /\ k \in Nat /\ k <= n
  BY FrameText
<1>2. \A g \in OpenGroups(f) : Level(f, g) \in 1 .. n
  BY DEF GroupsOK, Nested
<1>3. ASSUME \A i \in 1 .. k : f.in_if_stack[i], NEW g \in OpenGroups(f), Level(f, g) <= k
      PROVE  Chosen(f, g)
  <2>1. Level(f, g) \in 1 .. k
    BY <1>1, <1>2, <1>3
  <2>2. ChosenTo(f, Level(f, g))
    BY <1>3, <2>1 DEF GroupsOK, Remembers
  <2>3. Level(f, g) <= Level(f, g)
    BY <1>1, <2>1
  <2>4. QED
    BY <2>2, <2>3 DEF ChosenTo
<1>4. ASSUME ChosenTo(f, k), NEW i \in 1 .. k
      PROVE  f.in_if_stack[i]
  <2>1. PICK g \in OpenGroups(f) : Level(f, g) = i
    BY <1>1 DEF GroupsOK, Nested
  <2>2. ChosenTo(f, i)
    BY <1>1, <1>2, <1>4 DEF ChosenTo
  <2>3. QED
    BY <2>1, <2>2 DEF GroupsOK, Remembers
<1>5. QED
  BY <1>3, <1>4 DEF ChosenTo

LEMMA ActiveMeans ==
  ASSUME NEW f, FrameOK(f), texts \in [Files -> Seq(Lines)], GroupsOK(f)
  PROVE  Active(f) <=> Reached(f, f.pos)
<1> DEFINE n == Len(f.in_if_stack)
<1>1. n \in 0 .. n /\ DOMAIN f.in_if_stack = 1 .. n
  BY FrameText
<1>2. Active(f) <=> ChosenTo(f, n)
  BY <1>1, StackMeans DEF Active
<1>3. \A g \in OpenGroups(f) : Level(f, g) <= n
  BY FrameText DEF GroupsOK, Nested
<1>4. ChosenTo(f, n) <=> Reached(f, f.pos)
  BY <1>3 DEF ChosenTo, OpenGroups, Reached
<1>5. QED
  BY <1>2, <1>4

\* What was seen of the lines before p decides which groups up to p are read.
LEMMA SameChoice ==
  ASSUME NEW f, NEW e, e.file = f.file, NEW p \in Nat,
         \A i \in 1 .. p - 1 : e.saw[i] = f.saw[i]
  PROVE  \A g \in 1 .. p - 1 : /\ Chosen(e, g) <=> Chosen(f, g)
                               /\ SomeHeld(e, g) <=> SomeHeld(f, g)
<1> SUFFICES ASSUME NEW g \in 1 .. p - 1
             PROVE  (Chosen(e, g) <=> Chosen(f, g)) /\ (SomeHeld(e, g) <=> SomeHeld(f, g))
  OBVIOUS
<1>1. \A h \in 1 .. g : e.saw[h] = f.saw[h]
  OBVIOUS
<1>2. Chosen(e, g) <=> Chosen(f, g)
  BY <1>1 DEF Chosen
<1>3. SomeHeld(e, g) <=> SomeHeld(f, g)
  BY <1>1 DEF SomeHeld
<1>4. QED
  BY <1>2, <1>3

\* A line of f is read and e is the call after it: m levels stay as they were, and a line
\* that heads a group has the next.
FirstLevels(f, e, m) ==
  /\ m = Len(f.in_if_stack) - (IF LineOf(f).op \in Alternatives \cup {"endif"} THEN 1 ELSE 0)
  /\ Len(e.in_if_stack) = m + (IF LineOf(f).op \in Heads THEN 1 ELSE 0)
  /\ \A i \in 1 .. m : /\ e.in_if_stack[i] = f.in_if_stack[i]
                       /\ e.branch_taken[i] = f.branch_taken[i]
NewLevel(f, e, m) ==
  LineOf(f).op \in Heads =>
    /\ e.in_if_stack[m + 1] <=> ChosenTo(f, m) /\ Chosen(e, f.pos)
    /\ e.branch_taken[m + 1] <=> ChosenTo(f, m) /\ SomeHeld(e, f.pos)
ReadNext(f, e) ==
  /\ e.file = f.file /\ e.pos = f.pos + 1
  /\ \A i \in 1 .. f.pos - 1 : e.saw[i] = f.saw[i]
  /\ e.saw[f.pos] = macros

LEMMA LevelsKept ==
  ASSUME NEW f, FrameOK(f), GroupsOK(f), texts \in [Files -> Seq(Lines)], ~AtEnd(f),
         NEW e, FrameOK(e), ReadNext(f, e),
         NEW m \in 0 .. Len(f.in_if_stack), FirstLevels(f, e, m), NewLevel(f, e, m)
  PROVE  GroupsOK(e)
<1> DEFINE t == texts[f.file]
           p == f.pos
           n == Len(f.in_if_stack)
           head == t[p].op \in Heads
<1>1. /\ t \in Seq(Lines) /\ p \in 1 .. Len(t) /\ n \in Nat /\ m \in Nat /\ p \in Nat
      /\ LineOf(f) = t[p] /\ m <= n /\ e.file = f.file /\ e.pos = p + 1
  <2>1. /\ t \in Seq(Lines) /\ n \in Nat /\ p \in Nat \ {0} /\ Len(t) \in Nat
        /\ p - 1 \in 0 .. Len(t)
    BY FrameText
  <2>2. ~(p > Len(t)) /\ LineOf(f) = t[p] /\ e.file = f.file /\ e.pos = p + 1
    BY DEF LineOf, AtEnd, ReadNext
  <2> HIDE DEF t, p
  <2>3. QED
    BY <2>1, <2>2
<1>2. \A g \in 0 .. p : Level(e, g) \in Int /\ Level(f, g) = Level(e, g)
  BY <1>1, DepthType DEF Level
<1>3. Depth(t, p) = n + Turn(t[p])
  BY <1>1, DepthStep DEF GroupsOK, Nested
<1>4. Level(e, p) = Len(e.in_if_stack)
  <2>1. Len(e.in_if_stack) = m + (IF t[p].op \in Heads THEN 1 ELSE 0)
        /\ m = n - (IF t[p].op \in Alternatives \cup {"endif"} THEN 1 ELSE 0)
    BY <1>1 DEF FirstLevels
  <2>2. Level(e, p) = n + Turn(t[p])
    BY <1>1, <1>3 DEF Level
  <2>3. Turn(t[p]) = (IF t[p].op \in Heads THEN 1 ELSE 0)
                       - (IF t[p].op \in Alternatives \cup {"endif"} THEN 1 ELSE 0)
    BY TurnParts
  <2> HIDE DEF t, p, n
  <2>4. QED
    BY <1>1, <2>1, <2>2, <2>3
<1>5. ASSUME NEW g \in 1 .. p
      PROVE  g \in OpenGroups(e) <=> \/ g = p /\ head
                                     \/ g \in OpenGroups(f) /\ Level(f, g) <= m
  <2>1. g \in OpenGroups(e) <=> InGroup(t, g, p + 1)
    BY <1>1 DEF OpenGroups
  <2>2. g \in OpenGroups(f) <=> InGroup(t, g, p)
    <3>1. InGroup(t, g, p) => g < p
      BY DEF InGroup
    <3>2. QED
      BY <1>1, <3>1 DEF OpenGroups
  <2>3. \/ Level(e, p) = m + 1 /\ head /\ t[p].op \notin Alternatives /\ m = n
        \/ Level(e, p) = m + 1 /\ head /\ t[p].op \in Alternatives
        \/ Level(e, p) = m /\ ~head /\ t[p].op \notin Alternatives
    <3>1. /\ Level(e, p) = m + (IF t[p].op \in Heads THEN 1 ELSE 0)
          /\ m = n - (IF t[p].op \in Alternatives \cup {"endif"} THEN 1 ELSE 0)
      BY <1>1, <1>4 DEF FirstLevels
    <3>2. t[p].op \in Alternatives => head /\ t[p].op # "endif"
      BY DEF Heads, Alternatives
    <3>3. t[p].op = "endif" => ~head
      BY DEF Heads, Openers
    <3> HIDE DEF t, p, n
    <3>4. QED
      BY <1>1, <3>1, <3>2, <3>3
  <2>4. g \in OpenGroups(f) => Level(f, g) \in 1 .. n
    BY DEF GroupsOK, Nested
  <2>5. Level(f, g) \in Int /\ Level(f, g) = Depth(t, g) /\ Level(e, p) = Depth(t, p)
    BY <1>1, <1>2 DEF Level
  <2> HIDE DEF head, t, p, n
  <2>6. InGroup(t, g, p + 1) <=>
          \/ g = p /\ head
          \/ /\ InGroup(t, g, p)
             /\ Depth(t, g) <= Depth(t, p)
             /\ t[p].op \in Alternatives => Depth(t, g) < Depth(t, p)
    BY <1>1, GroupNext DEF head
  <2>7. QED
    BY <1>1, <2>1, <2>2, <2>3, <2>4, <2>5, <2>6
<1>6. OpenGroups(e) \subseteq 1 .. p /\ OpenGroups(f) \subseteq 1 .. p - 1
  BY <1>1 DEF OpenGroups
<1>7. \A g \in OpenGroups(f) : /\ Chosen(e, g) <=> Chosen(f, g)
                               /\ SomeHeld(e, g) <=> SomeHeld(f, g)
  BY <1>1, <1>6, SameChoice DEF ReadNext
<1>8. head => Level(e, p) = m + 1 /\ Len(e.in_if_stack) = m + 1
  BY <1>1, <1>4 DEF FirstLevels
<1>9. ~head => Len(e.in_if_stack) = m
  BY <1>1 DEF FirstLevels
<1>10. Depth(texts[e.file], e.pos - 1) = Len(e.in_if_stack)
  BY <1>1, <1>4 DEF Level
<1>11. head =>
         /\ e.in_if_stack[m + 1] <=> ChosenTo(f, m) /\ Chosen(e, p)
         /\ e.branch_taken[m + 1] <=> ChosenTo(f, m) /\ SomeHeld(e, p)
  BY <1>1 DEF NewLevel
<1> HIDE DEF t, p, n, head
<1>12. Nested(e)
  <2>1. ASSUME NEW g \in OpenGroups(e) PROVE Level(e, g) \in 1 .. Len(e.in_if_stack)
    <3>1. g \in 1 .. p
      BY <1>6
    <3>2. CASE g = p /\ head
      BY <1>1, <1>8, <3>2
    <3>3. CASE g \in OpenGroups(f) /\ Level(f, g) <= m
      <4>1. Level(f, g) \in 1 .. m
        BY <1>1, <3>3 DEF GroupsOK, Nested, n
      <4>2. QED
        BY <1>1, <1>2, <1>8, <1>9, <3>1, <4>1
    <3>4. QED
      BY <1>5, <3>1, <3>2, <3>3
  <2>2. ASSUME NEW k \in 1 .. Len(e.in_if_stack) PROVE \E g \in OpenGroups(e) : Level(e, g) = k
    <3>1. CASE k \in 1 .. m
      <4>1. PICK g \in OpenGroups(f) : Level(f, g) = k
        BY <1>1, <3>1 DEF GroupsOK, Nested, n
      <4>2. g \in 1 .. p
        BY <1>1, <1>6
      <4>3. QED
        BY <1>1, <1>2, <1>5, <3>1, <4>1, <4>2
    <3>2. CASE k = m + 1 /\ head
      <4>1. p \in 1 .. p
        BY <1>1
      <4>2. QED
        BY <1>5, <1>8, <3>2, <4>1
    <3>3. QED
      BY <1>1, <1>8, <1>9, <3>1, <3>2
  <2>3. ASSUME NEW g \in OpenGroups(e), NEW h \in OpenGroups(e), Level(e, g) = Level(e, h)
        PROVE  g = h
    <3>1. g \in 1 .. p /\ h \in 1 .. p
      BY <1>6
    <3>2. /\ (g = p /\ head) \/ (g \in OpenGroups(f) /\ Level(e, g) <= m)
          /\ (h = p /\ head) \/ (h \in OpenGroups(f) /\ Level(e, h) <= m)
      BY <1>1, <1>2, <1>5, <3>1
    <3>3. CASE g \in OpenGroups(f) /\ h \in OpenGroups(f)
      BY <1>1, <1>2, <2>3, <3>1, <3>3 DEF GroupsOK, Nested
    <3>4. QED
      BY <1>1, <1>8, <2>3, <3>2, <3>3
  <2>4. QED
    BY <1>10, <2>1, <2>2, <2>3 DEF Nested
<1>13. ASSUME NEW k \in 0 .. m PROVE ChosenTo(e, k) <=> ChosenTo(f, k)
  <2>1. ASSUME NEW g \in 1 .. p
        PROVE  g \in OpenGroups(e) /\ Level(e, g) <= k <=> g \in OpenGroups(f) /\ Level(f, g) <= k
    <3>1. Level(e, g) \in Int /\ Level(f, g) = Level(e, g)
      BY <1>1, <1>2
    <3>2. g = p => g \notin OpenGroups(f)
      BY <1>1, <1>6
    <3>3. QED
      BY <1>1, <1>5, <1>8, <3>1, <3>2
  <2>2. \A g \in OpenGroups(e) \cup OpenGroups(f) : g \in 1 .. p
    BY <1>1, <1>6
  <2>3. QED
    BY <1>7, <2>1, <2>2 DEF ChosenTo
<1>14. Remembers(e)
  <2>1. SUFFICES ASSUME NEW g \in OpenGroups(e)
        PROVE  /\ e.in_if_stack[Level(e, g)] <=> ChosenTo(e, Level(e, g))
               /\ e.branch_taken[Level(e, g)] <=> ChosenTo(e, Level(e, g) - 1) /\ SomeHeld(e, g)
    BY DEF Remembers
  <2>2. g \in 1 .. p
    BY <1>6
  <2>3. CASE g = p /\ head
    <3>1. ChosenTo(e, m + 1) <=> ChosenTo(e, m) /\ Chosen(e, p)
      <4>1. p \in 1 .. p /\ p \in OpenGroups(e) /\ Level(e, p) = m + 1
        BY <1>1, <1>5, <1>8, <2>3
      <4>2. \A h \in OpenGroups(e) : Level(e, h) \in Int
        BY <1>1, <1>2, <1>6
      <4>3. \A h \in OpenGroups(e) : Level(e, h) <= m + 1 <=> Level(e, h) <= m \/ h = p
        BY <1>12, <4>1, <4>2 DEF Nested
      <4>4. QED
        BY <4>1, <4>3 DEF ChosenTo
    <3>2. ChosenTo(e, m) <=> ChosenTo(f, m)
      BY <1>1, <1>13
    <3>3. Level(e, g) = m + 1 /\ m + 1 - 1 = m
      BY <1>1, <1>8, <2>3
    <3>4. QED
      BY <1>11, <2>3, <3>1, <3>2, <3>3
  <2>4. CASE g \in OpenGroups(f) /\ Level(f, g) <= m
    <3>1. Level(f, g) \in 1 .. m /\ Level(e, g) = Level(f, g)
      BY <1>1, <1>2, <2>2, <2>4 DEF GroupsOK, Nested, n
    <3>2. Level(f, g) \in 0 .. m /\ Level(f, g) - 1 \in 0 .. m
      BY <1>1, <3>1
    <3>3. /\ f.in_if_stack[Level(f, g)] <=> ChosenTo(f, Level(f, g))
          /\ f.branch_taken[Level(f, g)] <=> ChosenTo(f, Level(f, g) - 1) /\ SomeHeld(f, g)
      BY <2>4 DEF GroupsOK, Remembers
    <3>4. /\ e.in_if_stack[Level(f, g)] = f.in_if_stack[Level(f, g)]
          /\ e.branch_taken[Level(f, g)] = f.branch_taken[Level(f, g)]
      BY <3>1 DEF FirstLevels
    <3>5. QED
      BY <1>7, <1>13, <2>4, <3>1, <3>2, <3>3, <3>4
  <2>5. QED
    BY <1>5, <2>2, <2>3, <2>4
<1>15. QED
  BY <1>12, <1>14 DEF GroupsOK

\* A line that neither heads nor ends a group leaves the stacks alone.
LEMMA SameLevels ==
  ASSUME NEW f, FrameOK(f), GroupsOK(f), texts \in [Files -> Seq(Lines)], ~AtEnd(f),
         LineOf(f).op \notin Heads \cup {"endif"}, NEW e, FrameOK(e), ReadNext(f, e),
         e.in_if_stack = f.in_if_stack, e.branch_taken = f.branch_taken
  PROVE  GroupsOK(e)
<1> DEFINE n == Len(f.in_if_stack)
<1>1. n \in Nat /\ n \in 0 .. n
  BY FrameText
<1>2. LineOf(f).op \notin Alternatives \cup {"endif"} /\ LineOf(f).op \notin Heads
  BY DEF Heads, Alternatives
<1>3. Len(e.in_if_stack) = n + 0 /\ n = n - 0
  BY <1>1
<1>4. FirstLevels(f, e, n)
  BY <1>2, <1>3 DEF FirstLevels
<1>5. NewLevel(f, e, n)
  BY <1>2 DEF NewLevel
<1>6. QED
  BY <1>1, <1>4, <1>5, LevelsKept

\* #endif drops the last level.
LEMMA EndifLevels ==
  ASSUME NEW f, FrameOK(f), GroupsOK(f), texts \in [Files -> Seq(Lines)], ~AtEnd(f),
         LineOf(f).op = "endif", f.in_if_stack # <<>>, NEW e, FrameOK(e), ReadNext(f, e),
         e.in_if_stack = Front(f.in_if_stack), e.branch_taken = Front(f.branch_taken)
  PROVE  GroupsOK(e)
<1> DEFINE m == Len(f.in_if_stack) - 1
<1>1. /\ m \in Nat /\ m \in 0 .. Len(f.in_if_stack)
      /\ Len(Front(f.in_if_stack)) = m
      /\ \A i \in 1 .. m : /\ Front(f.in_if_stack)[i] = f.in_if_stack[i]
                           /\ Front(f.branch_taken)[i] = f.branch_taken[i]
  BY FrameText DEF Front
<1>2. LineOf(f).op \in Alternatives \cup {"endif"} /\ LineOf(f).op \notin Heads
  BY DEF Heads, Openers
<1>3. FirstLevels(f, e, m)
  BY <1>1, <1>2 DEF FirstLevels
<1>4. NewLevel(f, e, m)
  BY <1>2 DEF NewLevel
<1>5. QED
  BY <1>1, <1>3, <1>4, LevelsKept

\* #if, #ifdef and #ifndef add a level: their conditional has no group before theirs.
LEMMA OpenLevels ==
  ASSUME NEW f, FrameOK(f), GroupsOK(f), texts \in [Files -> Seq(Lines)], ~AtEnd(f),
         LineOf(f).op \in Openers, NEW e, FrameOK(e), ReadNext(f, e),
         NEW active \in BOOLEAN, active <=> Active(f) /\ Holds(macros, LineOf(f)),
         e.in_if_stack = Append(f.in_if_stack, active),
         e.branch_taken = Append(f.branch_taken, active)
  PROVE  GroupsOK(e)
<1> DEFINE n == Len(f.in_if_stack)
           t == texts[f.file]
           p == f.pos
           H == Holds(macros, t[p])
<1>1. /\ n \in Nat /\ n \in 0 .. n /\ t \in Seq(Lines) /\ p \in Nat \ {0} /\ p \in 1 .. Len(t)
      /\ DOMAIN f.in_if_stack = 1 .. n /\ LineOf(f) = t[p]
      /\ e.file = f.file /\ e.saw[p] = macros
  <2>1. n \in Nat /\ n \in 0 .. n /\ DOMAIN f.in_if_stack = 1 .. n
    BY FrameText
  <2>2. t \in Seq(Lines) /\ p \in Nat \ {0} /\ p \in 1 .. Len(t)
    BY FrameText DEF AtEnd
  <2>3. QED
    BY <2>1, <2>2 DEF LineOf, ReadNext
<1>2. LineOf(f).op \notin Alternatives \cup {"endif"} /\ LineOf(f).op \in Heads
  BY DEF Heads, Openers, Alternatives
<1>3. /\ Len(e.in_if_stack) = n + 1
      /\ \A i \in 1 .. n : e.in_if_stack[i] = f.in_if_stack[i] /\ e.branch_taken[i] = f.branch_taken[i]
      /\ e.in_if_stack[n + 1] = active /\ e.branch_taken[n + 1] = active
  BY FrameText, AppendFacts
<1>4. \A h \in 1 .. p - 1 : ~EarlierGroup(t, h, p)
  BY <1>1, OpenerFirst
<1>5. Chosen(e, p) <=> H
  BY <1>1, <1>4 DEF Chosen
<1>6. SomeHeld(e, p) <=> H
  <2>1. \A h \in 1 .. p : h = p \/ EarlierGroup(t, h, p) <=> h = p
    BY <1>1, <1>4
  <2>2. p \in 1 .. p
    BY <1>1
  <2> HIDE DEF p, t
  <2>3. SomeHeld(e, p) <=> \E h \in 1 .. p : h = p /\ Holds(e.saw[h], t[h])
    BY <1>1, <2>1 DEF SomeHeld, t
  <2>4. QED
    BY <1>1, <2>2, <2>3
<1>7. Active(f) <=> ChosenTo(f, n)
  BY <1>1, StackMeans DEF Active
<1>8. FirstLevels(f, e, n)
  <2>1. n = n - 0
    BY <1>1
  <2>2. QED
    BY <1>2, <1>3, <2>1 DEF FirstLevels
<1>9. NewLevel(f, e, n)
  BY <1>1, <1>3, <1>5, <1>6, <1>7 DEF NewLevel
<1>10. QED
  BY <1>1, <1>8, <1>9, LevelsKept

\* Before an #elif or #else: what the last entries of the stacks say of its conditional.
LEMMA LastGroup ==
  ASSUME NEW f, FrameOK(f), GroupsOK(f), texts \in [Files -> Seq(Lines)], ~AtEnd(f),
         LineOf(f).op \in Alternatives, f.in_if_stack # <<>>
  PROVE  LET t == texts[f.file]
             n == Len(f.in_if_stack)
         IN /\ Depth(t, f.pos) = n
            /\ ParentActive(f) <=> ChosenTo(f, n - 1)
            /\ Taken(f) <=> /\ ChosenTo(f, n - 1)
                            /\ \E h \in 1 .. f.pos - 1 : /\ EarlierGroup(t, h, f.pos)
                                                         /\ Holds(f.saw[h], t[h])
<1> DEFINE n == Len(f.in_if_stack)
           t == texts[f.file]
           p == f.pos
           Earlier == \E h \in 1 .. p - 1 : EarlierGroup(t, h, p) /\ Holds(f.saw[h], t[h])
<1>1. /\ n \in Nat \ {0} /\ n - 1 \in 0 .. n /\ t \in Seq(Lines) /\ p \in Nat \ {0}
      /\ p \in 1 .. Len(t) /\ LineOf(f) = t[p]
  <2>1. n \in Nat \ {0} /\ n - 1 \in 0 .. n
    BY FrameText
  <2>2. t \in Seq(Lines) /\ p \in Nat \ {0} /\ p \in 1 .. Len(t)
    BY FrameText DEF AtEnd
  <2>3. QED
    BY <2>1, <2>2 DEF LineOf
<1>2. Depth(t, p) = n
  <2>1. t[p].op \notin Openers /\ t[p].op # "endif"
    BY <1>1 DEF Alternatives, Openers
  <2>2. Depth(t, p) = Depth(t, p - 1) + 0 /\ Depth(t, p - 1) = n
    BY <1>1, <2>1, DepthStep DEF Turn, GroupsOK, Nested
  <2>3. QED
    BY <1>1, <2>2
<1>3. ParentActive(f) <=> ChosenTo(f, n - 1)
  BY <1>1, StackMeans DEF ParentActive
<1>4. PICK c \in OpenGroups(f) : Level(f, c) = n
  <2>1. n \in 1 .. n
    BY <1>1
  <2>2. QED
    BY <2>1 DEF GroupsOK, Nested
<1>5. c \in 1 .. p - 1 /\ InGroup(t, c, p) /\ Depth(t, c) = Depth(t, p)
  BY <1>2, <1>4 DEF OpenGroups, Level
<1>6. \A h \in 1 .. p - 1 : EarlierGroup(t, h, p) <=> h = c \/ EarlierGroup(t, h, c)
  BY <1>1, <1>5, AlternativeEarlier
<1>7. SomeHeld(f, c) <=> Earlier
  <2>1. \A h \in 1 .. c : h \in 1 .. p - 1
    <3>1. p \in Nat /\ c \in 1 .. p - 1
      BY <1>1, <1>5
    <3> HIDE DEF p
    <3>2. QED
      BY <3>1
  <2>2. \A h \in 1 .. p - 1 : EarlierGroup(t, h, c) \/ h = c => h \in 1 .. c
    BY <1>5 DEF EarlierGroup
  <2>3. QED
    BY <1>6, <2>1, <2>2 DEF SomeHeld
<1>8. f.branch_taken[n] <=> ChosenTo(f, n - 1) /\ SomeHeld(f, c)
  BY <1>4 DEF GroupsOK, Remembers
<1>9. Taken(f) = f.branch_taken[n]
  BY FrameText DEF Taken
<1>10. QED
  BY <1>2, <1>3, <1>7, <1>8, <1>9

\* #elif and #else set the last level.
LEMMA AlternativeLevels ==
  ASSUME NEW f, FrameOK(f), GroupsOK(f), texts \in [Files -> Seq(Lines)], ~AtEnd(f),
         LineOf(f).op \in Alternatives, f.in_if_stack # <<>>,
         NEW e, FrameOK(e), ReadNext(f, e), NEW active \in BOOLEAN, NEW taken \in BOOLEAN,
         active <=> ParentActive(f) /\ ~Taken(f) /\ Holds(macros, LineOf(f)),
         taken <=> Taken(f) \/ active,
         e.in_if_stack = [f.in_if_stack EXCEPT ![Len(f.in_if_stack)] = active],
         e.branch_taken = [f.branch_taken EXCEPT ![Len(f.in_if_stack)] = taken]
  PROVE  GroupsOK(e)
<1> DEFINE n == Len(f.in_if_stack)
           t == texts[f.file]
           p == f.pos
           H == Holds(macros, t[p])
           Earlier == \E h \in 1 .. p - 1 : EarlierGroup(t, h, p) /\ Holds(f.saw[h], t[h])
<1>1. /\ n \in Nat \ {0} /\ n - 1 \in 0 .. n /\ n - 1 \in Nat /\ t \in Seq(Lines)
      /\ p \in Nat \ {0} /\ p \in 1 .. Len(t) /\ LineOf(f) = t[p]
      /\ e.file = f.file /\ e.saw[p] = macros /\ \A i \in 1 .. p - 1 : e.saw[i] = f.saw[i]
  <2>1. /\ n \in Nat \ {0} /\ n - 1 \in 0 .. n /\ n - 1 \in Nat
    BY FrameText
  <2>2. t \in Seq(Lines) /\ p \in Nat \ {0} /\ p \in 1 .. Len(t)
    BY FrameText DEF AtEnd
  <2>3. QED
    BY <2>1, <2>2 DEF LineOf, ReadNext
<1>2. LineOf(f).op \in Alternatives \cup {"endif"} /\ LineOf(f).op \in Heads
  BY DEF Heads, Alternatives
<1>3. /\ Len(e.in_if_stack) = n
      /\ \A i \in 1 .. n - 1 : e.in_if_stack[i] = f.in_if_stack[i] /\ e.branch_taken[i] = f.branch_taken[i]
      /\ e.in_if_stack[n] = active /\ e.branch_taken[n] = taken
  <2>1. n \in 1 .. Len(f.in_if_stack) /\ n \in 1 .. Len(f.branch_taken)
    BY <1>1, FrameText
  <2>2. f.in_if_stack \in Seq(BOOLEAN) /\ f.branch_taken \in Seq(BOOLEAN)
        /\ Len(f.branch_taken) = n
    BY FrameText
  <2> HIDE DEF n
  <2>3. /\ Len(e.in_if_stack) = Len(f.in_if_stack)
        /\ \A i \in 1 .. Len(f.in_if_stack) :
             e.in_if_stack[i] = IF i = n THEN active ELSE f.in_if_stack[i]
    BY <2>1, <2>2, SetFacts DEF n
  <2>4. \A i \in 1 .. Len(f.branch_taken) :
          e.branch_taken[i] = IF i = n THEN taken ELSE f.branch_taken[i]
    BY <2>1, <2>2, SetFacts DEF n
  <2>5. Len(f.in_if_stack) = n
    BY DEF n
  <2>6. QED
    BY <1>1, <2>1, <2>2, <2>3, <2>4, <2>5
<1>4. /\ ParentActive(f) <=> ChosenTo(f, n - 1)
      /\ Taken(f) <=> ChosenTo(f, n - 1) /\ Earlier
  BY LastGroup
<1>5. Chosen(e, p) <=> H /\ ~Earlier
  BY <1>1 DEF Chosen
<1>6. SomeHeld(e, p) <=> H \/ Earlier
  <2>1. \A h \in 1 .. p : EarlierGroup(t, h, p) => h \in 1 .. p - 1
    BY <1>1 DEF EarlierGroup
  <2>2. p \in 1 .. p /\ \A h \in 1 .. p - 1 : h \in 1 .. p
    BY <1>1
  <2>3. SomeHeld(e, p) <=> \E h \in 1 .. p : /\ h = p \/ EarlierGroup(t, h, p)
                                             /\ Holds(e.saw[h], t[h])
    BY <1>1 DEF SomeHeld
  <2> HIDE DEF p, t
  <2>4. QED
    BY <1>1, <2>1, <2>2, <2>3
<1>7. FirstLevels(f, e, n - 1)
  BY <1>1, <1>2, <1>3 DEF FirstLevels
<1>8. n - 1 + 1 = n
  BY <1>1
<1> HIDE DEF Earlier, H
<1>9. NewLevel(f, e, n - 1)
  <2>1. active <=> ChosenTo(f, n - 1) /\ Chosen(e, p)
    BY <1>1, <1>4, <1>5 DEF H
  <2>2. taken <=> ChosenTo(f, n - 1) /\ SomeHeld(e, p)
    BY <1>1, <1>4, <1>6 DEF H
  <2>3. QED
    BY <1>3, <1>8, <2>1, <2>2 DEF NewLevel
<1>10. QED
  BY <1>1, <1>7, <1>9, LevelsKept

-----------------------------------------------------------------------------
(* Bad lines.                                                              *)

\* What was seen before line p decides whether it is read, and whether it is bad.
LEMMA SameVerdict ==
  ASSUME NEW f, NEW e, e.file = f.file, NEW p \in Nat,
         \A i \in 1 .. p - 1 : e.saw[i] = f.saw[i]
  PROVE  /\ Reached(e, p) <=> Reached(f, p)
         /\ Bad(e, p) <=> Bad(f, p)
<1>1. \A g \in 1 .. p - 1 : Chosen(e, g) <=> Chosen(f, g)
  BY SameChoice
<1>2. Reached(e, p) <=> Reached(f, p)
  BY <1>1 DEF Reached
<1>3. QED
  BY <1>1, <1>2 DEF Bad

\* The next line of f is bad: what resolve_includes can tell.
BadLine(f) ==
  LET l == LineOf(f)
  IN \/ l.op \in {"elif", "else", "endif"} /\ f.in_if_stack = <<>>
     \/ l.op \in {"ifdef", "ifndef"} /\ l.arg = None
     \/ l.op \in {"define", "include", "if"} /\ l.arg = None /\ Active(f)
     \/ l.op = "error" /\ Active(f)
     \/ l.op = "elif" /\ l.arg = None /\ ParentActive(f) /\ ~Taken(f)
     \/ l.op = "include" /\ Active(f) /\ Found[f.file][l.arg] = None

LEMMA BadMeans ==
  ASSUME NEW f, FrameOK(f), GroupsOK(f), texts \in [Files -> Seq(Lines)], ~AtEnd(f)
  PROVE  Bad(f, f.pos) <=> BadLine(f)
<1> DEFINE t == texts[f.file]
           p == f.pos
           n == Len(f.in_if_stack)
           NoneHeld == \A g \in 1 .. p - 1 : EarlierGroup(t, g, p) => ~Holds(f.saw[g], t[g])
           OuterChosen == \A g \in 1 .. p - 1 :
                       InGroup(t, g, p) /\ Depth(t, g) < Depth(t, p) => Chosen(f, g)
<1>1. /\ n \in Nat /\ p \in 1 .. Len(t) /\ p \in Nat /\ Len(t) \in Nat /\ LineOf(f) = t[p]
      /\ Depth(t, p - 1) = n
  <2>1. n \in Nat /\ p \in 1 .. Len(t) /\ p \in Nat /\ Len(t) \in Nat
    BY FrameText DEF AtEnd
  <2>2. QED
    BY <2>1 DEF LineOf, GroupsOK, Nested
<1>2. n = 0 <=> f.in_if_stack = <<>>
  BY FrameText
<1>3. Reached(f, p) <=> Active(f)
  BY ActiveMeans
<1>4. ASSUME t[p].op = "elif", f.in_if_stack # <<>>
      PROVE  NoneHeld /\ OuterChosen <=> ParentActive(f) /\ ~Taken(f)
  <2>1. LineOf(f).op \in Alternatives
    BY <1>1, <1>4 DEF Alternatives
  <2>2. /\ Depth(t, p) = n
        /\ ParentActive(f) <=> ChosenTo(f, n - 1)
        /\ Taken(f) <=> ChosenTo(f, n - 1) /\ ~NoneHeld
    BY <1>4, <2>1, LastGroup
  <2>3. OuterChosen <=> ChosenTo(f, n - 1)
    <3>1. \A g \in OpenGroups(f) : Level(f, g) \in 1 .. n
      BY DEF GroupsOK, Nested
    <3>2. \A g \in OpenGroups(f) : Depth(t, g) < Depth(t, p) <=> Level(f, g) <= n - 1
      BY <1>1, <2>2, <3>1 DEF Level
    <3>3. QED
      BY <3>2 DEF ChosenTo, OpenGroups
  <2>4. QED
    BY <2>2, <2>3
<1>5. Bad(f, p) <=>
        \/ t[p].op \in {"elif", "else", "endif"} /\ n = 0
        \/ t[p].op \in {"ifdef", "ifndef"} /\ t[p].arg = None
        \/ t[p].op \in {"define", "include", "if"} /\ t[p].arg = None /\ Active(f)
        \/ t[p].op = "error" /\ Active(f)
        \/ t[p].op = "elif" /\ t[p].arg = None /\ NoneHeld /\ OuterChosen
        \/ t[p].op = "include" /\ Active(f) /\ Found[f.file][t[p].arg] = None
  <2>1. ~(p > Len(t))
    BY <1>1
  <2>2. QED
    BY <1>1, <1>3, <2>1 DEF Bad
<1> HIDE DEF NoneHeld, OuterChosen, t, p, n
<1>6. QED
  BY <1>1, <1>2, <1>4, <1>5 DEF BadLine, p

LEMMA BadEnd ==
  ASSUME NEW f, FrameOK(f), GroupsOK(f), texts \in [Files -> Seq(Lines)], AtEnd(f)
  PROVE  Bad(f, f.pos) <=> f.in_if_stack # <<>>
<1> DEFINE t == texts[f.file]
           n == Len(f.in_if_stack)
<1>1. /\ n \in Nat /\ f.pos > Len(t) /\ f.pos - 1 = Len(t) /\ Depth(t, Len(t)) = n
  <2>1. /\ n \in Nat /\ f.pos > Len(t) /\ f.pos - 1 = Len(t)
    BY FrameText DEF AtEnd
  <2>2. QED
    BY <2>1 DEF GroupsOK, Nested
<1>2. n = 0 <=> f.in_if_stack = <<>>
  BY FrameText
<1>3. Bad(f, f.pos) <=> Depth(t, Len(t)) > 0
  BY <1>1 DEF Bad
<1>4. QED
  BY <1>1, <1>2, <1>3

\* Only #include lines that are bad were passed.
PassedOK(f) ==
  \A p \in 1 .. f.pos - 1 : Bad(f, p) => texts[f.file][p].op = "include"

ReadOK(f) == GroupsOK(f) /\ PassedOK(f)

LEMMA ReadOneMore ==
  ASSUME NEW f, FrameOK(f), ReadOK(f), texts \in [Files -> Seq(Lines)], ~AtEnd(f),
         BadLine(f) => LineOf(f).op = "include",
         NEW e, FrameOK(e), ReadNext(f, e), GroupsOK(e)
  PROVE  ReadOK(e)
<1>1. f.pos \in Nat \ {0} /\ e.pos = f.pos + 1 /\ e.file = f.file
  BY FrameText DEF ReadNext
<1>2. ASSUME NEW p \in 1 .. f.pos, Bad(e, p) PROVE texts[e.file][p].op = "include"
  <2>1. \A i \in 1 .. p - 1 : e.saw[i] = f.saw[i]
    BY <1>1 DEF ReadNext
  <2>2. Bad(f, p)
    BY <1>1, <1>2, <2>1, SameVerdict
  <2>3. CASE p = f.pos
    BY <1>1, <2>2, <2>3, BadMeans DEF ReadOK, LineOf
  <2>4. CASE p \in 1 .. f.pos - 1
    BY <1>1, <2>2, <2>4 DEF ReadOK, PassedOK
  <2>5. QED
    BY <1>1, <2>3, <2>4
<1>3. QED
  BY <1>1, <1>2 DEF ReadOK, PassedOK

\* None of this is about anything but the texts and the call.
LEMMA ReadKept ==
  ASSUME texts' = texts, NEW i
  PROVE  ReadOK(frames'[i]) <=> ReadOK(frames[i])'
<1> DEFINE f == frames'[i]
<1>1. \A g : Chosen(f, g) <=> Chosen(frames[i], g)'
  BY DEF Chosen
<1>2. \A p : Reached(f, p) <=> Reached(frames[i], p)'
  BY <1>1 DEF Reached
<1>3. \A p : Bad(f, p) <=> Bad(frames[i], p)'
  BY <1>1, <1>2 DEF Bad
<1>4. PassedOK(f) <=> PassedOK(frames[i])'
  BY <1>3 DEF PassedOK
<1>5. OpenGroups(f) = OpenGroups(frames[i])' /\ \A g : Level(f, g) = Level(frames[i], g)'
  BY DEF OpenGroups, Level
<1>6. \A k : ChosenTo(f, k) <=> ChosenTo(frames[i], k)'
  BY <1>1, <1>5 DEF ChosenTo
<1>7. \A g : SomeHeld(f, g) <=> SomeHeld(frames[i], g)'
  BY DEF SomeHeld
<1>8. Nested(f) <=> Nested(frames[i])'
  BY <1>5 DEF Nested
<1>9. Remembers(f) <=> Remembers(frames[i])'
  BY <1>5, <1>6, <1>7 DEF Remembers
<1>10. QED
  BY <1>4, <1>8, <1>9 DEF ReadOK, GroupsOK

-----------------------------------------------------------------------------
(* The calls before and after a line.                                      *)

LEMMA FlushFields ==
  ASSUME NEW f \in Frames
  PROVE  LET g == flush_pending(f)
         IN /\ g.file = f.file /\ g.pos = f.pos /\ g.in_if_stack = f.in_if_stack
            /\ g.branch_taken = f.branch_taken /\ g.saw = f.saw /\ g.pending = <<>>
            /\ g.result = f.result \o [i \in DOMAIN f.pending |-> Expanded(f.file, f.pending[i])]
            /\ g.expected = f.expected
BY DEF flush_pending, Frames

LEMMA PastFields ==
  ASSUME NEW f \in Frames
  PROVE  LET g == Past(f)
         IN /\ g.file = f.file /\ g.pos = f.pos + 1 /\ g.in_if_stack = f.in_if_stack
            /\ g.branch_taken = f.branch_taken /\ g.saw = Append(f.saw, macros)
            /\ g.pending = f.pending /\ g.result = f.result /\ g.expected = f.expected
BY DEF Past, Frames

\* Nothing of the call is pending, and its output is as expected.
Settled(f) == f.pending = <<>> /\ f.result = f.expected

LEMMA NothingPending ==
  ASSUME NEW f \in Frames, f.pending = <<>>
  PROVE  flush_pending(f).result = f.result
<1>1. [i \in DOMAIN f.pending |-> Expanded(f.file, f.pending[i])] = <<>>
  OBVIOUS
<1>2. f.result \o <<>> = f.result
  BY DEF Frames
<1>3. QED
  BY <1>1, <1>2, FlushFields

\* e is the call after f has read a line whose directive expands the pending text and
\* makes the stacks a and b.
Flushed(f, e, a, b) ==
  /\ FrameOK(e) /\ ReadNext(f, e)
  /\ e.in_if_stack = a /\ e.branch_taken = b
  /\ flush_pending(f).result = f.expected => Settled(e)
WithStacks(f, a, b) == [f EXCEPT !.in_if_stack = a, !.branch_taken = b]

LEMMA PastFlushed ==
  ASSUME NEW f, FrameOK(f), ~AtEnd(f), texts \in [Files -> Seq(Lines)], macros \in Macros,
         NEW a \in Seq(BOOLEAN), NEW b \in Seq(BOOLEAN), Len(a) = Len(b)
  PROVE  Flushed(f, Past(WithStacks(flush_pending(f), a, b)), a, b)
<1> DEFINE h == WithStacks(flush_pending(f), a, b)
<1> DEFINE g == flush_pending(f)
<1>1. f \in Frames /\ FrameOK(g) /\ g \in Frames
  BY FlushOK DEF FrameOK
<1>2. /\ g.file = f.file /\ g.pos = f.pos /\ g.saw = f.saw /\ g.pending = <<>>
      /\ g.expected = f.expected
  BY <1>1, FlushFields
<1> HIDE DEF g
<1>3. h = [g EXCEPT !.in_if_stack = a, !.branch_taken = b]
  BY DEF g, WithStacks
<1> HIDE DEF h
<1>4. h = [file |-> g.file, pos |-> g.pos, in_if_stack |-> a, branch_taken |-> b,
           pending |-> g.pending, result |-> g.result, saw |-> g.saw, expected |-> g.expected]
  BY <1>1, <1>3, GroupsSet
<1>5. /\ h.file = g.file /\ h.pos = g.pos /\ h.in_if_stack = a /\ h.branch_taken = b
      /\ h.pending = g.pending /\ h.result = g.result /\ h.saw = g.saw
      /\ h.expected = g.expected
  BY <1>1, <1>3 DEF Frames
<1>6. FrameOK(h)
  <2>1. g.pending \in Seq(Nat) /\ g.result \in Seq(Output) /\ g.expected \in Seq(Output)
    BY <1>1 DEF Frames
  <2>2. FrameOK([file |-> g.file, pos |-> g.pos, in_if_stack |-> a, branch_taken |-> b,
                 pending |-> g.pending, result |-> g.result, saw |-> g.saw,
                 expected |-> g.expected])
    BY <1>1, <2>1, WithOK
  <2>3. QED
    BY <1>4, <2>2
<1>7. ~AtEnd(h) /\ h \in Frames
  BY <1>2, <1>5, <1>6 DEF AtEnd, FrameOK
<1>8. FrameOK(Past(h))
  BY <1>6, <1>7, PastOK
<1>9. /\ Past(h).file = f.file /\ Past(h).pos = f.pos + 1 /\ Past(h).in_if_stack = a
      /\ Past(h).branch_taken = b /\ Past(h).saw = Append(f.saw, macros)
      /\ Past(h).pending = <<>> /\ Past(h).result = g.result /\ Past(h).expected = f.expected
  <2>1. /\ Past(h).file = h.file /\ Past(h).pos = h.pos + 1
        /\ Past(h).in_if_stack = h.in_if_stack /\ Past(h).branch_taken = h.branch_taken
        /\ Past(h).saw = Append(h.saw, macros) /\ Past(h).pending = h.pending
        /\ Past(h).result = h.result /\ Past(h).expected = h.expected
    BY <1>7, PastFields
  <2>2. QED
    BY <1>2, <1>5, <2>1
<1>10. ReadNext(f, Past(h))
  <2>1. f.saw \in Seq(Macros) /\ Len(f.saw) = f.pos - 1 /\ f.pos \in Nat
    BY <1>1, FrameText
  <2>2. QED
    BY <1>9, <2>1, AppendFacts DEF ReadNext
<1>11. flush_pending(f).result = f.expected => Settled(Past(h))
  BY <1>9 DEF Settled, g
<1>12. QED
  BY <1>8, <1>9, <1>10, <1>11 DEF h, Flushed

LEMMA PastFlushedSame ==
  ASSUME NEW f, FrameOK(f), ~AtEnd(f), texts \in [Files -> Seq(Lines)], macros \in Macros
  PROVE  Flushed(f, Past(flush_pending(f)), f.in_if_stack, f.branch_taken)
<1> DEFINE g == flush_pending(f)
           a == f.in_if_stack
           b == f.branch_taken
<1>1. FrameOK(g) /\ g \in Frames /\ f \in Frames
  BY FlushOK DEF FrameOK
<1>2. g.in_if_stack = a /\ g.branch_taken = b
  BY <1>1, FlushFields
<1> HIDE DEF g
<1>3. g = WithStacks(g, a, b)
  BY <1>1, <1>2 DEF Frames, WithStacks
<1>4. a \in Seq(BOOLEAN) /\ b \in Seq(BOOLEAN) /\ Len(a) = Len(b)
  BY FrameText
<1> HIDE DEF a, b
<1>5. Flushed(f, Past(WithStacks(g, a, b)), a, b)
  BY <1>4, PastFlushed DEF g
<1>6. QED
  BY <1>3, <1>5, Zenon DEF g, a, b

\* The invariant: every call reads what it should; only the innermost has text pending,
\* and that is what its output lacks.
CallsRead == \A i \in DOMAIN frames : ReadOK(frames[i])
OuterSettled == \A i \in DOMAIN frames : i < Len(frames) => Settled(frames[i])
Reading == CallsRead /\ OuterSettled /\ flush_pending(Top).result = Top.expected

LEMMA Continued ==
  ASSUME FramesOK, NEW h, FrameOK(Past(h)), Continue(h)
  PROVE  /\ Len(frames') = Len(frames) /\ DOMAIN frames' = DOMAIN frames
         /\ DOMAIN frames = 1 .. Len(frames)
         /\ frames'[Len(frames)] = Past(h)
         /\ \A i \in 1 .. Len(frames) - 1 : frames'[i] = frames[i]
<1>1. Len(frames) \in Nat \ {0} /\ Len(frames) \in DOMAIN frames /\ frames \in Seq(Frames)
  BY TopOK DEF FramesOK
<1>2. Past(h) \in Frames
  BY DEF FrameOK
<1>3. QED
  BY <1>1, <1>2 DEF Continue

\* The innermost call goes on to e.
LEMMA ReadingOn ==
  ASSUME FramesOK, Reading, texts' = texts, NEW e, FrameOK(e), ReadOK(e), Settled(e),
         Len(frames') = Len(frames), DOMAIN frames' = DOMAIN frames,
         DOMAIN frames = 1 .. Len(frames), frames'[Len(frames)] = e,
         \A i \in 1 .. Len(frames) - 1 : frames'[i] = frames[i]
  PROVE  Reading'
<1>1. Len(frames) \in Nat \ {0}
  BY TopOK
<1>2. \A i \in DOMAIN frames' : ReadOK(frames'[i])
  BY <1>1 DEF Reading, CallsRead
<1>3. CallsRead'
  BY <1>2, ReadKept DEF CallsRead
<1>4. OuterSettled'
  BY <1>1 DEF Reading, OuterSettled, Settled
<1>5. Top' = e
  BY DEF Top
<1>6. (flush_pending(Top).result = Top.expected)'
  <2>1. e \in Frames /\ e.pending = <<>> /\ e.result = e.expected
    BY DEF FrameOK, Settled
  <2>2. (flush_pending(Top).result = Top.result)'
    <3>1. [i \in DOMAIN Top.pending |-> Expanded(Top.file, Top.pending[i])]' = <<>>
      BY <1>5, <2>1
    <3>2. (flush_pending(Top).result = Top.result \o <<>>)'
      BY <1>5, <2>1, <3>1 DEF flush_pending, Frames
    <3>3. e.result \o <<>> = e.result
      BY <2>1 DEF Frames
    <3>4. QED
      BY <1>5, <3>2, <3>3
  <2>3. QED
    BY <1>5, <2>1, <2>2
<1>7. QED
  BY <1>3, <1>4, <1>6 DEF Reading

-----------------------------------------------------------------------------
(* Every action reads on as it should.                                     *)

LEMMA FlushedOn ==
  ASSUME FramesOK, Others, Reading, ~AtEnd(Top), BadLine(Top) => LineOf(Top).op = "include",
         NEW h, Continue(h), NEW a, NEW b, Flushed(Top, Past(h), a, b), GroupsOK(Past(h))
  PROVE  Reading'
<1> DEFINE e == Past(h)
<1>1. FrameOK(Top) /\ texts \in [Files -> Seq(Lines)] /\ texts' = texts
  BY TopOK DEF FramesOK, Others
<1>2. ReadOK(Top) /\ flush_pending(Top).result = Top.expected
  BY TopOK DEF Reading, CallsRead, Top
<1>3. FrameOK(e) /\ ReadNext(Top, e) /\ Settled(e)
  BY <1>2 DEF Flushed
<1>4. ReadOK(e)
  BY <1>1, <1>2, <1>3, ReadOneMore
<1>5. /\ Len(frames') = Len(frames) /\ DOMAIN frames' = DOMAIN frames
      /\ DOMAIN frames = 1 .. Len(frames) /\ frames'[Len(frames)] = e
      /\ \A i \in 1 .. Len(frames) - 1 : frames'[i] = frames[i]
  BY <1>3, Continued
<1> HIDE DEF e
<1>6. QED
  BY <1>1, <1>3, <1>4, <1>5, ReadingOn

\* The innermost call and its next line.
LEMMA TopRead ==
  ASSUME FramesOK, Others, Reading
  PROVE  /\ FrameOK(Top) /\ GroupsOK(Top) /\ ReadOK(Top) /\ Top \in Frames
         /\ texts \in [Files -> Seq(Lines)] /\ macros \in Macros
         /\ flush_pending(Top).result = Top.expected
BY TopOK DEF FramesOK, Others, Reading, CallsRead, Top, ReadOK

\* A line that is no head and no #endif.
LEMMA PlainOn ==
  ASSUME FramesOK, Others, Reading, ~AtEnd(Top), LineOf(Top).op \notin Heads \cup {"endif"},
         BadLine(Top) => LineOf(Top).op = "include", Continue(flush_pending(Top))
  PROVE  Reading'
<1> DEFINE h == flush_pending(Top)
           a == Top.in_if_stack
           b == Top.branch_taken
<1>1. /\ FrameOK(Top) /\ GroupsOK(Top) /\ texts \in [Files -> Seq(Lines)] /\ macros \in Macros
  BY TopRead
<1>2. Flushed(Top, Past(h), a, b)
  BY <1>1, PastFlushedSame
<1>3. /\ FrameOK(Past(h)) /\ ReadNext(Top, Past(h))
      /\ Past(h).in_if_stack = a /\ Past(h).branch_taken = b
  BY <1>2 DEF Flushed
<1>4. GroupsOK(Past(h))
  BY <1>1, <1>3, SameLevels
<1> HIDE DEF h, a, b
<1>5. Continue(h)
  BY DEF h
<1>6. QED
  BY <1>2, <1>4, <1>5, FlushedOn

LEMMA SkipReads ==
  ASSUME FramesOK, Others, Reading, Skip
  PROVE  Reading'
<1>1. /\ ~AtEnd(Top) /\ Continue(flush_pending(Top))
      /\ LineOf(Top).op \in {"other", "include", "define", "undef", "error"}
      /\ LineOf(Top).op # "other" => ~Active(Top)
  BY DEF Skip, At
<1>2. LineOf(Top).op \notin Heads \cup {"endif"} /\ ~BadLine(Top)
  BY <1>1 DEF Heads, Openers, BadLine
<1>3. QED
  BY <1>1, <1>2, PlainOn

LEMMA DefineReads ==
  ASSUME FramesOK, Others, Reading, process_define \/ process_undef
  PROVE  Reading'
<1>1. /\ ~AtEnd(Top) /\ Continue(flush_pending(Top)) /\ LineOf(Top).op \in {"define", "undef"}
      /\ LineOf(Top).op = "define" => LineOf(Top).arg # None
  BY DEF process_define, process_undef, At
<1>2. LineOf(Top).op \notin Heads \cup {"endif"} /\ ~BadLine(Top)
  BY <1>1 DEF Heads, Openers, BadLine
<1>3. QED
  BY <1>1, <1>2, PlainOn

LEMMA LeaveOutReads ==
  ASSUME FramesOK, Others, Reading, Including, Continue(flush_pending(Top))
  PROVE  Reading'
<1>1. ~AtEnd(Top) /\ LineOf(Top).op = "include"
  BY DEF Including, At
<1>2. LineOf(Top).op \notin Heads \cup {"endif"}
  BY <1>1 DEF Heads, Openers
<1>3. QED
  BY <1>1, <1>2, PlainOn

LEMMA OpenReads ==
  ASSUME FramesOK, Others, Reading, Open
  PROVE  Reading'
<1> DEFINE f == flush_pending(Top)
           active == Active(Top) /\ Holds(macros, LineOf(Top))
           a == Append(Top.in_if_stack, active)
           b == Append(Top.branch_taken, active)
           h == [f EXCEPT !.in_if_stack = Append(@, active), !.branch_taken = Append(@, active)]
<1>1. /\ FrameOK(Top) /\ GroupsOK(Top) /\ texts \in [Files -> Seq(Lines)] /\ macros \in Macros
      /\ ~AtEnd(Top) /\ LineOf(Top).op \in Openers
  BY TopRead DEF Open, At
<1>2. active \in BOOLEAN
  <2>1. Holds(macros, LineOf(Top)) \in BOOLEAN
    BY DEF Holds
  <2>2. Active(Top) \in BOOLEAN
    BY DEF Active
  <2>3. QED
    BY <2>1, <2>2, Zenon
<1>3. /\ f \in Frames /\ f.in_if_stack = Top.in_if_stack /\ f.branch_taken = Top.branch_taken
  BY <1>1, FlushTop DEF FrameOK
<1>4. Continue(h)
  BY DEF Open
<1>5. ~BadLine(Top)
  BY <1>1 DEF Open, BadLine, Openers
<1>6. Top.in_if_stack \in Seq(BOOLEAN) /\ Top.branch_taken \in Seq(BOOLEAN)
      /\ Len(Top.in_if_stack) = Len(Top.branch_taken)
  BY <1>1, FrameText
<1> DEFINE act == active
<1>7. act <=> Active(Top) /\ Holds(macros, LineOf(Top))
  OBVIOUS
<1>8. h = [f EXCEPT !.in_if_stack = a, !.branch_taken = b]
  <2> HIDE DEF f, active
  <2>1. QED
    BY <1>3 DEF Frames
<1>9. h = WithStacks(f, a, b)
  BY <1>8 DEF WithStacks
<1> HIDE DEF f, active, h
<1>10. a \in Seq(BOOLEAN) /\ b \in Seq(BOOLEAN) /\ Len(a) = Len(b)
  BY <1>2, <1>6
<1> HIDE DEF a, b, act
<1>11. Flushed(Top, Past(h), a, b)
  BY <1>1, <1>9, <1>10, PastFlushed DEF f
<1>12. /\ FrameOK(Past(h)) /\ ReadNext(Top, Past(h))
       /\ Past(h).in_if_stack = a /\ Past(h).branch_taken = b
  BY <1>11 DEF Flushed
<1>13. GroupsOK(Past(h))
  BY <1>1, <1>2, <1>7, <1>12, OpenLevels DEF a, b, act
<1>14. QED
  BY <1>1, <1>4, <1>5, <1>11, <1>13, FlushedOn

LEMMA ConcatAppend ==
  ASSUME NEW S, NEW s \in Seq(S), NEW t \in Seq(S), NEW x \in S
  PROVE  (s \o t) \o <<x>> = s \o Append(t, x)
<1>1. <<x>> \in Seq(S) /\ Append(t, x) = t \o <<x>>
  BY AppendIsConcat
<1>2. QED
  BY <1>1, ConcatAssociative

LEMMA AlternativeReads ==
  ASSUME FramesOK, Others, Reading, Alternative
  PROVE  Reading'
<1> DEFINE f == flush_pending(Top)
           active == ParentActive(Top) /\ ~Taken(Top) /\ Holds(macros, LineOf(Top))
           last == Len(Top.in_if_stack)
           h == [f EXCEPT !.in_if_stack[last] = active, !.branch_taken[last] = @ \/ active]
           taken == f.branch_taken[last] \/ active
           a == [f.in_if_stack EXCEPT ![last] = active]
           b == [f.branch_taken EXCEPT ![last] = taken]
<1>1. /\ FrameOK(Top) /\ GroupsOK(Top) /\ texts \in [Files -> Seq(Lines)] /\ macros \in Macros
      /\ ~AtEnd(Top) /\ LineOf(Top).op \in Alternatives /\ Top.in_if_stack # <<>>
  BY TopRead DEF Alternative, At, Alternatives
<1>2. active \in BOOLEAN
  <2>1. Holds(macros, LineOf(Top)) \in BOOLEAN
    BY DEF Holds
  <2>2. ParentActive(Top) \in BOOLEAN
    BY DEF ParentActive
  <2>3. QED
    BY <2>1, <2>2, Zenon
<1>3. taken \in BOOLEAN
  OBVIOUS
<1>4. /\ f \in Frames /\ f.in_if_stack = Top.in_if_stack /\ f.branch_taken = Top.branch_taken
  BY <1>1, FlushTop DEF FrameOK
<1>5. Continue(h)
  BY DEF Alternative
<1>6. ~BadLine(Top)
  <2>1. LineOf(Top).op \in {"elif", "else"}
    BY <1>1 DEF Alternatives
  <2>2. ~(LineOf(Top).op = "elif" /\ LineOf(Top).arg = None /\ ~Taken(Top) /\ ParentActive(Top))
    BY DEF Alternative
  <2>3. QED
    BY <1>1, <2>1, <2>2 DEF BadLine
<1>7. Top.in_if_stack \in Seq(BOOLEAN) /\ Top.branch_taken \in Seq(BOOLEAN)
      /\ Len(Top.in_if_stack) = Len(Top.branch_taken)
  BY <1>1, FrameText
<1>8. h = [f EXCEPT !.in_if_stack = a, !.branch_taken = b]
  BY <1>4 DEF Frames
<1>9. h = WithStacks(f, a, b)
  BY <1>8 DEF WithStacks
<1>10. f.branch_taken[last] = Taken(Top)
  BY <1>4, <1>7 DEF Taken
<1> DEFINE act == active
           tkn == taken
<1>11. act <=> ParentActive(Top) /\ ~Taken(Top) /\ Holds(macros, LineOf(Top))
  OBVIOUS
<1>12. tkn <=> Taken(Top) \/ act
  BY <1>10
<1> HIDE DEF f, active, last, taken, h
<1>13. a \in Seq(BOOLEAN) /\ b \in Seq(BOOLEAN) /\ Len(a) = Len(b)
  <2>1. /\ last \in 1 .. Len(f.in_if_stack) /\ last \in 1 .. Len(f.branch_taken)
        /\ f.in_if_stack \in Seq(BOOLEAN) /\ f.branch_taken \in Seq(BOOLEAN)
        /\ Len(f.in_if_stack) = Len(f.branch_taken)
    BY <1>1, <1>4, <1>7 DEF last
  <2>2. a \in Seq(BOOLEAN) /\ Len(a) = Len(f.in_if_stack)
    BY <1>2, <2>1
  <2>3. b \in Seq(BOOLEAN) /\ Len(b) = Len(f.branch_taken)
    BY <1>3, <2>1
  <2>4. QED
    BY <2>1, <2>2, <2>3
<1>14. /\ a = [Top.in_if_stack EXCEPT ![Len(Top.in_if_stack)] = act]
       /\ b = [Top.branch_taken EXCEPT ![Len(Top.in_if_stack)] = tkn]
  BY <1>4 DEF last
<1> HIDE DEF a, b, act, tkn
<1>15. Flushed(Top, Past(h), a, b)
  BY <1>1, <1>9, <1>13, PastFlushed DEF f
<1>16. /\ FrameOK(Past(h)) /\ ReadNext(Top, Past(h))
       /\ Past(h).in_if_stack = a /\ Past(h).branch_taken = b
  BY <1>15 DEF Flushed
<1>17. act \in BOOLEAN /\ tkn \in BOOLEAN
  BY <1>2, <1>3 DEF act, tkn
<1>18. GroupsOK(Past(h))
  BY <1>1, <1>11, <1>12, <1>14, <1>16, <1>17, AlternativeLevels
<1>19. QED
  BY <1>1, <1>5, <1>6, <1>15, <1>18, FlushedOn

LEMMA EndifReads ==
  ASSUME FramesOK, Others, Reading, Endif
  PROVE  Reading'
<1> DEFINE f == flush_pending(Top)
           h == [f EXCEPT !.in_if_stack = Front(@), !.branch_taken = Front(@)]
           a == Front(Top.in_if_stack)
           b == Front(Top.branch_taken)
<1>1. /\ FrameOK(Top) /\ GroupsOK(Top) /\ texts \in [Files -> Seq(Lines)] /\ macros \in Macros
      /\ ~AtEnd(Top) /\ LineOf(Top).op = "endif" /\ Top.in_if_stack # <<>>
  BY TopRead DEF Endif, At
<1>2. /\ f \in Frames /\ f.in_if_stack = Top.in_if_stack /\ f.branch_taken = Top.branch_taken
  BY <1>1, FlushTop DEF FrameOK
<1>3. Continue(h)
  BY DEF Endif
<1>4. ~BadLine(Top)
  BY <1>1 DEF BadLine
<1>5. h = WithStacks(f, a, b)
  <2> HIDE DEF f
  <2>1. QED
    BY <1>2 DEF Frames, WithStacks
<1> HIDE DEF f, h
<1>6. a \in Seq(BOOLEAN) /\ b \in Seq(BOOLEAN) /\ Len(a) = Len(b)
  <2>1. Top.in_if_stack \in Seq(BOOLEAN) /\ Top.branch_taken \in Seq(BOOLEAN)
        /\ Len(Top.in_if_stack) = Len(Top.branch_taken) /\ Len(Top.in_if_stack) \in Nat
    BY <1>1, FrameText
  <2>2. QED
    BY <1>1, <2>1 DEF Front
<1> HIDE DEF a, b
<1>7. Flushed(Top, Past(h), a, b)
  BY <1>1, <1>5, <1>6, PastFlushed DEF f
<1>8. /\ FrameOK(Past(h)) /\ ReadNext(Top, Past(h))
      /\ Past(h).in_if_stack = a /\ Past(h).branch_taken = b
  BY <1>7 DEF Flushed
<1>9. GroupsOK(Past(h))
  BY <1>1, <1>8, EndifLevels DEF a, b
<1>10. QED
  BY <1>1, <1>3, <1>4, <1>7, <1>9, FlushedOn

\* Text is pending exactly if it is expected.
LEMMA TextReads ==
  ASSUME FramesOK, Others, Reading, Text, UNCHANGED macros
  PROVE  Reading'
<1> DEFINE f == Top
           g == IF Active(f) THEN [f EXCEPT !.pending = Append(@, f.pos)] ELSE f
           pend == IF Active(f) THEN Append(f.pending, f.pos) ELSE f.pending
           read == IF Reached(f, f.pos) THEN <<Expanded(f.file, f.pos)>> ELSE <<>>
           h == [g EXCEPT !.expected = @ \o read]
           e == Past(h)
           Out(s) == [i \in DOMAIN s |-> Expanded(f.file, s[i])]
<1>1. /\ FrameOK(f) /\ GroupsOK(f) /\ texts \in [Files -> Seq(Lines)] /\ macros \in Macros
      /\ ReadOK(f) /\ f \in Frames /\ ~AtEnd(f) /\ LineOf(f).op = "text" /\ texts' = texts
      /\ flush_pending(f).result = f.expected
  BY TopRead DEF Text, At, Others
<1>2. Active(f) <=> Reached(f, f.pos)
  BY <1>1, ActiveMeans
<1>3. h = [[f EXCEPT !.pending = pend] EXCEPT !.expected = f.expected \o read]
  <2>1. g = [f EXCEPT !.pending = pend]
    BY <1>1 DEF Frames
  <2>2. g.expected = f.expected
    BY <1>1, <2>1 DEF Frames
  <2>3. QED
    BY <2>1, <2>2
<1>4. Continue(h)
  BY DEF Text
<1>5. f.expected \o read = f.result \o Out(pend)
  <2>1. f.expected = f.result \o Out(f.pending)
    BY <1>1, FlushFields
  <2>2. f.pending \in Seq(Nat) /\ f.pos \in Nat /\ f.result \in Seq(Output)
    BY <1>1 DEF Frames
  <2>3. CASE ~Active(f)
    <3>1. read = <<>> /\ pend = f.pending
      BY <1>2, <2>3
    <3>2. f.expected \o <<>> = f.expected
      BY <1>1 DEF Frames
    <3>3. QED
      BY <2>1, <3>1, <3>2
  <2>4. CASE Active(f)
    <3>1. read = <<Expanded(f.file, f.pos)>> /\ pend = Append(f.pending, f.pos)
      BY <1>2, <2>4
    <3>2. \A p \in Nat : Expanded(f.file, p) \in Output
      BY <1>1 DEF Expanded, Output, Macros, Frames
    <3> HIDE DEF f
    <3>3. Out(f.pending) \in Seq(Output) /\ Len(Out(f.pending)) = Len(f.pending)
      BY <2>2, <3>2
    <3>4. Out(Append(f.pending, f.pos)) = Append(Out(f.pending), Expanded(f.file, f.pos))
      BY <2>2, <3>2
    <3>5. Expanded(f.file, f.pos) \in Output
      BY <2>2, <3>2
    <3> HIDE DEF Out
    <3>6. (f.result \o Out(f.pending)) \o <<Expanded(f.file, f.pos)>>
            = f.result \o Append(Out(f.pending), Expanded(f.file, f.pos))
      <4>1. \A s, u \in Seq(Output) : \A x \in Output : (s \o u) \o <<x>> = s \o Append(u, x)
        BY ConcatAppend
      <4>2. QED
        BY <2>2, <3>3, <3>5, <4>1, Zenon
    <3>7. QED
      BY <2>1, <3>1, <3>4, <3>6
  <2>5. QED
    BY <2>3, <2>4
<1> HIDE DEF g, read, h, Out
<1>6. pend \in Seq(Nat) /\ f.expected \o read \in Seq(Output)
  <2>1. f.pending \in Seq(Nat) /\ f.pos \in Nat /\ f.expected \in Seq(Output)
    BY <1>1 DEF Frames
  <2>2. Expanded(f.file, f.pos) \in Output
    BY <1>1 DEF Expanded, Output, Macros, Frames
  <2>3. read \in Seq(Output)
    BY <2>2 DEF read
  <2>4. QED
    BY <2>1, <2>3
<1> HIDE DEF pend
<1>7. h = [file |-> f.file, pos |-> f.pos, in_if_stack |-> f.in_if_stack,
           branch_taken |-> f.branch_taken, pending |-> pend, result |-> f.result,
           saw |-> f.saw, expected |-> f.expected \o read]
  BY <1>1, <1>3, TextSet
<1>8. FrameOK(h) /\ h \in Frames
  <2>1. /\ f.in_if_stack \in Seq(BOOLEAN) /\ f.branch_taken \in Seq(BOOLEAN)
        /\ Len(f.in_if_stack) = Len(f.branch_taken) /\ f.result \in Seq(Output)
    BY <1>1, FrameText DEF Frames
  <2>2. FrameOK([file |-> f.file, pos |-> f.pos, in_if_stack |-> f.in_if_stack,
                 branch_taken |-> f.branch_taken, pending |-> pend, result |-> f.result,
                 saw |-> f.saw, expected |-> f.expected \o read])
    BY <1>1, <1>6, <2>1, WithOK
  <2>3. QED
    BY <1>7, <2>2 DEF FrameOK
<1>9. /\ h.file = f.file /\ h.pos = f.pos /\ h.in_if_stack = f.in_if_stack
      /\ h.branch_taken = f.branch_taken /\ h.pending = pend /\ h.result = f.result
      /\ h.saw = f.saw /\ h.expected = f.expected \o read
  BY <1>7
<1>10. ~AtEnd(h)
  BY <1>1, <1>9 DEF AtEnd
<1>11. FrameOK(e)
  BY <1>1, <1>8, <1>10, PastOK
<1>12. /\ e.file = f.file /\ e.pos = f.pos + 1 /\ e.in_if_stack = f.in_if_stack
       /\ e.branch_taken = f.branch_taken /\ e.saw = Append(f.saw, macros)
       /\ e.pending = pend /\ e.result = f.result /\ e.expected = f.expected \o read
  <2>1. /\ e.file = h.file /\ e.pos = h.pos + 1 /\ e.in_if_stack = h.in_if_stack
        /\ e.branch_taken = h.branch_taken /\ e.saw = Append(h.saw, macros)
        /\ e.pending = h.pending /\ e.result = h.result /\ e.expected = h.expected
    BY <1>8, PastFields
  <2>2. QED
    BY <1>9, <2>1
<1>13. ReadNext(f, e)
  <2>1. f.saw \in Seq(Macros) /\ Len(f.saw) = f.pos - 1 /\ f.pos \in Nat
    BY <1>1, FrameText
  <2>2. QED
    BY <1>1, <1>12, <2>1, AppendFacts DEF ReadNext
<1>14. ReadOK(e)
  <2>1. LineOf(f).op \notin Heads \cup {"endif"} /\ ~BadLine(f)
    BY <1>1 DEF Heads, Openers, BadLine
  <2>2. GroupsOK(e)
    BY <1>1, <1>11, <1>12, <1>13, <2>1, SameLevels
  <2>3. QED
    BY <1>1, <1>11, <1>13, <2>1, <2>2, ReadOneMore
<1>15. /\ Len(frames') = Len(frames) /\ DOMAIN frames' = DOMAIN frames
       /\ DOMAIN frames = 1 .. Len(frames) /\ frames'[Len(frames)] = e
       /\ \A i \in 1 .. Len(frames) - 1 : frames'[i] = frames[i]
       /\ Len(frames) \in Nat \ {0}
  BY <1>4, <1>11, Continued, TopOK
<1> HIDE DEF e
<1>16. CallsRead'
  <2>1. \A i \in DOMAIN frames' : ReadOK(frames'[i])
    BY <1>14, <1>15 DEF Reading, CallsRead
  <2>2. QED
    BY <1>1, <2>1, ReadKept DEF CallsRead
<1>17. OuterSettled'
  BY <1>15 DEF Reading, OuterSettled, Settled
<1>18. (flush_pending(Top).result = Top.expected)'
  <2>1. Top' = e /\ e \in Frames
    BY <1>11, <1>15 DEF Top, FrameOK
  <2>2. (flush_pending(Top).result)' = flush_pending(e).result
    BY <1>1, <2>1 DEF flush_pending, Expanded
  <2>3. flush_pending(e).result = e.result \o [i \in DOMAIN e.pending |-> Expanded(e.file, e.pending[i])]
    BY <2>1, FlushFields
  <2>4. QED
    BY <1>5, <1>12, <2>1, <2>2, <2>3 DEF Out
<1>19. QED
  BY <1>16, <1>17, <1>18 DEF Reading

\* A call that has read nothing.
LEMMA NewFrameReads ==
  ASSUME NEW f \in Files, texts \in [Files -> Seq(Lines)]
  PROVE  ReadOK(Frame(f)) /\ Settled(Frame(f)) /\ Frame(f) \in Frames
<1>1. /\ Frame(f).file = f /\ Frame(f).pos = 1 /\ Frame(f).in_if_stack = <<>>
      /\ Frame(f).pending = <<>> /\ Frame(f).result = <<>> /\ Frame(f).expected = <<>>
  BY DEF Frame
<1>2. Depth(texts[f], 0) = 0
  BY DepthStart
<1>3. OpenGroups(Frame(f)) = {}
  BY <1>1 DEF OpenGroups
<1>4. GroupsOK(Frame(f))
  <2>1. Nested(Frame(f))
    BY <1>1, <1>2, <1>3 DEF Nested
  <2>2. Remembers(Frame(f))
    BY <1>3 DEF Remembers
  <2>3. QED
    BY <2>1, <2>2 DEF GroupsOK
<1>5. PassedOK(Frame(f))
  BY <1>1 DEF PassedOK
<1>6. QED
  BY <1>1, <1>4, <1>5, NewFrameOK DEF ReadOK, Settled, FrameOK

\* What a call has read does not depend on its text.
LEMMA ReadSame ==
  ASSUME NEW f, NEW e, ReadOK(f), e.file = f.file, e.pos = f.pos,
         e.in_if_stack = f.in_if_stack, e.branch_taken = f.branch_taken, e.saw = f.saw
  PROVE  ReadOK(e)
<1>1. \A g : Chosen(e, g) <=> Chosen(f, g)
  BY DEF Chosen
<1>2. \A p : Reached(e, p) <=> Reached(f, p)
  BY <1>1 DEF Reached
<1>3. \A p : Bad(e, p) <=> Bad(f, p)
  BY <1>1, <1>2 DEF Bad
<1>4. PassedOK(e)
  BY <1>3 DEF PassedOK, ReadOK
<1>5. OpenGroups(e) = OpenGroups(f) /\ \A g : Level(e, g) = Level(f, g)
  BY DEF OpenGroups, Level
<1>6. \A k : ChosenTo(e, k) <=> ChosenTo(f, k)
  BY <1>1, <1>5 DEF ChosenTo
<1>7. \A g : SomeHeld(e, g) <=> SomeHeld(f, g)
  BY DEF SomeHeld
<1>8. Nested(e)
  BY <1>5 DEF Nested, ReadOK, GroupsOK
<1>9. Remembers(e)
  BY <1>5, <1>6, <1>7 DEF Remembers, ReadOK, GroupsOK
<1>10. QED
  BY <1>4, <1>8, <1>9 DEF ReadOK, GroupsOK

\* A step behind which nothing is pending.
LEMMA ReadingFrom ==
  ASSUME FramesOK', texts' = texts,
         \A i \in DOMAIN frames' : ReadOK(frames'[i]) /\ Settled(frames'[i])
  PROVE  Reading'
<1>1. CallsRead'
  BY ReadKept DEF CallsRead
<1>2. OuterSettled'
  BY DEF OuterSettled, Settled
<1>3. Top' \in Frames /\ Top'.pending = <<>> /\ Top'.result = Top'.expected
  <2>1. Len(frames') \in DOMAIN frames' /\ frames' \in Seq(Frames)
    BY DEF FramesOK
  <2>2. QED
    BY <2>1 DEF Top, Settled
<1>4. (flush_pending(Top).result = Top.expected)'
  <2>1. [i \in DOMAIN Top.pending |-> Expanded(Top.file, Top.pending[i])]' = <<>>
    BY <1>3
  <2>2. (flush_pending(Top).result = Top.result \o <<>>)'
    BY <1>3, <2>1 DEF flush_pending, Frames
  <2>3. Top'.result \o <<>> = Top'.result
    BY <1>3 DEF Frames
  <2>4. QED
    BY <1>3, <2>2, <2>3
<1>5. QED
  BY <1>1, <1>2, <1>4 DEF Reading

LEMMA EnterReads ==
  ASSUME FramesOK, Others, Reading, resolve_include_file
  PROVE  Reading'
<1> DEFINE d == Len(frames)
           e == Past(flush_pending(Top))
           a == Top.in_if_stack
           b == Top.branch_taken
<1>1. /\ FrameOK(Top) /\ GroupsOK(Top) /\ ReadOK(Top) /\ texts \in [Files -> Seq(Lines)]
      /\ macros \in Macros /\ flush_pending(Top).result = Top.expected /\ texts' = texts
  BY TopRead DEF Others
<1>2. ~AtEnd(Top) /\ LineOf(Top).op = "include"
  BY DEF resolve_include_file, Including, At
<1>3. Flushed(Top, e, a, b)
  BY <1>1, <1>2, PastFlushedSame
<1>4. /\ FrameOK(e) /\ ReadNext(Top, e) /\ e.in_if_stack = a /\ e.branch_taken = b /\ Settled(e)
  BY <1>1, <1>3 DEF Flushed
<1>5. ReadOK(e)
  <2>1. LineOf(Top).op \notin Heads \cup {"endif"}
    BY <1>2 DEF Heads, Openers
  <2>2. GroupsOK(e)
    BY <1>1, <1>2, <1>4, <2>1, SameLevels
  <2>3. QED
    BY <1>1, <1>2, <1>4, <2>2, ReadOneMore
<1>6. FramesOK' /\ Target \in Files
  BY EnterStep
<1>7. /\ ReadOK(Frame(Target)) /\ Settled(Frame(Target)) /\ Frame(Target) \in Frames
      /\ e \in Frames
  BY <1>1, <1>4, <1>6, NewFrameReads DEF FrameOK
<1>8. d \in Nat \ {0} /\ d \in DOMAIN frames /\ DOMAIN frames = 1 .. d /\ frames \in Seq(Frames)
  BY TopOK DEF FramesOK
<1>9. frames' = Append([frames EXCEPT ![d] = e], Frame(Target))
  BY <1>8 DEF resolve_include_file, Top
<1> HIDE DEF e, a, b
<1>10. \A i \in 1 .. d - 1 : frames[i] \in Frames /\ ReadOK(frames[i]) /\ Settled(frames[i])
  BY <1>8 DEF Reading, CallsRead, OuterSettled
<1>11. /\ DOMAIN frames' = 1 .. d + 1
       /\ \A i \in 1 .. d : frames'[i] = IF i = d THEN e ELSE frames[i]
       /\ frames'[d + 1] = Frame(Target)
  <2> DEFINE s == [frames EXCEPT ![d] = e]
  <2>1. s \in Seq(Frames) /\ Len(s) = d /\ \A i \in 1 .. d : s[i] = IF i = d THEN e ELSE frames[i]
    BY <1>7, <1>8, SetFacts
  <2>2. frames' = Append(s, Frame(Target))
    BY <1>9
  <2> HIDE DEF s, d
  <2>3. QED
    BY <1>7, <2>1, <2>2, AppendFacts
<1> HIDE DEF d
<1>12. ASSUME NEW i \in DOMAIN frames' PROVE ReadOK(frames'[i]) /\ Settled(frames'[i])
  <2>1. i = d + 1 \/ i = d \/ i \in 1 .. d - 1
    BY <1>8, <1>11
  <2>2. CASE i = d + 1
    BY <1>7, <1>11, <2>2
  <2>3. CASE i = d
    BY <1>4, <1>5, <1>8, <1>11, <2>3
  <2>4. CASE i \in 1 .. d - 1
    BY <1>8, <1>10, <1>11, <2>4
  <2>5. QED
    BY <2>1, <2>2, <2>3, <2>4
<1>13. QED
  BY <1>1, <1>6, <1>12, ReadingFrom

LEMMA ReturnReads ==
  ASSUME FramesOK, Others, Reading, Return
  PROVE  Reading'
<1> DEFINE d == Len(frames)
           f == flush_pending(Top)
<1>1. /\ FrameOK(Top) /\ ReadOK(Top) /\ Top \in Frames /\ f.result = Top.expected
      /\ texts' = texts
  BY TopRead DEF Others
<1>2. d \in Nat \ {0} /\ DOMAIN frames = 1 .. d /\ frames \in Seq(Frames)
  BY TopOK DEF FramesOK
<1>3. FramesOK'
  BY ReturnStep
<1>4. /\ f.file = Top.file /\ f.pos = Top.pos /\ f.in_if_stack = Top.in_if_stack
      /\ f.branch_taken = Top.branch_taken /\ f.saw = Top.saw /\ f.pending = <<>>
      /\ f.expected = Top.expected
  BY <1>1, FlushFields
<1>5. ReadOK(f) /\ Settled(f)
  <2>1. Settled(f)
    BY <1>1, <1>4 DEF Settled
  <2> HIDE DEF f
  <2>2. QED
    BY <1>1, <1>4, <2>1, ReadSame
<1>6. CASE d = 1
  <2>1. frames' = <<f>>
    BY <1>6 DEF Return
  <2> HIDE DEF f
  <2>2. \A i \in DOMAIN frames' : frames'[i] = f
    BY <2>1
  <2>3. QED
    BY <1>1, <1>3, <1>5, <2>2, ReadingFrom
<1>7. CASE d # 1
  <2> DEFINE p == frames[d - 1]
             g == [p EXCEPT !.result = p.result \o f.result, !.expected = p.expected \o f.expected]
             s == Front(frames)
  <2>1. d - 1 \in 1 .. d /\ d - 1 < d /\ d > 1
    BY <1>2, <1>7
  <2>2. /\ s \in Seq(Frames) /\ Len(s) = d - 1 /\ DOMAIN s = 1 .. d - 1
        /\ \A i \in 1 .. d - 1 : s[i] = frames[i]
    BY <1>2, <2>1, FrontFacts
  <2>3. p \in Frames /\ ReadOK(p) /\ Settled(p)
    BY <1>2, <2>1 DEF Reading, CallsRead, OuterSettled
  <2>4. frames' = [s EXCEPT ![d - 1].result = @ \o f.result, ![d - 1].expected = @ \o f.expected]
    BY <1>7 DEF Return
  <2> HIDE DEF f, s
  <2>5. p.expected = [p EXCEPT !.result = p.result \o f.result].expected
    BY <2>3 DEF Frames
  <2>6. frames' = [s EXCEPT ![d - 1] = g]
    BY <1>2, <2>1, <2>2, <2>4, <2>5
  <2> HIDE DEF p
  <2>7. /\ g.file = p.file /\ g.pos = p.pos /\ g.in_if_stack = p.in_if_stack
        /\ g.branch_taken = p.branch_taken /\ g.saw = p.saw /\ g.pending = p.pending
        /\ g.result = p.result \o f.result /\ g.expected = p.expected \o f.expected
    BY <2>3 DEF Frames
  <2> HIDE DEF g
  <2>8. ReadOK(g) /\ Settled(g)
    <3>1. ReadOK(g)
      BY <2>3, <2>7, ReadSame
    <3>2. p.result = p.expected /\ f.result = f.expected /\ p.pending = <<>>
      BY <1>5, <2>3 DEF Settled
    <3>3. g.result = g.expected /\ g.pending = <<>>
      BY <2>7, <3>2, Zenon
    <3>4. QED
      BY <3>1, <3>3 DEF Settled
  <2>9. /\ DOMAIN frames' = 1 .. d - 1
        /\ \A i \in 1 .. d - 1 : frames'[i] = IF i = d - 1 THEN g ELSE frames[i]
    BY <1>2, <2>1, <2>2, <2>6
  <2>10. ASSUME NEW i \in DOMAIN frames' PROVE ReadOK(frames'[i]) /\ Settled(frames'[i])
    <3>1. CASE i = d - 1
      BY <2>8, <2>9, <3>1
    <3>2. CASE i # d - 1
      <4>1. i \in 1 .. d - 1 /\ frames'[i] = frames[i]
        BY <2>9, <3>2
      <4>2. i \in 1 .. d /\ i < d
        BY <1>2, <4>1
      <4>3. QED
        BY <1>2, <4>1, <4>2 DEF Reading, CallsRead, OuterSettled
    <3>3. QED
      BY <3>1, <3>2
  <2>11. QED
    BY <1>1, <1>3, <2>10, ReadingFrom
<1>8. QED
  BY <1>6, <1>7

LEMMA FailReads ==
  ASSUME FramesOK, Others, Reading, Fail
  PROVE  Reading'
<1>1. texts' = texts /\ macros' = macros /\ FramesOK'
  BY FailStep DEF Fail, Others
<1>2. CASE frames' = frames
  <2>1. CallsRead'
    BY <1>1, <1>2, ReadKept DEF Reading, CallsRead
  <2>2. OuterSettled'
    BY <1>2 DEF Reading, OuterSettled, Settled
  <2>3. (flush_pending(Top).result = Top.expected)'
    BY <1>1, <1>2 DEF Reading, Top, flush_pending, Expanded
  <2>4. QED
    BY <2>1, <2>2, <2>3 DEF Reading
<1>3. CASE Len(frames) > 1 /\ frames' = Front(frames)
  <2>1. frames \in Seq(Frames) /\ DOMAIN frames = 1 .. Len(frames) /\ Len(frames) \in Nat
    BY DEF FramesOK
  <2>2. /\ DOMAIN frames' = 1 .. Len(frames) - 1
        /\ \A i \in 1 .. Len(frames) - 1 : frames'[i] = frames[i]
    BY <1>3, <2>1, FrontFacts
  <2>3. \A i \in 1 .. Len(frames) - 1 : i \in DOMAIN frames /\ i < Len(frames)
    BY <2>1
  <2>4. \A i \in DOMAIN frames' : ReadOK(frames'[i]) /\ Settled(frames'[i])
    BY <2>2, <2>3 DEF Reading, CallsRead, OuterSettled
  <2>5. QED
    BY <1>1, <2>4, ReadingFrom
<1>4. QED
  BY <1>2, <1>3 DEF Fail

LEMMA StepReads == TypeOK /\ Reading /\ [Next]_vars => Reading'
<1> SUFFICES ASSUME TypeOK, Reading, [Next]_vars PROVE Reading'
  OBVIOUS
<1>1. FramesOK /\ RestOK
  BY TypeParts
<1>2. CASE UNCHANGED vars
  <2>1. texts' = texts /\ frames' = frames /\ macros' = macros
    BY <1>2 DEF vars
  <2>2. CallsRead'
    BY <2>1, ReadKept DEF Reading, CallsRead
  <2>3. OuterSettled'
    BY <2>1 DEF Reading, OuterSettled, Settled
  <2>4. (flush_pending(Top).result = Top.expected)'
    BY <2>1 DEF Reading, Top, flush_pending, Expanded
  <2>5. QED
    BY <2>2, <2>3, <2>4 DEF Reading
<1>3. CASE Next
  <2>1. Others
    BY <1>1, <1>3, TextsKept DEF RestOK, Others
  <2>2. CASE Text
    BY <1>1, <2>1, <2>2, TextReads DEF Text, Same
  <2>3. CASE Skip
    BY <1>1, <2>1, <2>3, SkipReads
  <2>4. CASE process_define \/ process_undef
    BY <1>1, <2>1, <2>4, DefineReads
  <2>5. CASE Open
    BY <1>1, <2>1, <2>5, OpenReads
  <2>6. CASE Alternative
    BY <1>1, <2>1, <2>6, AlternativeReads
  <2>7. CASE Endif
    BY <1>1, <2>1, <2>7, EndifReads
  <2>8. CASE LeaveOut
    BY <1>1, <2>1, <2>8, LeaveOutReads DEF LeaveOut
  <2>9. CASE NotFound /\ Continue(flush_pending(Top))
    BY <1>1, <2>1, <2>9, LeaveOutReads DEF NotFound
  <2>10. CASE Fail
    BY <1>1, <2>1, <2>10, FailReads
  <2>11. CASE resolve_include_file
    BY <1>1, <2>1, <2>11, EnterReads
  <2>12. CASE Return
    BY <1>1, <2>1, <2>12, ReturnReads
  <2>13. QED
    BY <1>3, <2>2, <2>3, <2>4, <2>5, <2>6, <2>7, <2>8, <2>9, <2>10, <2>11, <2>12
       DEF Next, Malformed, Unopened, Unterminated, NotFound
<1>4. QED
  BY <1>2, <1>3

LEMMA InitReads == Init => Reading
<1> SUFFICES ASSUME Init PROVE Reading
  OBVIOUS
<1>1. texts \in [Files -> Seq(Lines)] /\ Root \in Files
  BY PreprocessorAssumption DEF Init
<1>2. ReadOK(Frame(Root)) /\ Settled(Frame(Root)) /\ Frame(Root) \in Frames
  BY <1>1, NewFrameReads
<1>3. frames = <<Frame(Root)>>
  BY DEF Init
<1> HIDE DEF Init
<1>4. DOMAIN frames = {1} /\ Len(frames) = 1 /\ Top = Frame(Root) /\ frames[1] = Frame(Root)
  BY <1>3 DEF Top
<1>5. flush_pending(Top).result = Top.expected
  BY <1>2, <1>4, NothingPending DEF Settled
<1>6. QED
  BY <1>2, <1>4, <1>5 DEF Reading, CallsRead, OuterSettled

LEMMA AlwaysReading == Spec => []Reading
BY InitTypes, StepTypes, InitReads, StepReads, PTL DEF Spec

\* For every text, however deep its conditionals nest and whatever macros hold where:
\* the stacks of resolve_includes call a line active exactly if every group around it is
\* the first of its conditional whose head held when it was read.
THEOREM PreprocessorActiveGroups == Spec => []ActiveGroups
<1>1. TypeOK /\ Reading => ActiveGroups
  BY TypeParts, ActiveMeans DEF FramesOK, Reading, CallsRead, ReadOK, ActiveGroups
<1>2. QED
  BY <1>1, AlwaysReading, PreprocessorTypeCorrect, PTL

\* The output of every call, once its pending text is expanded, is the text of the groups
\* that are read with the output of the included files in place, and each line has the
\* value its macro had there: no directive is read between the text and its expansion
\* that could change it (flush_pending at each directive of resolve_includes).
THEOREM PreprocessorOutputAsExpected == Spec => []OutputAsExpected
<1>1. TypeOK /\ Reading => OutputAsExpected
  <2> SUFFICES ASSUME TypeOK, Reading, NEW i \in DOMAIN frames
               PROVE  flush_pending(frames[i]).result = frames[i].expected
    BY DEF OutputAsExpected
  <2>1. frames[i] \in Frames /\ frames \in Seq(Frames)
    BY DEF TypeOK
  <2>2. CASE i = Len(frames)
    BY <2>2 DEF Reading, Top
  <2>3. CASE i < Len(frames)
    <3>1. frames[i].pending = <<>> /\ frames[i].result = frames[i].expected
      BY <2>3 DEF Reading, OuterSettled, Settled
    <3>2. QED
      BY <2>1, <3>1, NothingPending
  <2>4. QED
    BY <2>1, <2>2, <2>3
<1>2. QED
  BY <1>1, AlwaysReading, PreprocessorTypeCorrect, PTL

-----------------------------------------------------------------------------
(* Errors.                                                                 *)

Verdict ==
  /\ status = "error" => Bad(Top, Top.pos)
  /\ status = "done" => ~Bad(Top, Top.pos)

\* A call fails at a bad line only.
LEMMA FailsAtBad ==
  ASSUME FramesOK, Reading,
         \/ Malformed \/ Unopened \/ Unterminated
         \/ Including /\ ~OnStack(LineOf(Top).arg) /\ Target = None
  PROVE  Bad(Top, Top.pos)
<1>1. /\ FrameOK(Top) /\ GroupsOK(Top) /\ texts \in [Files -> Seq(Lines)]
  BY TopOK DEF FramesOK, Reading, CallsRead, Top, ReadOK
<1>2. CASE Unterminated
  BY <1>1, <1>2, BadEnd DEF Unterminated
<1>3. CASE ~AtEnd(Top) /\ BadLine(Top)
  BY <1>1, <1>3, BadMeans
<1>4. CASE Malformed
  <2>1. ~AtEnd(Top)
    BY <1>4 DEF Malformed, At
  <2>2. BadLine(Top)
    BY <1>4 DEF Malformed, At, BadLine
  <2>3. QED
    BY <1>3, <2>1, <2>2
<1>5. CASE Unopened
  BY <1>3, <1>5 DEF Unopened, At, BadLine
<1>6. CASE Including /\ ~OnStack(LineOf(Top).arg) /\ Target = None
  BY <1>3, <1>6 DEF Including, At, BadLine, Target
<1>7. QED
  BY <1>2, <1>4, <1>5, <1>6

LEMMA StepVerdict == TypeOK /\ Reading /\ Verdict /\ [Next]_vars => Verdict'
<1> SUFFICES ASSUME TypeOK, Reading, Verdict, [Next]_vars PROVE Verdict'
  OBVIOUS
<1>1. FramesOK /\ RestOK
  BY TypeParts
<1>2. ASSUME texts' = texts, frames' = frames PROVE Bad(Top, Top.pos) <=> Bad(Top, Top.pos)'
  BY <1>2 DEF Bad, Reached, Chosen, Top
<1>3. CASE UNCHANGED vars
  BY <1>2, <1>3 DEF vars, Verdict
<1>4. CASE Next /\ status' = "running"
  BY <1>4 DEF Verdict
<1>5. ASSUME Next, Fail, status' # "running", Bad(Top, Top.pos) PROVE Verdict'
  <2>1. status = "running"
    BY <1>5 DEF Next, Text, Skip, Malformed, process_define, process_undef, Open, Alternative,
       Endif, Unopened, LeaveOut, NotFound, resolve_include_file, Return, Unterminated,
       Including, At
  <2>2. frames' = frames /\ texts' = texts /\ status' = "error"
    BY <1>5, <2>1 DEF Fail
  <2>3. QED
    BY <1>2, <1>5, <2>2 DEF Verdict
<1>6. CASE Malformed \/ Unopened \/ Unterminated
  BY <1>1, <1>4, <1>5, <1>6, FailsAtBad DEF Next, Malformed, Unopened, Unterminated
<1>7. CASE NotFound
  <2>1. status = "running" /\ Including /\ ~OnStack(LineOf(Top).arg) /\ Target = None
    BY <1>7 DEF NotFound, Including, At
  <2>2. CASE Fail
    BY <1>1, <1>4, <1>5, <1>7, <2>1, <2>2, FailsAtBad DEF Next
  <2>3. CASE Same
    BY <1>4, <1>7, <2>1, <2>3 DEF Same, Next
  <2>4. QED
    BY <1>7, <2>2, <2>3 DEF NotFound
<1>8. CASE Return
  <2>1. Others /\ status = "running"
    BY <1>1, <1>8, TextsKept DEF RestOK, Others, Return, Next
  <2>2. CASE Len(frames) # 1
    BY <1>4, <1>8, <2>1, <2>2 DEF Return, Next
  <2>3. CASE Len(frames) = 1
    <3> DEFINE f == flush_pending(Top)
    <3>1. /\ FrameOK(Top) /\ ReadOK(Top) /\ Top \in Frames /\ GroupsOK(Top)
          /\ texts \in [Files -> Seq(Lines)]
      BY <1>1, <2>1, TopRead
    <3>2. f.file = Top.file /\ f.pos = Top.pos /\ f.saw = Top.saw
      BY <3>1, FlushFields
    <3>3. ~Bad(Top, Top.pos)
      BY <1>8, <3>1, BadEnd DEF Return
    <3>4. frames' = <<f>> /\ texts' = texts /\ status' = "done"
      BY <1>8, <2>1, <2>3 DEF Return, Others
    <3> HIDE DEF f
    <3>5. ~Bad(f, f.pos)
      BY <3>1, <3>2, <3>3, SameVerdict DEF Frames
    <3>6. Top' = f
      BY <3>4 DEF Top
    <3>7. Bad(f, f.pos) <=> Bad(Top, Top.pos)'
      BY <3>4, <3>6 DEF Bad, Reached, Chosen
    <3>8. QED
      BY <3>4, <3>5, <3>7 DEF Verdict
  <2>4. QED
    BY <2>2, <2>3
<1>9. CASE \/ Text \/ Skip \/ process_define \/ process_undef \/ Open \/ Alternative \/ Endif
           \/ LeaveOut \/ resolve_include_file
  <2>1. status' = "running"
    BY <1>9 DEF Text, Skip, process_define, process_undef, Open, Alternative, Endif, LeaveOut,
       resolve_include_file, Including, At, Same
  <2>2. QED
    BY <1>4, <1>9, <2>1 DEF Next
<1>10. QED
  BY <1>3, <1>6, <1>7, <1>8, <1>9 DEF Next

LEMMA InitVerdict == Init => Verdict
BY DEF Init, Verdict

-----------------------------------------------------------------------------
(* The #include lines that are passed.                                     *)

\* The next line of the innermost call, if it is a bad #include, is one that may be passed.
PassesTop ==
  BadLine(Top) /\ LineOf(Top).op = "include" => MayPass(Len(frames), Top.pos)

\* A step of the calls: the innermost reads a line or is left, or a new one begins.
Moves ==
  /\ texts' = texts /\ setting' = setting
  /\ \A i \in DOMAIN frames' :
       IF i \in DOMAIN frames
         THEN /\ frames'[i].file = frames[i].file
              /\ \/ frames'[i].pos = frames[i].pos /\ frames'[i].saw = frames[i].saw
                 \/ /\ i = Len(frames) /\ ~AtEnd(Top) /\ PassesTop
                    /\ ReadNext(Top, frames'[i])
         ELSE frames'[i].pos = 1

PassedWell ==
  \A i \in DOMAIN frames : \A p \in 1 .. frames[i].pos - 1 :
    Bad(frames[i], p) => MayPass(i, p)

LEMMA MovesPass ==
  ASSUME FramesOK, FramesOK', Reading, Reading', PassedWell, Moves
  PROVE  PassedWell'
<1> SUFFICES ASSUME NEW i \in DOMAIN frames', NEW p \in 1 .. frames'[i].pos - 1,
                    Bad(frames[i], p)'
             PROVE  MayPass(i, p)'
  BY DEF PassedWell
<1>1. /\ DOMAIN frames = 1 .. Len(frames) /\ Len(frames) \in Nat
      /\ DOMAIN frames' = 1 .. Len(frames') /\ Len(frames') \in Nat
      /\ texts' = texts /\ setting' = setting
  BY DEF FramesOK, Moves
<1>2. i \in DOMAIN frames /\ frames'[i].file = frames[i].file
  BY DEF Moves
<1>3. FrameOK(frames[i]) /\ frames[i].pos \in Nat \ {0} /\ p \in Nat
  <2>1. FrameOK(frames[i])
    BY <1>2 DEF FramesOK
  <2>2. FrameOK(frames[i])'
    BY DEF FramesOK
  <2>3. frames[i].pos \in Nat \ {0}
    BY <1>2, <2>1, FrameText DEF FramesOK
  <2>4. frames'[i].pos \in Nat
    BY <2>2 DEF FrameOK, Frames
  <2>5. QED
    BY <2>1, <2>3, <2>4
<1>4. p \in 1 .. frames[i].pos - 1
      \/ (i = Len(frames) /\ p = Top.pos /\ ~AtEnd(Top) /\ PassesTop)
  BY <1>2, <1>3 DEF Moves, ReadNext, Top
<1>5. \A q \in 1 .. p - 1 : frames'[i].saw[q] = frames[i].saw[q]
  BY <1>2, <1>3 DEF Moves, ReadNext, Top
<1>6. Bad(frames[i], p)
  <2>1. Bad(frames'[i], p)
    BY <1>1 DEF Bad, Reached, Chosen
  <2>2. QED
    BY <1>2, <1>3, <1>5, <2>1, SameVerdict
<1>7. MayPass(i, p)
  <2>1. CASE p \in 1 .. frames[i].pos - 1
    BY <1>2, <1>6, <2>1 DEF PassedWell
  <2>2. CASE i = Len(frames) /\ p = Top.pos /\ ~AtEnd(Top) /\ PassesTop
    <3>1. LineOf(Top).op = "include"
      <4>1. texts'[frames'[i].file][p].op = "include"
        BY DEF Reading, CallsRead, ReadOK, PassedOK
      <4>2. QED
        BY <1>1, <1>2, <2>2, <4>1 DEF LineOf, Top
    <3>2. BadLine(Top)
      BY <1>2, <1>3, <1>6, <2>2, BadMeans DEF Top, Reading, CallsRead, ReadOK, FramesOK
    <3>3. QED
      BY <2>2, <3>1, <3>2 DEF PassesTop
  <2>3. QED
    BY <1>4, <2>1, <2>2
<1>8. Around(i)' = Around(i)
  <2>1. \A j \in 1 .. i : NameOf(j)' = NameOf(j)
    <3> SUFFICES ASSUME NEW j \in 1 .. i PROVE NameOf(j)' = NameOf(j)
      OBVIOUS
    <3>1. j \in DOMAIN frames /\ j \in DOMAIN frames'
      BY <1>1, <1>2
    <3>2. QED
      BY <3>1 DEF Moves, NameOf
  <2>2. QED
    BY <2>1 DEF Around
<1>9. QED
  BY <1>1, <1>2, <1>7, <1>8 DEF MayPass

\* In a strict run a call that fails ends everything, so that include_stack holds the names
\* of the files being read and no other.
StrictStack ==
  ~setting.allow_missing_includes /\ status = "running" =>
    /\ Len(include_stack) = Len(frames)
    /\ \A i \in DOMAIN include_stack : include_stack[i] = NameOf(i)

LEMMA StackSame ==
  ASSUME TypeOK, TypeOK', StrictStack, SameFiles,
         UNCHANGED <<include_stack, setting, status>>
  PROVE  StrictStack'
<1>1. DOMAIN include_stack = 1 .. Len(include_stack) /\ DOMAIN frames = 1 .. Len(frames)
  BY DEF TypeOK
<1>2. \A i \in DOMAIN frames : NameOf(i)' = NameOf(i)
  BY DEF SameFiles, NameOf
<1>3. QED
  BY <1>1, <1>2 DEF StrictStack, SameFiles

LEMMA StepStack ==
  ASSUME TypeOK, TypeOK', StrictStack, Next
  PROVE  StrictStack'
<1>1. FramesOK /\ RestOK /\ Others /\ setting' = setting
  BY TypeParts, TextsKept DEF RestOK, Others
<1>2. /\ include_stack \in Seq(Files \cup {RootName}) /\ Len(include_stack) \in Nat
      /\ DOMAIN include_stack = 1 .. Len(include_stack)
      /\ DOMAIN frames = 1 .. Len(frames) /\ Len(frames) \in Nat \ {0}
  BY DEF TypeOK
<1>3. ASSUME SameFiles, Same PROVE StrictStack'
  BY <1>3, StackSame DEF Same
<1>4. CASE Fail
  BY <1>4 DEF Fail, StrictStack
<1>5. CASE Text
  BY <1>1, <1>3, <1>5, TextStep DEF Text
<1>6. CASE Skip
  BY <1>1, <1>3, <1>6, FlushStep DEF Skip, At
<1>7. CASE process_define \/ process_undef
  <2>1. SameFiles
    BY <1>1, <1>7, FlushStep DEF process_define, process_undef, At
  <2>2. QED
    BY <1>7, <2>1, StackSame DEF process_define, process_undef
<1>8. CASE Open
  BY <1>1, <1>3, <1>8, OpenStep DEF Open
<1>9. CASE Alternative
  BY <1>1, <1>3, <1>9, AlternativeStep DEF Alternative
<1>10. CASE Endif
  BY <1>1, <1>3, <1>10, EndifStep DEF Endif
<1>11. CASE LeaveOut
  BY <1>1, <1>3, <1>11, FlushStep DEF LeaveOut, Including, At
<1>12. CASE NotFound
  BY <1>1, <1>3, <1>4, <1>12, FlushStep DEF NotFound, Including, At
<1>13. CASE resolve_include_file
  <2>1. /\ Target \in Files /\ Len(frames') = Len(frames) + 1
        /\ \A i \in DOMAIN frames : frames'[i].file = frames[i].file
        /\ frames'[Len(frames) + 1].file = Target
    BY <1>1, <1>13, EnterStep
  <2>2. /\ Len(include_stack') = Len(include_stack) + 1
        /\ DOMAIN include_stack' = 1 .. Len(include_stack) + 1
        /\ \A i \in 1 .. Len(include_stack) : include_stack'[i] = include_stack[i]
        /\ include_stack'[Len(include_stack) + 1] = Target
    <3>1. include_stack' = Append(include_stack, Target) /\ Target \in Files \cup {RootName}
      BY <1>13, <2>1 DEF resolve_include_file
    <3>2. QED
      BY <1>2, <3>1, AppendFacts
  <2>3. \A i \in 1 .. Len(frames) : NameOf(i)' = NameOf(i)
    BY <1>2, <2>1 DEF NameOf
  <2>4. PICK k \in Nat : k = Len(frames) + 1
    BY <1>2
  <2>5. NameOf(k)' = Target
    BY <1>2, <2>1, <2>4 DEF NameOf
  <2>6. status' = status
    BY <1>13 DEF resolve_include_file
  <2>7. ASSUME ~setting.allow_missing_includes, status = "running"
        PROVE  /\ Len(include_stack') = Len(frames')
               /\ \A i \in DOMAIN include_stack' : include_stack'[i] = NameOf(i)'
    <3>1. /\ Len(include_stack) = Len(frames)
          /\ \A i \in 1 .. Len(frames) : include_stack[i] = NameOf(i)
      BY <1>2, <2>7 DEF StrictStack
    <3>2. \A i \in 1 .. k : i \in 1 .. Len(frames) \/ i = k
      BY <1>2, <2>4
    <3>3. QED
      BY <1>2, <2>1, <2>2, <2>3, <2>4, <2>5, <3>1, <3>2
  <2>8. QED
    BY <1>1, <2>6, <2>7 DEF StrictStack
<1>14. CASE Return
  <2>1. CASE Len(frames) = 1
    BY <1>14, <2>1 DEF Return, StrictStack
  <2>2. CASE Len(frames) # 1
    <3>1. /\ Len(frames) > 1 /\ Len(frames') = Len(frames) - 1
          /\ \A i \in DOMAIN frames' : frames'[i].file = frames[i].file
      BY <1>1, <1>14, <2>2, ReturnStep
    <3>2. \A i \in 1 .. Len(frames) - 1 : NameOf(i)' = NameOf(i)
      <4>1. DOMAIN frames' = 1 .. Len(frames) - 1
        BY <3>1 DEF TypeOK
      <4>2. QED
        BY <3>1, <4>1 DEF NameOf
    <3>3. CASE Len(include_stack) = Len(frames)
      <4>1. /\ Len(include_stack') = Len(frames) - 1
            /\ DOMAIN include_stack' = 1 .. Len(frames) - 1
            /\ \A i \in 1 .. Len(frames) - 1 : include_stack'[i] = include_stack[i]
        BY <1>2, <1>14, <3>1, <3>3, FrontFacts DEF Return
      <4>2. status = "running"
        BY <1>14 DEF Return
      <4>3. QED
        BY <1>1, <1>2, <3>1, <3>2, <3>3, <4>1, <4>2 DEF StrictStack
    <3>4. QED
      BY <1>1, <1>14, <3>3 DEF Return, StrictStack
  <2>3. QED
    BY <2>1, <2>2
<1>15. QED
  BY <1>4, <1>5, <1>6, <1>7, <1>8, <1>9, <1>10, <1>11, <1>12, <1>13, <1>14
     DEF Next, Malformed, Unopened, Unterminated

\* What the innermost call goes on to is read from its next line.
LEMMA ContinueMoves ==
  ASSUME FramesOK, Others, setting' = setting, ~AtEnd(Top), PassesTop, NEW h,
         {"file", "pos", "saw"} \subseteq DOMAIN h,
         h.file = Top.file, h.pos = Top.pos, h.saw = Top.saw, Continue(h)
  PROVE  Moves
<1> DEFINE e == Past(h)
<1>1. /\ DOMAIN frames = 1 .. Len(frames) /\ Len(frames) \in DOMAIN frames
      /\ Top \in Frames /\ FrameOK(Top) /\ texts \in [Files -> Seq(Lines)]
  BY TopOK DEF FramesOK
<1>2. e.file = Top.file /\ e.pos = Top.pos + 1 /\ e.saw = Append(Top.saw, macros)
  BY DEF Past
<1>3. ReadNext(Top, e)
  <2>1. Top.saw \in Seq(Macros) /\ Len(Top.saw) = Top.pos - 1 /\ Top.pos \in Nat
    BY <1>1, FrameText
  <2> HIDE DEF e
  <2>2. QED
    BY <1>2, <2>1, AppendFacts DEF ReadNext, Others
<1>4. frames' = [frames EXCEPT ![Len(frames)] = e]
  BY DEF Continue
<1> HIDE DEF e
<1>5. \A i \in DOMAIN frames' : /\ i \in DOMAIN frames
                                /\ frames'[i] = IF i = Len(frames) THEN e ELSE frames[i]
  BY <1>1, <1>4
<1>6. \A i \in DOMAIN frames' : frames'[i].file = frames[i].file
  BY <1>2, <1>5 DEF Top
<1>7. QED
  BY <1>3, <1>5, <1>6 DEF Moves, Others

\* A frame has these fields, and other ones may change beside them.
LEMMA KeepsPlace ==
  ASSUME NEW g \in Frames, NEW a, NEW b
  PROVE  /\ {"file", "pos", "saw"} \subseteq DOMAIN g
         /\ LET h == [g EXCEPT !.in_if_stack = a, !.branch_taken = b]
            IN /\ {"file", "pos", "saw"} \subseteq DOMAIN h
               /\ h.file = g.file /\ h.pos = g.pos /\ h.saw = g.saw
<1>1. DOMAIN g = {"file", "pos", "in_if_stack", "branch_taken", "pending", "result", "saw",
                  "expected"}
  BY DEF Frames
<1>2. QED
  BY <1>1

LEMMA FlushPlace ==
  ASSUME FramesOK, Others, ~AtEnd(Top)
  PROVE  LET g == flush_pending(Top)
         IN g \in Frames /\ g.file = Top.file /\ g.pos = Top.pos /\ g.saw = Top.saw
<1>1. Top \in Frames
  BY TopOK
<1>2. FrameOK(flush_pending(Top))
  BY FlushTop
<1>3. QED
  BY <1>1, <1>2, FlushFields DEF FrameOK

LEMMA PlainMoves ==
  ASSUME FramesOK, Others, setting' = setting, ~AtEnd(Top), PassesTop,
         Continue(flush_pending(Top))
  PROVE  Moves
<1> DEFINE g == flush_pending(Top)
<1>1. g \in Frames /\ g.file = Top.file /\ g.pos = Top.pos /\ g.saw = Top.saw
  BY FlushPlace
<1>2. Continue(g)
  OBVIOUS
<1> HIDE DEF g
<1>3. {"file", "pos", "saw"} \subseteq DOMAIN g
  BY <1>1, KeepsPlace
<1>4. QED
  BY <1>1, <1>2, <1>3, ContinueMoves

\* A line that changes the conditionals.
LEMMA GroupMoves ==
  ASSUME FramesOK, Others, setting' = setting, ~AtEnd(Top), PassesTop, NEW a, NEW b,
         Continue([flush_pending(Top) EXCEPT !.in_if_stack = a, !.branch_taken = b])
  PROVE  Moves
<1> DEFINE g == flush_pending(Top)
           h == [g EXCEPT !.in_if_stack = a, !.branch_taken = b]
<1>1. g \in Frames /\ g.file = Top.file /\ g.pos = Top.pos /\ g.saw = Top.saw
  BY FlushPlace
<1>2. Continue(h)
  OBVIOUS
<1> HIDE DEF g
<1>3. /\ {"file", "pos", "saw"} \subseteq DOMAIN h
      /\ h.file = g.file /\ h.pos = g.pos /\ h.saw = g.saw
  BY <1>1, KeepsPlace
<1> HIDE DEF h
<1>4. QED
  BY <1>1, <1>2, <1>3, ContinueMoves

LEMMA TextMoves ==
  ASSUME FramesOK, Others, Text
  PROVE  Moves
<1> DEFINE read == IF Reached(Top, Top.pos) THEN <<Expanded(Top.file, Top.pos)>> ELSE <<>>
           g == IF Active(Top) THEN [Top EXCEPT !.pending = Append(@, Top.pos)] ELSE Top
           h == [g EXCEPT !.expected = @ \o read]
<1>1. ~AtEnd(Top) /\ LineOf(Top).op = "text" /\ Top \in Frames /\ setting' = setting
  BY TopOK DEF Text, At, FrameOK, Same
<1>2. PassesTop
  BY <1>1 DEF PassesTop
<1>3. Continue(h)
  BY DEF Text
<1>4. /\ g.file = Top.file /\ g.pos = Top.pos /\ g.saw = Top.saw
      /\ {"file", "pos", "saw", "expected"} \subseteq DOMAIN g
  BY <1>1 DEF Frames
<1> HIDE DEF read, g
<1>5. /\ {"file", "pos", "saw"} \subseteq DOMAIN h
      /\ h.file = g.file /\ h.pos = g.pos /\ h.saw = g.saw
  BY <1>4
<1> HIDE DEF h
<1>6. QED
  BY <1>1, <1>2, <1>3, <1>4, <1>5, ContinueMoves

\* Calls that are left.
LEMMA LeaveMoves ==
  ASSUME FramesOK, FramesOK', Others, setting' = setting, Len(frames') <= Len(frames),
         \A i \in DOMAIN frames' : /\ frames'[i].file = frames[i].file
                                   /\ frames'[i].pos = frames[i].pos
                                   /\ frames'[i].saw = frames[i].saw
  PROVE  Moves
<1>1. \A i \in DOMAIN frames' : i \in DOMAIN frames
  BY DEF FramesOK
<1>2. QED
  BY <1>1 DEF Moves, Others

LEMMA FailMoves ==
  ASSUME FramesOK, FramesOK', Others, Fail
  PROVE  Moves
<1>1. setting' = setting /\ frames \in Seq(Frames) /\ Len(frames) \in Nat
  BY DEF Fail, FramesOK
<1>2. CASE frames' = frames
  BY <1>1, <1>2, LeaveMoves
<1>3. CASE Len(frames) > 1 /\ frames' = Front(frames)
  BY <1>1, <1>3, FrontFacts, LeaveMoves
<1>4. QED
  BY <1>2, <1>3 DEF Fail

LEMMA ReturnMoves ==
  ASSUME FramesOK, FramesOK', Others, Return
  PROVE  Moves
<1> DEFINE d == Len(frames)
           f == flush_pending(Top)
<1>1. /\ d \in Nat \ {0} /\ DOMAIN frames = 1 .. d /\ frames \in Seq(Frames)
      /\ setting' = setting /\ Top \in Frames
  BY TopOK DEF FramesOK, Return, FrameOK
<1>2. f.file = Top.file /\ f.pos = Top.pos /\ f.saw = Top.saw
  BY <1>1, FlushFields
<1>3. CASE d = 1
  <2>1. frames' = <<f>>
    BY <1>3 DEF Return
  <2> HIDE DEF f
  <2>2. Len(frames') = 1 /\ \A i \in DOMAIN frames' : i = 1 /\ frames'[i] = f
    BY <2>1
  <2>3. QED
    BY <1>1, <1>2, <1>3, <2>2, LeaveMoves DEF Top
<1>4. CASE d # 1
  <2> DEFINE s == Front(frames)
  <2>1. /\ s \in Seq(Frames) /\ Len(s) = d - 1 /\ DOMAIN s = 1 .. d - 1
        /\ \A i \in 1 .. d - 1 : s[i] = frames[i]
    <3>1. Len(frames) > 1 /\ frames \in Seq(Frames)
      BY <1>1, <1>4
    <3>2. QED
      BY <3>1, FrontFacts
  <2>2. frames' = [s EXCEPT ![d - 1].result = @ \o f.result, ![d - 1].expected = @ \o f.expected]
    BY <1>4 DEF Return
  <2> HIDE DEF s, f
  <2>3. DOMAIN frames' = 1 .. d - 1
        /\ \A i \in 1 .. d - 1 : /\ frames'[i].file = s[i].file
                                 /\ frames'[i].pos = s[i].pos
                                 /\ frames'[i].saw = s[i].saw
    <3> DEFINE k == d - 1
               x == s[k].result \o f.result
               y == s[k].expected \o f.expected
               r == [s[k] EXCEPT !.result = x, !.expected = y]
    <3>1. k \in DOMAIN s /\ s[k] \in Frames
      BY <1>1, <1>4, <2>1
    <3> HIDE DEF k
    <3>2. frames' = [s EXCEPT ![k] = [s[k] EXCEPT !.result = x, !.expected = y]]
      BY <2>2, <3>1 DEF k
    <3> HIDE DEF x, y
    <3>3. r.file = s[k].file /\ r.pos = s[k].pos /\ r.saw = s[k].saw
      BY <3>1 DEF Frames
    <3>4. frames' = [s EXCEPT ![k] = r]
      BY <3>2
    <3> HIDE DEF r, d
    <3>5. QED
      BY <2>1, <3>1, <3>3, <3>4
  <2>4. Len(frames') <= d
    BY <1>1, <2>3 DEF FramesOK
  <2>5. QED
    BY <1>1, <2>1, <2>3, <2>4, LeaveMoves
<1>5. QED
  BY <1>3, <1>4

LEMMA EnterMoves ==
  ASSUME FramesOK, FramesOK', Others, PassesTop, resolve_include_file
  PROVE  Moves
<1> DEFINE d == Len(frames)
           e == Past(flush_pending(Top))
<1>1. /\ d \in Nat \ {0} /\ d \in DOMAIN frames /\ DOMAIN frames = 1 .. d
      /\ frames \in Seq(Frames) /\ FrameOK(Top) /\ texts \in [Files -> Seq(Lines)]
  BY TopOK DEF FramesOK
<1>2. ~AtEnd(Top) /\ setting' = setting /\ texts' = texts
  BY DEF resolve_include_file, Including, At, Others
<1>3. FrameOK(e) /\ ReadNext(Top, e) /\ e \in Frames
  BY <1>1, <1>2, PastFlushedSame DEF Flushed, Others, FrameOK
<1>4. Target \in Files /\ Frame(Target) \in Frames /\ Frame(Target).pos = 1
  BY <1>1, EnterStep, NewFrameReads DEF Frame
<1>5. frames' = Append([frames EXCEPT ![d] = e], Frame(Target))
  BY <1>1 DEF resolve_include_file, Top
<1> HIDE DEF e
<1>6. /\ DOMAIN frames' = 1 .. d + 1
      /\ \A i \in 1 .. d : frames'[i] = IF i = d THEN e ELSE frames[i]
      /\ frames'[d + 1] = Frame(Target)
  <2> DEFINE s == [frames EXCEPT ![d] = e]
  <2>1. s \in Seq(Frames) /\ Len(s) = d /\ \A i \in 1 .. d : s[i] = IF i = d THEN e ELSE frames[i]
    BY <1>1, <1>3, SetFacts
  <2>2. frames' = Append(s, Frame(Target))
    BY <1>5
  <2> HIDE DEF s, d
  <2>3. QED
    BY <1>4, <2>1, <2>2, AppendFacts
<1> HIDE DEF d
<1>7. \A i \in DOMAIN frames' : i \in 1 .. d \/ (i = d + 1 /\ i \notin DOMAIN frames)
  BY <1>1, <1>6
<1>8. ReadNext(Top, e) /\ Top = frames[d] /\ e.file = Top.file
  BY <1>3 DEF Top, d, ReadNext
<1>9. QED
  BY <1>1, <1>2, <1>4, <1>6, <1>7, <1>8 DEF Moves, d

\* An #include that leads nowhere is passed only where it may be.
LEMMA IncludePasses ==
  ASSUME TypeOK, StrictStack, Including,
         \/ OnStack(LineOf(Top).arg) \/ Target # None
         \/ setting.allow_missing_includes
  PROVE  PassesTop
<1> SUFFICES ASSUME BadLine(Top), ~setting.allow_missing_includes
             PROVE  LineOf(Top).arg \in Around(Len(frames))
  BY DEF PassesTop, MayPass, Including, At, LineOf, Top
<1>1. LineOf(Top).op = "include" /\ LineOf(Top).arg # None /\ status = "running"
  BY DEF Including, At
<1>2. Target = None
  BY <1>1 DEF BadLine, Target
<1>3. PICK j \in DOMAIN include_stack : include_stack[j] = LineOf(Top).arg
  BY <1>2 DEF OnStack, Elements
<1>4. j \in 1 .. Len(frames) /\ NameOf(j) = LineOf(Top).arg
  BY <1>1, <1>3 DEF StrictStack, TypeOK
<1>5. QED
  BY <1>4 DEF Around

LEMMA StepMoves ==
  ASSUME TypeOK, TypeOK', StrictStack, Next
  PROVE  Moves
<1>1. FramesOK /\ FramesOK' /\ RestOK /\ Others /\ setting' = setting
  BY TypeParts, TextsKept DEF RestOK, Others, FramesOK, TypeOK, FrameOK
<1>2. ASSUME ~AtEnd(Top), PassesTop, Continue(flush_pending(Top)) PROVE Moves
  BY <1>1, <1>2, PlainMoves
<1>3. CASE Text
  BY <1>1, <1>3, TextMoves
<1>4. CASE Skip
  BY <1>2, <1>4 DEF Skip, At, PassesTop, BadLine
<1>5. CASE process_define \/ process_undef
  BY <1>2, <1>5 DEF process_define, process_undef, At, PassesTop
<1>6. CASE Open \/ Alternative \/ Endif
  <2>1. ~AtEnd(Top) /\ PassesTop
    BY <1>6 DEF Open, Alternative, Endif, At, PassesTop, Openers
  <2> DEFINE g == flush_pending(Top)
  <2>2. g \in Frames
    BY <1>1, <2>1, FlushTop DEF FrameOK
  <2>3. \E a, b : Continue([g EXCEPT !.in_if_stack = a, !.branch_taken = b])
    <3>1. CASE Open
      <4> DEFINE active == Active(Top) /\ Holds(macros, LineOf(Top))
      <4>1. Continue([g EXCEPT !.in_if_stack = Append(@, active),
                               !.branch_taken = Append(@, active)])
        BY <3>1 DEF Open
      <4> HIDE DEF g, active
      <4>2. [g EXCEPT !.in_if_stack = Append(@, active), !.branch_taken = Append(@, active)]
              = [g EXCEPT !.in_if_stack = Append(g.in_if_stack, active),
                          !.branch_taken = Append(g.branch_taken, active)]
        BY <2>2 DEF Frames
      <4>3. QED
        BY <4>1, <4>2
    <3>2. CASE Alternative
      <4> DEFINE active == ParentActive(Top) /\ ~Taken(Top) /\ Holds(macros, LineOf(Top))
                 last == Len(Top.in_if_stack)
                 a == [g.in_if_stack EXCEPT ![last] = active]
                 b == [g.branch_taken EXCEPT ![last] = @ \/ active]
      <4>1. Continue([g EXCEPT !.in_if_stack[last] = active,
                               !.branch_taken[last] = @ \/ active])
        BY <3>2 DEF Alternative
      <4> HIDE DEF g, active, last
      <4>2. [g EXCEPT !.in_if_stack[last] = active, !.branch_taken[last] = @ \/ active]
              = [g EXCEPT !.in_if_stack = a, !.branch_taken = b]
        BY <2>2 DEF Frames
      <4>3. QED
        BY <4>1, <4>2
    <3>3. CASE Endif
      <4>1. Continue([g EXCEPT !.in_if_stack = Front(@), !.branch_taken = Front(@)])
        BY <3>3 DEF Endif
      <4> HIDE DEF g
      <4>2. [g EXCEPT !.in_if_stack = Front(@), !.branch_taken = Front(@)]
              = [g EXCEPT !.in_if_stack = Front(g.in_if_stack),
                          !.branch_taken = Front(g.branch_taken)]
        BY <2>2 DEF Frames
      <4>3. QED
        BY <4>1, <4>2
    <3>4. QED
      BY <1>6, <3>1, <3>2, <3>3
  <2>4. QED
    BY <1>1, <2>1, <2>3, GroupMoves
<1>7. CASE Fail
  BY <1>1, <1>7, FailMoves
<1>8. CASE LeaveOut
  <2>1. PassesTop
    BY <1>8, IncludePasses DEF LeaveOut
  <2>2. QED
    BY <1>2, <1>8, <2>1 DEF LeaveOut, Including, At
<1>9. CASE NotFound
  <2>1. CASE Continue(flush_pending(Top)) /\ setting.allow_missing_includes
    <3>1. PassesTop
      BY <1>9, <2>1, IncludePasses DEF NotFound
    <3>2. QED
      BY <1>2, <1>9, <2>1, <3>1 DEF NotFound, Including, At
  <2>2. QED
    BY <1>7, <1>9, <2>1 DEF NotFound
<1>10. CASE resolve_include_file
  <2>1. PassesTop
    BY <1>10, IncludePasses DEF resolve_include_file
  <2>2. QED
    BY <1>1, <1>10, <2>1, EnterMoves
<1>11. CASE Return
  BY <1>1, <1>11, ReturnMoves
<1>12. QED
  BY <1>3, <1>4, <1>5, <1>6, <1>7, <1>8, <1>9, <1>10, <1>11
     DEF Next, Malformed, Unopened, Unterminated

LEMMA StepPassed ==
  TypeOK /\ TypeOK' /\ Reading /\ Reading' /\ StrictStack /\ PassedWell /\ [Next]_vars
    => StrictStack' /\ PassedWell'
<1> SUFFICES ASSUME TypeOK, TypeOK', Reading, Reading', StrictStack, PassedWell, [Next]_vars
             PROVE  StrictStack' /\ PassedWell'
  OBVIOUS
<1>1. FramesOK /\ FramesOK'
  BY DEF TypeOK, FramesOK, FrameOK
<1>2. CASE Next
  BY <1>1, <1>2, StepStack, StepMoves, MovesPass
<1>3. CASE UNCHANGED vars
  <2>1. StrictStack'
    BY <1>3 DEF vars, StrictStack, NameOf
  <2>2. Moves
    BY <1>3 DEF vars, Moves
  <2>3. QED
    BY <1>1, <2>1, <2>2, MovesPass
<1>4. QED
  BY <1>2, <1>3

LEMMA InitPassed == Init => StrictStack /\ PassedWell
<1> SUFFICES ASSUME Init PROVE StrictStack /\ PassedWell
  OBVIOUS
<1>1. /\ frames = <<Frame(Root)>> /\ include_stack = <<RootName>>
      /\ Frame(Root).pos = 1
  BY DEF Init, Frame
<1>2. QED
  BY <1>1 DEF StrictStack, PassedWell, NameOf

\* resolve_includes returns an error at a line only if that line is one an error must be
\* reported for, and passes none of them but an #include of a file that is not found, and
\* of these only where allow_missing_includes is set or the name is one of the files being
\* read.  An #error or #define without a name in a group that is not read, and an #elif
\* behind the group that was taken, are no errors, whatever surrounds them.
THEOREM PreprocessorErrorsExactly == Spec => []ErrorsExactly
<1>1. Verdict /\ PassedWell => ErrorsExactly
  BY DEF Verdict, PassedWell, ErrorsExactly
<1>2. QED
  BY <1>1, InitTypes, StepTypes, InitReads, StepReads, InitVerdict, StepVerdict, InitPassed,
     StepPassed, PTL DEF Spec
=============================================================================
