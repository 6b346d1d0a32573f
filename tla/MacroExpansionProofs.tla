------------------------ MODULE MacroExpansionProofs ------------------------
(***************************************************************************)
(* Proofs about MacroExpansion, for every file, also one that never ends.  *)
(***************************************************************************)
EXTENDS MacroExpansion, SequenceTheorems, FiniteSetTheorems, WellFoundedInduction, TLAPS

-----------------------------------------------------------------------------
(* The hide stack names the calls.                                         *)

\* The places of the calls that were made for a macro.
Named(cs) == {c \in 1 .. Len(cs) : cs[c].name # None}

\* f gives each of them its place in the stack.
Matches(f, cs, e) ==
  /\ f \in [Named(cs) -> 1 .. Len(e)]
  /\ \A c \in Named(cs) : e[f[c]] = cs[c].name
  /\ \A c, d \in Named(cs) : c < d => f[c] < f[d]
  /\ \A h \in 1 .. Len(e) : \E c \in Named(cs) : f[c] = h

IsStackOf(cs, e) == \E f \in [Named(cs) -> 1 .. Len(e)] : Matches(f, cs, e)

NoneTwice(e) == \A h, k \in 1 .. Len(e) : h # k => e[h] # e[k]

IsCall(r) ==
  r = [tokens |-> r.tokens, i |-> r.i, result |-> r.result, name |-> r.name, args |-> r.args]

\* The inductive invariant.  An argument call is one of a macro, so that what Rescan takes
\* from the stack is its name.
HideStack ==
  /\ IsSequence(calls) /\ IsSequence(expanding)
  /\ \A c \in DOMAIN calls :
       IsCall(calls[c]) /\ (calls[c].args # None => calls[c].name # None)
  /\ IsStackOf(calls, expanding)
  /\ NoneTwice(expanding)

-----------------------------------------------------------------------------
(* Sequences.                                                              *)

\* The length and the places of a sequence.
LEMMA SequenceFacts ==
  ASSUME NEW s, IsSequence(s)
  PROVE  Len(s) \in Nat /\ DOMAIN s = 1 .. Len(s)
BY DEF IsSequence

\* A sequence is what has its places and length.
LEMMA MakesSequence ==
  ASSUME NEW s, NEW n \in Nat, NEW S, s \in [1 .. n -> S]
  PROVE  IsSequence(s) /\ Len(s) = n
<1>1. s \in Seq(S) /\ Len(s) = n /\ DOMAIN s = 1 .. n
  BY SeqDef
<1>2. s \in [1 .. n -> {s[k] : k \in DOMAIN s}]
  BY <1>1
<1>3. QED
  BY <1>1, <1>2, SeqDef DEF IsSequence

\* One more element behind the others.
LEMMA Appended ==
  ASSUME NEW s, IsSequence(s), NEW x
  PROVE  LET t == Append(s, x)
         IN /\ IsSequence(t) /\ Len(t) = Len(s) + 1
            /\ \A k \in 1 .. Len(s) : t[k] = s[k]
            /\ t[Len(s) + 1] = x
<1> DEFINE S == {s[k] : k \in DOMAIN s} \cup {x}
           t == Append(s, x)
<1>1. Len(s) \in Nat /\ DOMAIN s = 1 .. Len(s)
  BY SequenceFacts
<1>2. s \in Seq(S)
  <2>1. s \in [1 .. Len(s) -> S]
    <3>1. s \in Seq({s[k] : k \in DOMAIN s})
      BY DEF IsSequence
    <3>2. s \in [1 .. Len(s) -> {s[k] : k \in DOMAIN s}]
      BY <3>1
    <3>3. QED
      BY <3>2
  <2>2. QED
    BY <1>1, <2>1, SeqDef
<1>3. x \in S
  OBVIOUS
<1> HIDE DEF S
<1>4. /\ t \in Seq(S) /\ Len(t) = Len(s) + 1
      /\ \A k \in 1 .. Len(s) : t[k] = s[k]
      /\ t[Len(s) + 1] = x
  BY <1>2, <1>3, AppendProperties
<1>5. IsSequence(t)
  <2> HIDE DEF t
  <2>1. t \in [1 .. Len(t) -> S] /\ Len(t) \in Nat
    BY <1>4
  <2>2. QED
    BY <2>1, MakesSequence
<1>6. QED
  BY <1>4, <1>5

\* All but the last element.
LEMMA Shortened ==
  ASSUME NEW s, IsSequence(s), s # <<>>
  PROVE  LET t == Front(s)
         IN /\ IsSequence(t) /\ Len(s) > 0 /\ Len(t) = Len(s) - 1
            /\ \A k \in 1 .. Len(s) - 1 : t[k] = s[k]
<1> DEFINE S == {s[k] : k \in DOMAIN s}
           t == Front(s)
<1>1. s \in Seq(S) /\ Len(s) \in Nat /\ Len(s) > 0
  BY EmptySeq DEF IsSequence
<1> HIDE DEF S
<1>2. t = SubSeq(s, 1, Len(s) - 1)
  BY DEF Front
<1> HIDE DEF t
<1>3. t = [k \in 1 .. Len(s) - 1 |-> s[k]]
  BY <1>1, <1>2
<1>4. IsSequence(t) /\ Len(t) = Len(s) - 1
  <2>1. t \in [1 .. Len(s) - 1 -> S] /\ Len(s) - 1 \in Nat
    BY <1>1, <1>3
  <2>2. QED
    BY <2>1, MakesSequence
<1>5. QED
  BY <1>1, <1>3, <1>4 DEF t

\* Another element at one place.
LEMMA Changed ==
  ASSUME NEW s, IsSequence(s), NEW d \in 1 .. Len(s), NEW x
  PROVE  LET t == [s EXCEPT ![d] = x]
         IN /\ IsSequence(t) /\ Len(t) = Len(s)
            /\ \A k \in 1 .. Len(s) : t[k] = IF k = d THEN x ELSE s[k]
<1> DEFINE t == [s EXCEPT ![d] = x]
           T == {t[k] : k \in 1 .. Len(s)}
<1>1. Len(s) \in Nat /\ DOMAIN s = 1 .. Len(s)
  BY SequenceFacts
<1>2. s = [k \in 1 .. Len(s) |-> s[k]]
  BY <1>1 DEF IsSequence
<1>3. t = [k \in 1 .. Len(s) |-> IF k = d THEN x ELSE s[k]]
  BY <1>1, <1>2
<1>4. t \in [1 .. Len(s) -> T]
  BY <1>3
<1>5. IsSequence(t) /\ Len(t) = Len(s)
  <2> HIDE DEF t, T
  <2>1. QED
    BY <1>1, <1>4, MakesSequence
<1>6. QED
  BY <1>3, <1>5

-----------------------------------------------------------------------------
(* The stack follows the calls.                                            *)

\* The named calls stay: so does the stack.
LEMMA StackStays ==
  ASSUME NEW cs, NEW ds, NEW e, IsStackOf(cs, e), Named(ds) = Named(cs),
         \A c \in Named(cs) : ds[c].name = cs[c].name
  PROVE  IsStackOf(ds, e)
<1>1. PICK f \in [Named(cs) -> 1 .. Len(e)] : Matches(f, cs, e)
  BY DEF IsStackOf
<1>2. Matches(f, ds, e)
  BY <1>1 DEF Matches
<1>3. QED
  BY <1>2 DEF IsStackOf, Matches

\* A named call behind the others: its name is pushed.
LEMMA StackGrows ==
  ASSUME NEW cs, NEW ds, NEW e, NEW x, NEW n \in Nat,
         IsSequence(e), IsStackOf(cs, e), Len(cs) = n,
         Named(ds) = Named(cs) \cup {n + 1}, ds[n + 1].name = x,
         \A c \in Named(cs) : ds[c].name = cs[c].name
  PROVE  IsStackOf(ds, Append(e, x))
<1> DEFINE g == Append(e, x)
           m == Len(e)
<1>1. PICK f \in [Named(cs) -> 1 .. m] : Matches(f, cs, e)
  BY DEF IsStackOf
<1> DEFINE h == [c \in Named(ds) |-> IF c = n + 1 THEN m + 1 ELSE f[c]]
<1>2. m \in Nat /\ Len(g) = m + 1 /\ g[m + 1] = x /\ \A k \in 1 .. m : g[k] = e[k]
  BY Appended, SequenceFacts
<1> HIDE DEF g, m
<1>3. \A c \in Named(cs) : c \in 1 .. n
  BY DEF Named
<1>4. \A c \in Named(cs) : f[c] \in 1 .. m /\ e[f[c]] = cs[c].name
  BY <1>1 DEF Matches
<1>5. h \in [Named(ds) -> 1 .. Len(g)]
  BY <1>2, <1>4
<1>6. \A c \in Named(ds) : g[h[c]] = ds[c].name
  BY <1>2, <1>3, <1>4
<1>7. \A c, d \in Named(ds) : c < d => h[c] < h[d]
  <2>1. \A c, d \in Named(cs) : c < d => f[c] < f[d]
    BY <1>1 DEF Matches
  <2>2. \A c \in Named(ds) : c \in 1 .. n + 1 /\ (c # n + 1 => c \in Named(cs))
    BY <1>3
  <2>3. QED
    BY <1>2, <1>3, <1>4, <2>1, <2>2
<1>8. \A k \in 1 .. Len(g) : \E c \in Named(ds) : h[c] = k
  <2>1. \A k \in 1 .. m : \E c \in Named(cs) : f[c] = k
    BY <1>1 DEF Matches, m
  <2>2. \A k \in 1 .. m : \E c \in Named(ds) : h[c] = k
    BY <1>3, <2>1
  <2>3. \E c \in Named(ds) : h[c] = m + 1
    <3>1. n + 1 \in Named(ds) /\ h[n + 1] = m + 1
      OBVIOUS
    <3> HIDE DEF h
    <3>2. QED
      BY <3>1
  <2> HIDE DEF h
  <2>4. \A k \in 1 .. Len(g) : k \in 1 .. m \/ k = m + 1
    BY <1>2
  <2>5. QED
    BY <2>2, <2>3, <2>4
<1>9. Matches(h, ds, g)
  BY <1>5, <1>6, <1>7, <1>8 DEF Matches
<1>10. QED
  BY <1>5, <1>9 DEF IsStackOf, g

\* The last call was named and is not any more: its name is what is popped.
LEMMA StackShrinks ==
  ASSUME NEW cs, NEW ds, NEW e, NEW n \in Nat,
         IsSequence(e), IsStackOf(cs, e), Len(cs) = n, n \in Named(cs),
         Named(ds) = Named(cs) \ {n}, \A c \in Named(ds) : ds[c].name = cs[c].name
  PROVE  e # <<>> /\ IsStackOf(ds, Front(e))
<1> DEFINE g == Front(e)
           m == Len(e)
<1>1. PICK f \in [Named(cs) -> 1 .. m] : Matches(f, cs, e)
  BY DEF IsStackOf
<1> DEFINE h == [c \in Named(ds) |-> f[c]]
<1>2. m \in Nat
  BY SequenceFacts
<1>3. e # <<>>
  <2>1. f[n] \in 1 .. m
    BY <1>1
  <2>2. m # 0
    BY <1>2, <2>1
  <2>3. QED
    BY <2>2 DEF m
<1>4. Len(g) = m - 1 /\ \A k \in 1 .. m - 1 : g[k] = e[k]
  BY <1>3, Shortened
<1> HIDE DEF g
<1>5. \A c \in Named(cs) : c \in 1 .. n /\ f[c] \in 1 .. m
  BY <1>1 DEF Named
<1>6. \A c, d \in Named(cs) : c < d => f[c] < f[d]
  BY <1>1 DEF Matches
<1>7. \A k \in 1 .. m : \E c \in Named(cs) : f[c] = k
  BY <1>1 DEF Matches
<1> HIDE DEF m
<1>8. f[n] = m
  <2>1. PICK c \in Named(cs) : f[c] = m
    BY <1>2, <1>5, <1>7
  <2>2. c = n
    BY <1>2, <1>5, <1>6, <2>1
  <2>3. QED
    BY <2>1, <2>2
<1>9. \A c \in Named(ds) : c \in Named(cs) /\ c < n /\ f[c] \in 1 .. m - 1
  BY <1>2, <1>5, <1>6, <1>8
<1>10. h \in [Named(ds) -> 1 .. Len(g)]
  BY <1>4, <1>9
<1>11. \A c \in Named(ds) : g[h[c]] = ds[c].name
  <2>1. \A c \in Named(cs) : e[f[c]] = cs[c].name
    BY <1>1 DEF Matches
  <2>2. QED
    BY <1>4, <1>9, <2>1
<1>12. \A c, d \in Named(ds) : c < d => h[c] < h[d]
  BY <1>6, <1>9
<1>13. \A k \in 1 .. Len(g) : \E c \in Named(ds) : h[c] = k
  <2>1. \A k \in 1 .. m - 1 : \E c \in Named(cs) : f[c] = k /\ c # n
    BY <1>2, <1>7, <1>8
  <2>2. QED
    BY <1>4, <2>1
<1>14. Matches(h, ds, g)
  BY <1>10, <1>11, <1>12, <1>13 DEF Matches
<1>15. QED
  BY <1>3, <1>10, <1>14 DEF IsStackOf, g

-----------------------------------------------------------------------------
(* The steps.                                                              *)

IsFrame(r) == IsCall(r) /\ (r.args # None => r.name # None)

\* A call as it is made.
LEMMA NewFrame ==
  ASSUME NEW ts, NEW n, NEW as, as # None => n # None
  PROVE  IsFrame(Call(ts, n, as)) /\ Call(ts, n, as).name = n
BY DEF IsFrame, IsCall, Call

\* g is call r with another result and place.
Resumed(g, r, res, i) ==
  /\ IsFrame(g) /\ g.name = r.name /\ g.args = r.args /\ g.tokens = r.tokens
  /\ g.result = res /\ g.i = i

\* A call that goes on is still the call of that macro.
LEMMA SameFrame ==
  ASSUME NEW r, IsFrame(r), NEW res, NEW i
  PROVE  Resumed([r EXCEPT !.result = res, !.i = i], r, res, i)
<1> DEFINE S == {r.tokens, r.i, r.result, r.name, r.args, res, i}
           R == [tokens : S, i : S, result : S, name : S, args : S]
           g == [r EXCEPT !.result = res, !.i = i]
<1>1. r \in R
  <2>1. r = [tokens |-> r.tokens, i |-> r.i, result |-> r.result, name |-> r.name, args |-> r.args]
    BY DEF IsFrame, IsCall
  <2>2. /\ r.tokens \in S /\ r.i \in S /\ r.result \in S /\ r.name \in S /\ r.args \in S
        /\ res \in S /\ i \in S
    OBVIOUS
  <2> HIDE DEF S
  <2>3. QED
    BY <2>1, <2>2
<1>2. res \in S /\ i \in S
  OBVIOUS
<1> HIDE DEF S
<1>3. /\ g \in R /\ g.name = r.name /\ g.args = r.args /\ g.tokens = r.tokens
      /\ g.result = res /\ g.i = i
  BY <1>1, <1>2
<1>4. IsCall(g)
  <2> HIDE DEF g
  <2>1. QED
    BY <1>3 DEF IsCall
<1> HIDE DEF R
<1>5. Resumed(g, r, res, i)
  <2> HIDE DEF g
  <2>1. QED
    BY <1>3, <1>4 DEF IsFrame, Resumed
<1>6. QED
  BY <1>5

\* The same, when only its result grows.
LEMMA LargerFrame ==
  ASSUME NEW r, IsFrame(r), NEW res
  PROVE  Resumed([r EXCEPT !.result = res], r, res, r.i)
<1> DEFINE S == {r.tokens, r.i, r.result, r.name, r.args, res}
           R == [tokens : S, i : S, result : S, name : S, args : S]
           g == [r EXCEPT !.result = res]
<1>1. r \in R
  <2>1. r = [tokens |-> r.tokens, i |-> r.i, result |-> r.result, name |-> r.name, args |-> r.args]
    BY DEF IsFrame, IsCall
  <2>2. /\ r.tokens \in S /\ r.i \in S /\ r.result \in S /\ r.name \in S /\ r.args \in S
        /\ res \in S
    OBVIOUS
  <2> HIDE DEF S
  <2>3. QED
    BY <2>1, <2>2
<1>2. res \in S
  OBVIOUS
<1> HIDE DEF S
<1>3. /\ g \in R /\ g.name = r.name /\ g.args = r.args /\ g.tokens = r.tokens
      /\ g.result = res /\ g.i = r.i
  BY <1>1, <1>2
<1>4. IsCall(g)
  <2> HIDE DEF g
  <2>1. QED
    BY <1>3 DEF IsCall
<1> HIDE DEF R
<1>5. Resumed(g, r, res, r.i)
  <2> HIDE DEF g
  <2>1. QED
    BY <1>3, <1>4 DEF IsFrame, Resumed
<1>6. QED
  BY <1>5

\* One call goes on, the others wait.
LEMMA OneFrame ==
  ASSUME NEW cs, IsSequence(cs), \A c \in DOMAIN cs : IsFrame(cs[c]),
         NEW d \in 1 .. Len(cs), NEW x, IsFrame(x), x.name = cs[d].name,
         NEW g, g = [cs EXCEPT ![d] = x]
  PROVE  /\ IsSequence(g) /\ Len(g) = Len(cs)
         /\ \A c \in 1 .. Len(cs) : IsFrame(g[c]) /\ g[c].name = cs[c].name
<1>1. /\ IsSequence(g) /\ Len(g) = Len(cs)
      /\ \A c \in 1 .. Len(cs) : g[c] = IF c = d THEN x ELSE cs[c]
  <2>1. IsSequence(g)
    BY Changed
  <2>2. Len(g) = Len(cs)
    BY Changed
  <2>3. \A c \in 1 .. Len(cs) : g[c] = IF c = d THEN x ELSE cs[c]
    BY Changed
  <2>4. QED
    BY <2>1, <2>2, <2>3
<1>2. DOMAIN cs = 1 .. Len(cs)
  BY SequenceFacts
<1>3. QED
  BY <1>1, <1>2

\* What the innermost call does to itself leaves the calls' names alone.
LEMMA GoesOn ==
  ASSUME HideStack, calls # <<>>, NEW res, NEW i
  PROVE  LET g == Goes(res, i)
         IN /\ IsSequence(g) /\ Len(g) = Len(calls) /\ Len(calls) > 0
            /\ \A c \in 1 .. Len(calls) : IsFrame(g[c]) /\ g[c].name = calls[c].name
<1> DEFINE n == Len(calls)
           x == [calls[n] EXCEPT !.result = res, !.i = i]
           g == Goes(res, i)
<1>1. IsSequence(calls) /\ \A c \in DOMAIN calls : IsFrame(calls[c])
  BY DEF HideStack, IsFrame
<1>2. n \in Nat /\ DOMAIN calls = 1 .. n
  BY <1>1, SequenceFacts
<1>3. n > 0
  BY <1>1, EmptySeq DEF IsSequence
<1>4. IsFrame(x) /\ x.name = calls[n].name
  <2>1. IsFrame(calls[n])
    BY <1>1, <1>2, <1>3
  <2>2. Resumed(x, calls[n], res, i)
    BY <2>1, SameFrame
  <2> HIDE DEF n, x
  <2>3. QED
    BY <2>2 DEF Resumed
<1>5. g = [calls EXCEPT ![n] = x]
  BY DEF Goes
<1> HIDE DEF x, g
<1>6. /\ IsSequence(g) /\ Len(g) = n
      /\ \A c \in 1 .. n : IsFrame(g[c]) /\ g[c].name = calls[c].name
  <2>1. n \in 1 .. Len(calls) /\ n = Len(calls)
    BY <1>2, <1>3
  <2> HIDE DEF n
  <2>2. IsSequence(g)
    BY <1>1, <1>4, <1>5, <2>1, OneFrame
  <2>3. Len(g) = Len(calls)
    BY <1>1, <1>4, <1>5, <2>1, OneFrame
  <2>4. \A c \in 1 .. Len(calls) : IsFrame(g[c]) /\ g[c].name = calls[c].name
    BY <1>1, <1>4, <1>5, <2>1, OneFrame
  <2>5. QED
    BY <2>1, <2>2, <2>3, <2>4
<1>7. QED
  BY <1>3, <1>6 DEF g

\* A step within one call.
LEMMA StepWithin ==
  ASSUME HideStack, calls # <<>>, NEW res, NEW i, calls' = Goes(res, i), UNCHANGED expanding
  PROVE  HideStack'
<1> DEFINE g == Goes(res, i)
           n == Len(calls)
<1>1. /\ IsSequence(g) /\ Len(g) = n
      /\ \A c \in 1 .. n : IsFrame(g[c]) /\ g[c].name = calls[c].name
  BY GoesOn
<1> HIDE DEF g
<1>2. DOMAIN g = 1 .. n
  BY <1>1, SequenceFacts
<1>3. Named(g) = Named(calls) /\ \A c \in Named(calls) : g[c].name = calls[c].name
  BY <1>1 DEF Named
<1>4. IsStackOf(g, expanding)
  BY <1>3, StackStays DEF HideStack
<1>5. calls' = g /\ expanding' = expanding
  BY DEF g
<1>6. QED
  BY <1>1, <1>2, <1>4, <1>5 DEF HideStack, IsFrame

\* A new call for the body of a macro that is not hidden.
LEMMA StepCall ==
  ASSUME HideStack, calls # <<>>, NEW res, NEW i, NEW ts, NEW t, NEW as,
         t # None, ~Hidden(t),
         calls' = Append(Goes(res, i), Call(ts, t, as)), expanding' = Append(expanding, t)
  PROVE  HideStack'
<1> DEFINE g == Goes(res, i)
           n == Len(calls)
           x == Call(ts, t, as)
           ds == Append(g, x)
           e == Append(expanding, t)
           m == Len(expanding)
<1>1. /\ IsSequence(g) /\ Len(g) = n
      /\ \A c \in 1 .. n : IsFrame(g[c]) /\ g[c].name = calls[c].name
  BY GoesOn
<1>2. IsFrame(x) /\ x.name = t
  BY NewFrame
<1>3. calls' = ds /\ expanding' = e
  OBVIOUS
<1> HIDE DEF g, x
<1>4. n \in Nat
  BY SequenceFacts DEF HideStack
<1>5. /\ IsSequence(ds) /\ Len(ds) = n + 1
      /\ \A c \in 1 .. n : ds[c] = g[c]
      /\ ds[n + 1] = x
  BY <1>1, Appended
<1>6. DOMAIN ds = 1 .. n + 1
  BY <1>5, SequenceFacts
<1> HIDE DEF ds
<1>7. \A c \in 1 .. n + 1 : c \in 1 .. n \/ c = n + 1
  BY <1>4
<1>8. \A c \in DOMAIN ds : IsFrame(ds[c])
  BY <1>1, <1>2, <1>5, <1>6, <1>7
<1>9. IsStackOf(ds, e)
  <2>1. \A c \in 1 .. n : ds[c].name = calls[c].name
    BY <1>1, <1>5
  <2>2. n + 1 \in 1 .. n + 1 /\ \A c \in 1 .. n : c \in 1 .. n + 1
    BY <1>4
  <2>3. Named(ds) = Named(calls) \cup {n + 1}
    BY <1>2, <1>5, <1>7, <2>1, <2>2 DEF Named
  <2>4. ds[n + 1].name = t
    BY <1>2, <1>5
  <2>5. \A c \in Named(calls) : ds[c].name = calls[c].name
    BY <2>1 DEF Named
  <2>6. IsSequence(expanding) /\ IsStackOf(calls, expanding)
    BY DEF HideStack
  <2>7. QED
    BY <1>4, <2>3, <2>4, <2>5, <2>6, StackGrows
<1>10. /\ IsSequence(e) /\ Len(e) = m + 1 /\ m \in Nat
       /\ \A k \in 1 .. m : e[k] = expanding[k]
       /\ e[m + 1] = t
  BY Appended, SequenceFacts DEF HideStack
<1> HIDE DEF e
<1>11. NoneTwice(e)
  <2>1. \A k \in 1 .. m : expanding[k] # t
    BY SequenceFacts DEF Hidden, HideStack
  <2>2. \A h, k \in 1 .. m : h # k => expanding[h] # expanding[k]
    BY DEF HideStack, NoneTwice
  <2>3. \A k \in 1 .. m + 1 : k \in 1 .. m \/ k = m + 1
    BY <1>10
  <2>4. QED
    BY <1>10, <2>1, <2>2, <2>3 DEF NoneTwice
<1>12. QED
  BY <1>3, <1>5, <1>8, <1>9, <1>10, <1>11 DEF HideStack, IsFrame

\* What is left of a stack has nothing twice either.
LEMMA FrontNoneTwice ==
  ASSUME NEW e, IsSequence(e), e # <<>>, NoneTwice(e)
  PROVE  IsSequence(Front(e)) /\ NoneTwice(Front(e))
<1> DEFINE g == Front(e)
<1>1. /\ IsSequence(g) /\ Len(g) = Len(e) - 1
      /\ \A k \in 1 .. Len(e) - 1 : g[k] = e[k]
  BY Shortened
<1>2. Len(e) \in Nat
  BY SequenceFacts
<1> HIDE DEF g
<1>3. NoneTwice(g)
  BY <1>1, <1>2 DEF NoneTwice
<1>4. QED
  BY <1>1, <1>3 DEF g

\* The innermost call is a named one no more, or there is none: what it pushed is popped.
LEMMA StepPop ==
  ASSUME HideStack, NEW n \in Nat, n = Len(calls),
         NEW ds, IsSequence(ds), \A c \in DOMAIN ds : IsFrame(ds[c]),
         Named(ds) = Named(calls) \ {n}, \A c \in Named(ds) : ds[c].name = calls[c].name,
         calls # <<>>, calls' = ds,
         expanding' = IF calls[n].name = None THEN expanding ELSE Front(expanding)
  PROVE  HideStack'
<1>1. IsSequence(calls) /\ IsSequence(expanding) /\ IsStackOf(calls, expanding) /\ NoneTwice(expanding)
  BY DEF HideStack
<1>2. n \in 1 .. Len(calls)
  <2>1. Len(calls) > 0
    BY <1>1, EmptySeq DEF IsSequence
  <2>2. QED
    BY <2>1
<1>3. IsSequence(expanding') /\ IsStackOf(ds, expanding') /\ NoneTwice(expanding')
  <2>1. CASE calls[n].name = None
    <3>1. expanding' = expanding
      BY <2>1
    <3>2. Named(ds) = Named(calls)
      BY <2>1 DEF Named
    <3>3. IsStackOf(ds, expanding)
      BY <1>1, <3>2, StackStays
    <3>4. QED
      BY <1>1, <3>1, <3>3
  <2>2. CASE calls[n].name # None
    <3>1. expanding' = Front(expanding)
      BY <2>2
    <3>2. n \in Named(calls)
      BY <1>2, <2>2 DEF Named
    <3>3. expanding # <<>> /\ IsStackOf(ds, Front(expanding))
      BY <1>1, <3>2, StackShrinks
    <3>4. IsSequence(Front(expanding)) /\ NoneTwice(Front(expanding))
      BY <1>1, <3>3, FrontNoneTwice
    <3>5. QED
      BY <3>1, <3>3, <3>4
  <2>3. QED
    BY <2>1, <2>2
<1>4. QED
  BY <1>3 DEF HideStack, IsFrame

\* A call returns its result to the one that made it.
LEMMA StepReturn ==
  ASSUME HideStack, Return
  PROVE  HideStack'
<1> DEFINE n == Len(calls)
           t == Front(calls)
           x == [t[n - 1] EXCEPT !.result = @ \o Top.result]
           ds == IF n = 1 THEN <<>> ELSE [t EXCEPT ![n - 1] = x]
<1>1. IsSequence(calls) /\ calls # <<>> /\ \A c \in DOMAIN calls : IsFrame(calls[c])
  BY DEF HideStack, Return, AtEnd, IsFrame
<1>2. n \in Nat /\ DOMAIN calls = 1 .. n
  BY <1>1, SequenceFacts
<1>3. n > 0
  BY <1>1, EmptySeq DEF IsSequence
<1>4. calls' = ds
  BY DEF Return
<1>5. expanding' = IF calls[n].name = None THEN expanding ELSE Front(expanding)
  BY DEF Return, Top, Last
<1>6. /\ IsSequence(ds) /\ Len(ds) = n - 1
      /\ \A c \in 1 .. n - 1 : IsFrame(ds[c]) /\ ds[c].name = calls[c].name
  <2>1. CASE n = 1
    <3>1. ds = <<>>
      BY <2>1
    <3>2. IsSequence(<<>>) /\ Len(<<>>) = 0
      BY DEF IsSequence
    <3>3. QED
      BY <2>1, <3>1, <3>2
  <2>2. CASE n # 1
    <3>1. IsSequence(t) /\ Len(t) = n - 1 /\ \A c \in 1 .. n - 1 : t[c] = calls[c]
      BY <1>1, Shortened
    <3> HIDE DEF t
    <3>2. n - 1 \in 1 .. n - 1 /\ \A c \in 1 .. n - 1 : c \in 1 .. n
      BY <1>2, <1>3, <2>2
    <3>3. DOMAIN t = 1 .. n - 1
      BY <3>1, SequenceFacts
    <3>4. \A c \in 1 .. n - 1 : IsFrame(t[c])
      BY <1>1, <1>2, <3>1, <3>2
    <3>5. IsFrame(x) /\ x.name = t[n - 1].name
      <4>1. IsFrame(t[n - 1])
        BY <3>2, <3>4
      <4>2. Resumed(x, t[n - 1], t[n - 1].result \o Top.result, t[n - 1].i)
        BY <4>1, LargerFrame
      <4> HIDE DEF x
      <4>3. QED
        BY <4>2 DEF Resumed
    <3>6. ds = [t EXCEPT ![n - 1] = x]
      BY <2>2
    <3>7. n - 1 \in 1 .. Len(t)
      BY <3>1, <3>2
    <3> HIDE DEF x, ds
    <3>8. IsSequence(ds)
      BY <3>1, <3>3, <3>4, <3>5, <3>6, <3>7, OneFrame
    <3>9. Len(ds) = Len(t)
      BY <3>1, <3>3, <3>4, <3>5, <3>6, <3>7, OneFrame
    <3>10. \A c \in 1 .. Len(t) : IsFrame(ds[c]) /\ ds[c].name = t[c].name
      BY <3>1, <3>3, <3>4, <3>5, <3>6, <3>7, OneFrame
    <3>11. QED
      BY <3>1, <3>8, <3>9, <3>10
  <2>3. QED
    BY <2>1, <2>2
<1> HIDE DEF ds
<1>7. DOMAIN ds = 1 .. n - 1
  BY <1>6, SequenceFacts
<1>8. \A c : c \in 1 .. n - 1 <=> c \in 1 .. n /\ c # n
  BY <1>2
<1>9. Named(ds) = Named(calls) \ {n} /\ \A c \in Named(ds) : ds[c].name = calls[c].name
  BY <1>6, <1>8 DEF Named
<1>10. \A c \in DOMAIN ds : IsFrame(ds[c])
  BY <1>6, <1>7
<1>11. QED
  BY <1>1, <1>2, <1>4, <1>5, <1>6, <1>9, <1>10, StepPop

\* The name of a function-like macro is popped when its body has its arguments.
LEMMA StepRescan ==
  ASSUME HideStack, Rescan
  PROVE  HideStack'
<1> DEFINE n == Len(calls)
           x == Call(Top.result, None, None)
           ds == [calls EXCEPT ![n] = x]
<1>1. IsSequence(calls) /\ calls # <<>> /\ \A c \in DOMAIN calls : IsFrame(calls[c])
  BY DEF HideStack, Rescan, AtEnd, IsFrame
<1>2. n \in Nat /\ DOMAIN calls = 1 .. n
  BY <1>1, SequenceFacts
<1>3. n > 0
  BY <1>1, EmptySeq DEF IsSequence
<1>4. n \in 1 .. n
  BY <1>2, <1>3
<1>5. calls' = ds
  BY DEF Rescan
<1>6. calls[n].name # None
  <2>1. calls[n].args # None
    BY DEF Rescan, Top, Last
  <2>2. QED
    BY <1>1, <1>2, <1>4, <2>1 DEF IsFrame
<1>7. expanding' = IF calls[n].name = None THEN expanding ELSE Front(expanding)
  BY <1>6 DEF Rescan
<1>8. IsFrame(x) /\ x.name = None
  BY NewFrame
<1> HIDE DEF x
<1>9. IsSequence(ds)
  BY <1>1, <1>4, Changed
<1>10. Len(ds) = n
  BY <1>1, <1>4, Changed
<1>11. \A c \in 1 .. n : ds[c] = IF c = n THEN x ELSE calls[c]
  BY <1>1, <1>4, Changed
<1>12. DOMAIN ds = 1 .. n
  BY <1>2
<1> HIDE DEF ds
<1>13. \A c \in DOMAIN ds : IsFrame(ds[c])
  BY <1>1, <1>2, <1>8, <1>11, <1>12
<1>14. Named(ds) = Named(calls) \ {n} /\ \A c \in Named(ds) : ds[c].name = calls[c].name
  BY <1>8, <1>10, <1>11 DEF Named
<1>15. QED
  BY <1>1, <1>2, <1>5, <1>7, <1>9, <1>13, <1>14, StepPop

\* A text line is expanded by a call of its own.
LEMMA StepText ==
  ASSUME HideStack, expand_macro_tokens
  PROVE  HideStack'
<1> DEFINE x == Call(program[line].tokens, None, None)
           ds == <<x>>
<1>1. calls = <<>> /\ calls' = ds /\ expanding' = expanding
  BY DEF expand_macro_tokens, AtLine
<1>2. IsFrame(x) /\ x.name = None
  BY NewFrame
<1> HIDE DEF x
<1>3. IsSequence(ds) /\ Len(ds) = 1 /\ DOMAIN ds = 1 .. 1 /\ ds[1] = x
  BY DEF IsSequence
<1> HIDE DEF ds
<1>4. \A c \in DOMAIN ds : IsFrame(ds[c])
  BY <1>2, <1>3
<1>5. Named(ds) = {}
  BY <1>2, <1>3 DEF Named
<1>6. Named(calls) = {}
  BY <1>1 DEF Named
<1>7. IsStackOf(ds, expanding)
  BY <1>5, <1>6, StackStays DEF HideStack
<1>8. QED
  BY <1>1, <1>3, <1>4, <1>7 DEF HideStack, IsFrame

\* A step that leaves the calls and the stack alone.
LEMMA StepElsewhere ==
  ASSUME HideStack, UNCHANGED <<calls, expanding>>
  PROVE  HideStack'
BY DEF HideStack

LEMMA HideStackInit == Init => HideStack
<1> SUFFICES ASSUME Init PROVE HideStack
  OBVIOUS
<1>1. calls = <<>> /\ expanding = <<>>
  BY DEF Init
<1>2. IsSequence(<<>>) /\ Len(<<>>) = 0 /\ DOMAIN <<>> = 1 .. 0
  BY DEF IsSequence
<1>3. Named(<<>>) = {}
  BY <1>2 DEF Named
<1>4. IsStackOf(<<>>, <<>>)
  <2> DEFINE f == [c \in {} |-> 0]
  <2>1. f \in [Named(<<>>) -> 1 .. Len(<<>>)]
    BY <1>3
  <2>2. Matches(f, <<>>, <<>>)
    BY <1>2, <1>3, <2>1 DEF Matches
  <2>3. QED
    BY <2>1, <2>2 DEF IsStackOf
<1>5. NoneTwice(<<>>)
  BY <1>2 DEF NoneTwice
<1>6. QED
  BY <1>1, <1>2, <1>4, <1>5 DEF HideStack

LEMMA HideStackNext == HideStack /\ [Next]_vars => HideStack'
<1> SUFFICES ASSUME HideStack, [Next]_vars PROVE HideStack'
  OBVIOUS
<1>1. ASSUME Expands PROVE Token # None /\ ~Hidden(Token)
  BY <1>1, NoneAssumption DEF Expands, Defined
<1>2. CASE process_define
  BY <1>2, StepElsewhere DEF process_define
<1>3. CASE process_undef
  BY <1>3, StepElsewhere DEF process_undef
<1>4. CASE expand_macro_tokens
  BY <1>4, StepText
<1>5. CASE Stop
  BY <1>5, StepElsewhere DEF Stop
<1>6. CASE Copy
  <2>1. /\ calls # <<>> /\ UNCHANGED expanding
        /\ calls' = Goes(Append(Top.result, Token), Top.i + 1)
    BY <1>6 DEF Copy, AtToken
  <2>2. QED
    BY <2>1, StepWithin
<1>7. CASE ExpandObject
  <2>1. /\ calls # <<>> /\ Expands /\ expanding' = Append(expanding, Token)
        /\ calls' = Append(Goes(Top.result, Top.i + 1), Call(macros[Token].body, Token, None))
    BY <1>7 DEF ExpandObject, AtToken
  <2>2. QED
    BY <1>1, <2>1, StepCall
<1>8. CASE ExpandFunction
  <2>1. calls # <<>> /\ Expands /\ expanding' = Append(expanding, Token)
    BY <1>8 DEF ExpandFunction, AtToken
  <2>2. PICK close, args :
          calls' = Append(Goes(Top.result, Behind(Top.tokens, close)),
                          Call(macros[Token].body, Token, args))
    BY <1>8 DEF ExpandFunction
  <2>3. QED
    BY <1>1, <2>1, <2>2, StepCall
<1>9. CASE Return
  BY <1>9, StepReturn
<1>10. CASE Stringify
  <2>1. calls # <<>> /\ UNCHANGED expanding
    BY <1>10 DEF Stringify, Substitutes, AtToken
  <2>2. PICK res : calls' = Goes(res, Top.i + 2)
    BY <1>10 DEF Stringify
  <2>3. QED
    BY <2>1, <2>2, StepWithin
<1>11. CASE Panic
  BY <1>11, StepElsewhere DEF Panic
<1>12. CASE Paste
  <2>1. calls # <<>> /\ UNCHANGED expanding
    BY <1>12 DEF Paste, Substitutes, AtToken
  <2>2. PICK res : calls' = Goes(res, Top.i + 2)
    BY <1>12 DEF Paste
  <2>3. QED
    BY <2>1, <2>2, StepWithin
<1>13. CASE Replace
  <2>1. calls # <<>> /\ UNCHANGED expanding
    BY <1>13 DEF Replace, Substitutes, AtToken
  <2>2. PICK res : calls' = Goes(res, Top.i + 1)
    BY <1>13 DEF Replace
  <2>3. QED
    BY <2>1, <2>2, StepWithin
<1>14. CASE Rescan
  BY <1>14, StepRescan
<1>15. CASE UNCHANGED vars
  BY <1>15, StepElsewhere DEF vars
<1>16. QED
  BY <1>2, <1>3, <1>4, <1>5, <1>6, <1>7, <1>8, <1>9, <1>10, <1>11, <1>12, <1>13, <1>14, <1>15
  DEF Next

\* The stack has the name of each call, and a place for each of its names.
LEMMA HideStackNames ==
  HideStack => Range(expanding) = {calls[c].name : c \in DOMAIN calls} \ {None}
<1> SUFFICES ASSUME HideStack
             PROVE  Range(expanding) = {calls[c].name : c \in DOMAIN calls} \ {None}
  OBVIOUS
<1>1. /\ DOMAIN calls = 1 .. Len(calls)
      /\ DOMAIN expanding = 1 .. Len(expanding)
  BY SequenceFacts DEF HideStack
<1>2. PICK f \in [Named(calls) -> 1 .. Len(expanding)] : Matches(f, calls, expanding)
  BY DEF HideStack, IsStackOf
<1>3. ASSUME NEW name \in Range(expanding)
      PROVE  name \in {calls[c].name : c \in DOMAIN calls} \ {None}
  <2>1. PICK h \in 1 .. Len(expanding) : expanding[h] = name
    BY <1>1, <1>3 DEF Range
  <2>2. PICK c \in Named(calls) : f[c] = h
    BY <1>2, <2>1 DEF Matches
  <2>3. calls[c].name = name
    BY <1>2, <2>1, <2>2 DEF Matches
  <2>4. c \in DOMAIN calls /\ name # None
    BY <1>1, <2>2, <2>3 DEF Named
  <2>5. QED
    BY <2>3, <2>4
<1>4. ASSUME NEW c \in DOMAIN calls, calls[c].name # None
      PROVE  calls[c].name \in Range(expanding)
  <2>1. c \in Named(calls)
    BY <1>1, <1>4 DEF Named
  <2>2. f[c] \in 1 .. Len(expanding) /\ expanding[f[c]] = calls[c].name
    BY <1>2, <2>1 DEF Matches
  <2>3. QED
    BY <1>1, <2>2 DEF Range
<1>5. QED
  BY <1>3, <1>4

\* Two calls of one macro would have their names at two places of the stack.
LEMMA HideStackHides == HideStack => NotReentered
<1> SUFFICES ASSUME HideStack,
                    NEW c \in DOMAIN calls, NEW d \in DOMAIN calls,
                    c # d, calls[c].name # None
             PROVE  calls[c].name # calls[d].name
  BY HideStackNames DEF NotReentered
<1>1. DOMAIN calls = 1 .. Len(calls) /\ Len(calls) \in Nat
  BY SequenceFacts DEF HideStack
<1>2. PICK f \in [Named(calls) -> 1 .. Len(expanding)] : Matches(f, calls, expanding)
  BY DEF HideStack, IsStackOf
<1>3. CASE calls[d].name = None
  BY <1>3
<1>4. CASE calls[d].name # None
  <2>1. c \in Named(calls) /\ d \in Named(calls) /\ (c < d \/ d < c)
    BY <1>1, <1>4 DEF Named
  <2>2. f[c] \in 1 .. Len(expanding) /\ f[d] \in 1 .. Len(expanding)
    BY <1>2, <2>1
  <2>3. f[c] < f[d] \/ f[d] < f[c]
    BY <1>2, <2>1 DEF Matches
  <2>4. expanding[f[c]] # expanding[f[d]]
    BY <2>2, <2>3 DEF HideStack, NoneTwice
  <2>5. QED
    BY <1>2, <2>1, <2>4 DEF Matches
<1>5. QED
  BY <1>3, <1>4

\* In every file, however its calls nest: the stack that expand_macro_tokens_with_stack
\* hands down holds the names of the calls at work, and no two calls at work are of one
\* macro.  So no object-like macro is expanded within itself; a function-like macro is off
\* the stack, and no longer at work, when its replacement is scanned again.
THEOREM StackHoldsCallsAtWork == Spec => []NotReentered
<1>1. Spec => []HideStack
  BY HideStackInit, HideStackNext, PTL DEF Spec
<1>2. QED
  BY <1>1, HideStackHides, PTL

-----------------------------------------------------------------------------
(* More on sequences, and the least and the greatest of some numbers.      *)

\* What is a sequence of something is a sequence.
LEMMA OfWhatever ==
  ASSUME NEW S, NEW s \in Seq(S)
  PROVE  IsSequence(s)
<1>1. Len(s) \in Nat /\ s \in [1 .. Len(s) -> S]
  BY LenProperties
<1>2. QED
  BY <1>1, MakesSequence

\* One sequence behind another.
LEMMA Joined ==
  ASSUME NEW s, NEW t, IsSequence(s), IsSequence(t)
  PROVE  IsSequence(s \o t)
<1> DEFINE S == {s[k] : k \in DOMAIN s} \cup {t[k] : k \in DOMAIN t}
<1>1. s \in Seq(S) /\ t \in Seq(S)
  <2>1. s \in Seq({s[k] : k \in DOMAIN s}) /\ t \in Seq({t[k] : k \in DOMAIN t})
    BY DEF IsSequence
  <2>2. {s[k] : k \in DOMAIN s} \subseteq S /\ {t[k] : k \in DOMAIN t} \subseteq S
    OBVIOUS
  <2> HIDE DEF S
  <2>3. QED
    BY <2>1, <2>2, SeqMonotonic
<1> HIDE DEF S
<1>2. s \o t \in Seq(S)
  BY <1>1, ConcatProperties
<1>3. QED
  BY <1>2, OfWhatever

\* The part of a sequence between two places.
LEMMA PartIs ==
  ASSUME NEW s, NEW m \in Int, NEW n \in Int
  PROVE  IsSequence(SubSeq(s, m, n)) /\ Len(SubSeq(s, m, n)) = IF m <= n THEN n - m + 1 ELSE 0
<1> DEFINE S == {s[k] : k \in m .. n}
<1>1. \A k \in m .. n : s[k] \in S
  OBVIOUS
<1> HIDE DEF S
<1>2. SubSeq(s, m, n) \in Seq(S) /\ Len(SubSeq(s, m, n)) = IF m <= n THEN n - m + 1 ELSE 0
  BY <1>1, SubSeqProperties
<1>3. QED
  BY <1>2, OfWhatever

\* All but the first element.
LEMMA TailIs ==
  ASSUME NEW s, IsSequence(s), s # <<>>
  PROVE  IsSequence(Tail(s))
<1>1. Tail(s) \in Seq({s[k] : k \in DOMAIN s})
  BY HeadTailProperties DEF IsSequence
<1>2. QED
  BY <1>1, OfWhatever

\* Numbers have a least one.
LEMMA LeastIs ==
  ASSUME NEW S, S \subseteq Nat, S # {}
  PROVE  Min(S) \in S /\ \A k \in S : Min(S) <= k
<1>1. \E i \in S : \A j \in S : ~(<<j, i>> \in OpToRel(<, Nat))
  BY NatLessThanWellFounded, WFMin
<1>2. PICK i \in S : \A j \in S : ~(<<j, i>> \in OpToRel(<, Nat))
  BY <1>1
<1>3. ASSUME NEW j \in S PROVE i <= j
  <2>1. i \in Nat /\ j \in Nat
    OBVIOUS
  <2>2. <<j, i>> \in Nat \X Nat /\ <<j, i>>[1] = j /\ <<j, i>>[2] = i
    BY <2>1
  <2>3. ~(j < i)
    BY <1>2, <2>2 DEF OpToRel
  <2>4. QED
    BY <2>1, <2>3
<1>4. QED
  BY <1>2, <1>3 DEF Min

\* Numbers up to another have a greatest one.
LEMMA GreatestIs ==
  ASSUME NEW S, NEW n \in Nat, S \subseteq 0 .. n, S # {}
  PROVE  Max(S) \in S /\ \A k \in S : k <= Max(S)
<1> DEFINE T == {n - k : k \in S}
<1>1. T \subseteq Nat /\ T # {}
  OBVIOUS
<1>2. Min(T) \in T /\ \A k \in T : Min(T) <= k
  <2> HIDE DEF T
  <2>1. QED
    BY <1>1, LeastIs
<1>3. PICK i \in S : Min(T) = n - i
  BY <1>2
<1>4. \A k \in S : n - i <= n - k
  BY <1>2, <1>3
<1>5. \A k \in S : i >= k
  BY <1>4
<1>6. QED
  BY <1>5 DEF Max

-----------------------------------------------------------------------------
(* FlattenSeq, whose recursion the provers do not see through.             *)

\* f is a function as FlattenSeq asks for.
Flattens(f, s) ==
  f = [k \in 1 .. Len(s) |-> IF k = 1 THEN s[k] ELSE f[k - 1] \o s[k]]

\* f is one up to place m.
FlattensTo(f, s, m) ==
  \A k \in 1 .. m : f[k] = IF k = 1 THEN s[k] ELSE f[k - 1] \o s[k]

\* There is one, by the least place up to which there is none.
LEMMA FlattensSome ==
  ASSUME NEW V, NEW s \in Seq(Seq(V)), Len(s) # 0
  PROVE  \E f \in [1 .. Len(s) -> Seq(V)] : Flattens(f, s)
<1> DEFINE n == Len(s)
           P(m) == \E f \in [1 .. m -> Seq(V)] : FlattensTo(f, s, m)
           S == {m \in 1 .. n : ~P(m)}
<1>1. n \in Nat \ {0} /\ \A k \in 1 .. n : s[k] \in Seq(V)
  BY ElementOfSeq, LenProperties
<1>2. S = {}
  <2>1. SUFFICES ASSUME S # {} PROVE FALSE
    OBVIOUS
  <2>2. PICK m \in S : \A k \in S : m <= k
    <3>1. S \subseteq Nat
      BY <1>1
    <3> HIDE DEF S
    <3>2. QED
      BY <2>1, <3>1, LeastIs
  <2>3. m \in 1 .. n /\ ~P(m)
    OBVIOUS
  <2>4. CASE m = 1
    <3> DEFINE f == [k \in 1 .. 1 |-> s[1]]
    <3>1. f \in [1 .. 1 -> Seq(V)] /\ FlattensTo(f, s, 1)
      BY <1>1 DEF FlattensTo
    <3> HIDE DEF f
    <3>2. P(1)
      BY <3>1
    <3>3. P(m)
      BY <2>4, <3>2
    <3> HIDE DEF P
    <3>4. QED
      BY <2>3, <3>3
  <2>5. CASE m # 1
    <3>1. m - 1 \in 1 .. n /\ ~(m <= m - 1)
      BY <1>1, <2>3, <2>5
    <3>2. PICK g \in [1 .. m - 1 -> Seq(V)] : FlattensTo(g, s, m - 1)
      <4>1. m - 1 \notin S
        BY <2>2, <3>1
      <4> HIDE DEF n
      <4>2. QED
        BY <3>1, <4>1
    <3> DEFINE f == [k \in 1 .. m |-> IF k = m THEN g[m - 1] \o s[m] ELSE g[k]]
    <3>3. g[m - 1] \o s[m] \in Seq(V)
      <4>1. g[m - 1] \in Seq(V) /\ s[m] \in Seq(V)
        BY <1>1, <2>3, <3>1
      <4>2. QED
        BY <4>1, ConcatProperties
    <3>4. f \in [1 .. m -> Seq(V)]
      BY <3>1, <3>3
    <3>5. FlattensTo(f, s, m)
      <4>1. ASSUME NEW k \in 1 .. m PROVE f[k] = IF k = 1 THEN s[k] ELSE f[k - 1] \o s[k]
        <5>1. CASE k = m
          <6>1. k - 1 \in 1 .. m /\ k - 1 # m /\ f[k - 1] = g[m - 1]
            BY <1>1, <2>3, <2>5, <5>1
          <6>2. QED
            BY <2>5, <5>1, <6>1
        <5>2. CASE k # m
          <6>1. k \in 1 .. m - 1 /\ f[k] = g[k]
            BY <1>1, <2>3, <5>2
          <6>2. g[k] = IF k = 1 THEN s[k] ELSE g[k - 1] \o s[k]
            BY <3>2, <6>1 DEF FlattensTo
          <6>3. k # 1 => f[k - 1] = g[k - 1]
            BY <2>3, <6>1
          <6> HIDE DEF f
          <6>4. QED
            BY <6>1, <6>2, <6>3
        <5>3. QED
          BY <5>1, <5>2
      <4>2. QED
        BY <4>1 DEF FlattensTo
    <3> HIDE DEF f
    <3>6. P(m)
      BY <3>4, <3>5
    <3>7. QED
      BY <2>3, <3>6
  <2>6. QED
    BY <2>4, <2>5
<1>3. P(n)
  BY <1>1, <1>2
<1>4. PICK f \in [1 .. n -> Seq(V)] : FlattensTo(f, s, n)
  BY <1>3
<1>5. f = [k \in 1 .. n |-> IF k = 1 THEN s[k] ELSE f[k - 1] \o s[k]]
  <2>1. f = [k \in 1 .. n |-> f[k]]
    OBVIOUS
  <2>2. \A k \in 1 .. n : f[k] = IF k = 1 THEN s[k] ELSE f[k - 1] \o s[k]
    BY <1>4 DEF FlattensTo
  <2>3. QED
    BY <2>1, <2>2
<1>6. QED
  BY <1>5 DEF Flattens

\* Whichever is taken, its values are sequences, by the least place where one is not.
LEMMA FlattensAll ==
  ASSUME NEW V, NEW s \in Seq(Seq(V)), Len(s) # 0, NEW f, Flattens(f, s)
  PROVE  f[Len(s)] \in Seq(V)
<1> DEFINE n == Len(s)
           S == {k \in 1 .. n : f[k] \notin Seq(V)}
<1>1. n \in Nat \ {0} /\ \A k \in 1 .. n : s[k] \in Seq(V)
  BY ElementOfSeq, LenProperties
<1>2. \A k \in 1 .. n : f[k] = IF k = 1 THEN s[k] ELSE f[k - 1] \o s[k]
  <2> DEFINE g == [k \in 1 .. n |-> IF k = 1 THEN s[k] ELSE f[k - 1] \o s[k]]
  <2>1. f = g
    BY DEF Flattens
  <2>2. \A k \in 1 .. n : g[k] = IF k = 1 THEN s[k] ELSE f[k - 1] \o s[k]
    OBVIOUS
  <2> HIDE DEF g
  <2>3. QED
    BY <2>1, <2>2
<1>3. S = {}
  <2>1. SUFFICES ASSUME S # {} PROVE FALSE
    OBVIOUS
  <2>2. PICK m \in S : \A k \in S : m <= k
    <3>1. S \subseteq Nat
      BY <1>1
    <3> HIDE DEF S
    <3>2. QED
      BY <2>1, <3>1, LeastIs
  <2>3. m \in 1 .. n /\ f[m] \notin Seq(V)
    OBVIOUS
  <2>4. m # 1
    BY <1>1, <1>2, <2>3
  <2>5. m - 1 \in 1 .. n /\ f[m - 1] \in Seq(V)
    BY <1>1, <2>2, <2>3, <2>4
  <2>6. f[m] = f[m - 1] \o s[m]
    BY <1>2, <2>3, <2>4
  <2>7. f[m] \in Seq(V)
    BY <1>1, <2>3, <2>5, <2>6, ConcatProperties
  <2>8. QED
    BY <2>3, <2>7
<1>4. QED
  BY <1>1, <1>3

\* The elements of sequences, one after the other, are a sequence.
LEMMA FlattenIs ==
  ASSUME NEW s, IsSequence(s), \A k \in DOMAIN s : IsSequence(s[k])
  PROVE  IsSequence(FlattenSeq(s))
<1>1. CASE Len(s) = 0
  BY <1>1 DEF FlattenSeq
<1>2. CASE Len(s) # 0
  <2> DEFINE V == UNION {{s[k][j] : j \in DOMAIN s[k]} : k \in DOMAIN s}
             f == CHOOSE g : Flattens(g, s)
  <2>1. Len(s) \in Nat /\ DOMAIN s = 1 .. Len(s)
    BY SequenceFacts
  <2>2. \A k \in 1 .. Len(s) : s[k] \in Seq(V)
    <3>1. SUFFICES ASSUME NEW k \in 1 .. Len(s) PROVE s[k] \in Seq(V)
      OBVIOUS
    <3> DEFINE W == {s[k][j] : j \in DOMAIN s[k]}
    <3>2. s[k] \in Seq(W)
      BY <2>1 DEF IsSequence
    <3>3. W \subseteq V
      BY <2>1
    <3> HIDE DEF V, W
    <3>4. QED
      BY <3>2, <3>3, SeqMonotonic
  <2> HIDE DEF V
  <2>3. s \in Seq(Seq(V))
    <3>1. s = [k \in 1 .. Len(s) |-> s[k]]
      BY <2>1 DEF IsSequence
    <3>2. s \in [1 .. Len(s) -> Seq(V)]
      BY <2>2, <3>1
    <3>3. QED
      BY <2>1, <3>2, SeqDef
  <2>4. Flattens(f, s)
    <3>1. \E g : Flattens(g, s)
      BY <1>2, <2>3, FlattensSome
    <3>2. QED
      BY <3>1
  <2>5. FlattenSeq(s) = f[Len(s)]
    BY <1>2 DEF FlattenSeq, Flattens
  <2> HIDE DEF f
  <2>6. f[Len(s)] \in Seq(V)
    BY <1>2, <2>3, <2>4, FlattensAll
  <2>7. QED
    BY <2>5, <2>6, OfWhatever
<1>3. QED
  BY <1>1, <1>2

-----------------------------------------------------------------------------
(* What the operators of MacroExpansion return.                            *)

\* A function on the places 1 to n whose values are sequences.
LEMMA SequenceOfSequences ==
  ASSUME NEW n \in Nat, NEW s, s = [k \in 1 .. n |-> s[k]], \A k \in 1 .. n : IsSequence(s[k])
  PROVE  /\ IsSequence(s) /\ Len(s) = n /\ DOMAIN s = 1 .. n
         /\ \A k \in DOMAIN s : IsSequence(s[k])
<1> DEFINE S == {s[k] : k \in 1 .. n}
<1>1. s \in [1 .. n -> S] /\ DOMAIN s = 1 .. n
  OBVIOUS
<1> HIDE DEF S
<1>2. IsSequence(s) /\ Len(s) = n
  BY <1>1, MakesSequence
<1>3. QED
  BY <1>1, <1>2

LEMMA SingleIs ==
  ASSUME NEW x
  PROVE  IsSequence(<<x>>) /\ Len(<<x>>) = 1
<1>1. <<x>> \in Seq({x}) /\ Len(<<x>>) = 1
  OBVIOUS
<1>2. QED
  BY <1>1, OfWhatever

LEMMA EmptyIs == IsSequence(<<>>) /\ Len(<<>>) = 0
BY EmptySeq, OfWhatever

\* Every name is defined as a macro or not at all.
MacrosOK ==
  /\ DOMAIN macros = Names
  /\ \A n \in Names : macros[n] # None => IsMacro(macros[n])

LEMMA BodyIs ==
  ASSUME MacrosOK, NEW tokens, IsSequence(tokens)
  PROVE  IsSequence(expand_tokens_in_macro(tokens))
<1> DEFINE s == [k \in DOMAIN tokens |->
                   IF Defined(tokens[k]) /\ IsObject(macros[tokens[k]])
                     THEN macros[tokens[k]].body ELSE <<tokens[k]>>]
<1>1. Len(tokens) \in Nat /\ DOMAIN tokens = 1 .. Len(tokens)
  BY SequenceFacts
<1>2. \A k \in 1 .. Len(tokens) : IsSequence(s[k])
  <2>1. SUFFICES ASSUME NEW k \in 1 .. Len(tokens) PROVE IsSequence(s[k])
    OBVIOUS
  <2>2. CASE Defined(tokens[k]) /\ IsObject(macros[tokens[k]])
    <3>1. s[k] = macros[tokens[k]].body
      BY <1>1, <2>2
    <3> HIDE DEF s
    <3>2. QED
      BY <2>2, <3>1 DEF Defined, MacrosOK, IsMacro
  <2>3. CASE ~(Defined(tokens[k]) /\ IsObject(macros[tokens[k]]))
    <3>1. s[k] = <<tokens[k]>>
      BY <1>1, <2>3
    <3> HIDE DEF s
    <3>2. QED
      BY <3>1, SingleIs
  <2>4. QED
    BY <2>2, <2>3
<1>3. s = [k \in 1 .. Len(tokens) |-> s[k]]
  BY <1>1
<1>4. expand_tokens_in_macro(tokens) = FlattenSeq(s)
  BY DEF expand_tokens_in_macro
<1> HIDE DEF s
<1>5. QED
  BY <1>1, <1>2, <1>3, <1>4, SequenceOfSequences, FlattenIs

\* The parenthesis behind a name is within the tokens, and so is the one that closes it,
\* or it is the place behind them.
LEMMA NextPlaceIs ==
  ASSUME IsSequence(Top.tokens), Top.i \in 1 .. Len(Top.tokens)
  PROVE  NextPlace \in Top.i + 1 .. Len(Top.tokens) + 1
<1> DEFINE n == Len(Top.tokens)
           S == {k \in Top.i + 1 .. n : Top.tokens[k] # Space} \cup {n + 1}
<1>1. n \in Nat
  BY SequenceFacts
<1>2. S \subseteq Top.i + 1 .. n + 1 /\ S # {}
  BY <1>1
<1>3. S \subseteq Nat
  BY <1>1, <1>2
<1>4. NextPlace = Min(S)
  BY DEF NextPlace
<1> HIDE DEF S
<1>5. QED
  BY <1>2, <1>3, <1>4, LeastIs

LEMMA ClosePlaceIs ==
  ASSUME NEW ts, IsSequence(ts), NEW open \in 1 .. Len(ts)
  PROVE  ClosePlace(ts, open) \in open + 1 .. Len(ts) + 1
<1> DEFINE n == Len(ts)
           S == {k \in open + 1 .. n : ts[k] = RParen /\ Level(ts, open, k) = 0} \cup {n + 1}
<1>1. n \in Nat
  BY SequenceFacts
<1>2. S \subseteq open + 1 .. n + 1 /\ S # {}
  BY <1>1
<1>3. S \subseteq Nat
  BY <1>1, <1>2
<1>4. ClosePlace(ts, open) = Min(S)
  BY DEF ClosePlace
<1> HIDE DEF S
<1>5. QED
  BY <1>2, <1>3, <1>4, LeastIs

\* Arguments are sequences of tokens.
IsArgs(args) == IsSequence(args) /\ \A a \in DOMAIN args : IsSequence(args[a])

LEMMA FrontArgs ==
  ASSUME NEW args, IsArgs(args), args # <<>>
  PROVE  IsArgs(Front(args))
<1>1. /\ IsSequence(Front(args)) /\ Len(Front(args)) = Len(args) - 1
      /\ \A k \in 1 .. Len(args) - 1 : Front(args)[k] = args[k]
  BY Shortened DEF IsArgs
<1>2. DOMAIN args = 1 .. Len(args) /\ DOMAIN Front(args) = 1 .. Len(args) - 1 /\ Len(args) \in Nat
  BY <1>1, SequenceFacts DEF IsArgs
<1> DEFINE bs == Front(args)
<1> HIDE DEF bs
<1>3. \A k \in 1 .. Len(args) - 1 : k \in DOMAIN args
  BY <1>2
<1>4. \A k \in DOMAIN bs : IsSequence(bs[k])
  BY <1>1, <1>2, <1>3 DEF IsArgs, bs
<1>5. QED
  BY <1>1, <1>4 DEF IsArgs, bs

LEMMA CollectedArgs ==
  ASSUME NEW ts, NEW open \in Nat, NEW close \in Nat, NEW m
  PROVE  IsArgs(collect_macro_args(ts, open, close, m))
<1> DEFINE cuts == {k \in open + 1 .. close - 1 : ts[k] = Comma /\ Level(ts, open, k) = 0}
           n == Cardinality(cuts) + 1
           Places(a) ==
             {k \in open + 1 .. close - 1 : k \notin cuts /\ Cardinality({c \in cuts : c < k}) = a - 1}
           given == [a \in 1 .. n |->
             IF Places(a) = {} THEN <<>> ELSE SubSeq(ts, Min(Places(a)), Max(Places(a)))]
<1>1. n \in Nat \ {0}
  <2>1. cuts \subseteq open + 1 .. close - 1
    OBVIOUS
  <2>2. IsFiniteSet(open + 1 .. close - 1)
    BY FS_Interval
  <2> HIDE DEF cuts
  <2>3. Cardinality(cuts) \in Nat
    BY <2>1, <2>2, FS_Subset, FS_CardinalityType
  <2>4. QED
    BY <2>3
<1>2. collect_macro_args(ts, open, close, m) \in {given, Front(given)}
  BY DEF collect_macro_args
<1> HIDE DEF n
<1>3. \A a \in 1 .. n : IsSequence(given[a])
  <2>1. SUFFICES ASSUME NEW a \in 1 .. n PROVE IsSequence(given[a])
    OBVIOUS
  <2>2. CASE Places(a) = {}
    <3>1. given[a] = <<>>
      BY <2>2
    <3> HIDE DEF given
    <3>2. QED
      BY <3>1, EmptyIs
  <2>3. CASE Places(a) # {}
    <3>1. given[a] = SubSeq(ts, Min(Places(a)), Max(Places(a)))
      BY <2>3
    <3>2. Places(a) \subseteq Nat /\ Places(a) \subseteq 0 .. close
      OBVIOUS
    <3> HIDE DEF given, Places
    <3>3. Min(Places(a)) \in Places(a) /\ Max(Places(a)) \in Places(a)
      BY <2>3, <3>2, LeastIs, GreatestIs
    <3>4. QED
      BY <3>1, <3>2, <3>3, PartIs
  <2>4. QED
    BY <2>2, <2>3
<1>4. given = [a \in 1 .. n |-> given[a]]
  OBVIOUS
<1> HIDE DEF given
<1>5. IsArgs(given) /\ Len(given) = n
  BY <1>1, <1>3, <1>4, SequenceOfSequences DEF IsArgs
<1>6. IsArgs(Front(given))
  <2>1. given # <<>>
    BY <1>1, <1>5, EmptyIs
  <2>2. QED
    BY <1>5, <2>1, FrontArgs
<1>7. QED
  BY <1>2, <1>5, <1>6

LEMMA VariadicIs ==
  ASSUME NEW m, IsSequence(m.params), NEW args, IsArgs(args)
  PROVE  IsSequence(expand_variadic_args(m, args))
<1> DEFINE p == Len(m.params)
           N == Max({0, Len(args) - p})
           s == [a \in 1 .. N |-> (IF a = 1 THEN <<>> ELSE <<Comma>>) \o args[p + a]]
<1>1. p \in Nat /\ Len(args) \in Nat /\ DOMAIN args = 1 .. Len(args)
  BY SequenceFacts DEF IsArgs
<1>2. N \in Nat /\ (N = 0 \/ N = Len(args) - p)
  <2> DEFINE d == Len(args) - p
             M == {0, d}
             top == IF d >= 0 THEN d ELSE 0
  <2>1. d \in Int
    BY <1>1
  <2> HIDE DEF d
  <2>2. top \in M /\ \A y \in M : top >= y
    BY <2>1
  <2>3. Max(M) \in M /\ \A y \in M : Max(M) >= y
    BY <2>2 DEF Max
  <2>4. Max(M) >= 0 /\ Max(M) \in Int
    BY <2>1, <2>3
  <2>5. Max(M) \in Nat /\ (Max(M) = 0 \/ Max(M) = d)
    BY <2>3, <2>4
  <2>6. QED
    BY <2>5 DEF d
<1> HIDE DEF N
<1>3. \A a \in 1 .. N : IsSequence(s[a])
  <2>1. SUFFICES ASSUME NEW a \in 1 .. N PROVE IsSequence(s[a])
    OBVIOUS
  <2>2. s[a] = (IF a = 1 THEN <<>> ELSE <<Comma>>) \o args[p + a]
    OBVIOUS
  <2>3. IsSequence(args[p + a])
    <3> HIDE DEF p, s
    <3>1. a \in Nat /\ a >= 1 /\ a <= N
      BY <1>2
    <3>2. N = Len(args) - p
      BY <1>2, <3>1
    <3>3. p + a \in 1 .. Len(args)
      BY <1>1, <1>2, <3>1, <3>2
    <3>4. QED
      BY <1>1, <3>3 DEF IsArgs
  <2>4. IsSequence(IF a = 1 THEN <<>> ELSE <<Comma>>)
    BY EmptyIs, SingleIs
  <2> HIDE DEF s, p
  <2>5. QED
    BY <2>2, <2>3, <2>4, Joined
<1>4. s = [a \in 1 .. N |-> s[a]]
  OBVIOUS
<1>5. expand_variadic_args(m, args) = FlattenSeq(s)
  BY DEF expand_variadic_args, N
<1> HIDE DEF s
<1>6. QED
  BY <1>2, <1>3, <1>4, <1>5, SequenceOfSequences, FlattenIs

\* What stands for a token of a body is a sequence: an argument that is there, the
\* variable arguments, or the token.
LEMMA ReplacementIs ==
  ASSUME NEW m, IsSequence(m.params), NEW args, IsArgs(args), NEW t
  PROVE  IsSequence(get_param_replacement(m, args, t))
<1>1. DOMAIN m.params = 1 .. Len(m.params) /\ DOMAIN args = 1 .. Len(args)
      /\ Len(m.params) \in Nat /\ Len(args) \in Nat
  BY SequenceFacts DEF IsArgs
<1>2. CASE Given(m, args, t)
  <2>1. get_param_replacement(m, args, t) = args[Place(m, t)]
    BY <1>2, Zenon DEF get_param_replacement
  <2>2. Place(m, t) \in DOMAIN m.params
    BY <1>2 DEF Given, HasParam, Place
  <2>3. Place(m, t) <= Len(args)
    BY <1>2 DEF Given
  <2> DEFINE q == Place(m, t)
  <2> HIDE DEF q
  <2>4. q \in DOMAIN args
    BY <1>1, <2>2, <2>3 DEF q
  <2>5. QED
    BY <2>1, <2>4 DEF IsArgs, q
<1>3. CASE ~Given(m, args, t) /\ t \in m.rest
  <2>1. get_param_replacement(m, args, t) = expand_variadic_args(m, args)
    BY <1>3, Zenon DEF get_param_replacement
  <2>2. QED
    BY <2>1, VariadicIs
<1>4. CASE ~Given(m, args, t) /\ t \notin m.rest
  <2>1. get_param_replacement(m, args, t) = <<t>>
    BY <1>4, Zenon DEF get_param_replacement
  <2>2. QED
    BY <2>1, SingleIs
<1>5. QED
  BY <1>2, <1>3, <1>4

-----------------------------------------------------------------------------
(* The inductive invariant behind TypeOK.                                  *)

\* A call has sequences to work on, and one with arguments is of a macro that takes some.
CallOK(c) ==
  /\ IsSequence(c.tokens) /\ IsSequence(c.result)
  /\ c.i \in 1 .. Len(c.tokens) + 1
  /\ c.name \in Names \cup {None}
  /\ c.args # None =>
       /\ IsArgs(c.args)
       /\ c.name \in Names /\ IsMacro(macros[c.name]) /\ macros[c.name].params # None

CallsOK == \A c \in 1 .. Len(calls) : CallOK(calls[c])

\* While calls are at work the file has the line they are for.
LineOK ==
  /\ program \in Programs
  /\ line \in 1 .. Len(program) + 1
  /\ calls # <<>> => line <= Len(program)

TypeInv ==
  /\ LineOK /\ MacrosOK /\ CallsOK
  /\ status \in {"running", "done", "panicked"}

LEMMA ProgramIs ==
  ASSUME LineOK
  PROVE  /\ Len(program) \in Nat /\ DOMAIN program = 1 .. Len(program)
         /\ \A l \in 1 .. Len(program) : IsLine(program[l])
<1>1. IsSequence(program) /\ \A l \in DOMAIN program : IsLine(program[l])
  BY ProgramsAssumption DEF LineOK
<1>2. QED
  BY <1>1, SequenceFacts

\* The innermost call.
LEMMA TopIs ==
  ASSUME HideStack, CallsOK, calls # <<>>
  PROVE  /\ Len(calls) \in Nat \ {0} /\ DOMAIN calls = 1 .. Len(calls)
         /\ Top = calls[Len(calls)] /\ IsFrame(Top) /\ CallOK(Top)
<1>1. IsSequence(calls)
  BY DEF HideStack
<1>2. Len(calls) \in Nat \ {0} /\ DOMAIN calls = 1 .. Len(calls)
  BY <1>1, SequenceFacts, EmptySeq DEF IsSequence
<1>3. Top = calls[Len(calls)]
  BY DEF Top, Last
<1>4. QED
  BY <1>2, <1>3 DEF HideStack, IsFrame, CallsOK

\* A resumed call stays well-formed.
LEMMA ResumedOK ==
  ASSUME NEW g, NEW r, NEW res, NEW i, Resumed(g, r, res, i), CallOK(r),
         IsSequence(res), i \in 1 .. Len(r.tokens) + 1
  PROVE  CallOK(g)
BY DEF Resumed, CallOK

LEMMA NewCallOK ==
  ASSUME NEW ts, IsSequence(ts), NEW n \in Names \cup {None}, NEW args,
         args # None => /\ IsArgs(args)
                        /\ n \in Names /\ IsMacro(macros[n]) /\ macros[n].params # None
  PROVE  CallOK(Call(ts, n, args))
<1> DEFINE c == Call(ts, n, args)
<1>1. /\ c.tokens = ts /\ c.i = 1 /\ c.result = <<>> /\ c.name = n /\ c.args = args
  BY DEF Call
<1> HIDE DEF c
<1>2. Len(ts) \in Nat
  BY SequenceFacts
<1>3. CallOK(c)
  BY <1>1, <1>2, EmptyIs DEF CallOK
<1>4. QED
  BY <1>3 DEF c

\* The innermost call goes on, the others wait.
LEMMA GoesOK ==
  ASSUME HideStack, CallsOK, calls # <<>>, NEW res, IsSequence(res),
         NEW i \in 1 .. Len(Top.tokens) + 1
  PROVE  LET g == Goes(res, i)
         IN IsSequence(g) /\ Len(g) = Len(calls) /\ \A c \in 1 .. Len(calls) : CallOK(g[c])
<1> DEFINE n == Len(calls)
           x == [calls[n] EXCEPT !.result = res, !.i = i]
           g == Goes(res, i)
<1>1. n \in Nat \ {0} /\ DOMAIN calls = 1 .. n /\ Top = calls[n] /\ IsFrame(Top) /\ CallOK(Top)
  BY TopIs
<1>2. Resumed(x, calls[n], res, i)
  <2>1. IsFrame(calls[n])
    BY <1>1
  <2> HIDE DEF n
  <2>2. QED
    BY <2>1, SameFrame
<1>3. g = [calls EXCEPT ![n] = x]
  BY DEF Goes
<1> HIDE DEF x, g
<1>4. CallOK(x)
  BY <1>1, <1>2, ResumedOK
<1>5. IsSequence(calls) /\ n \in 1 .. Len(calls)
  BY <1>1 DEF HideStack
<1>6. IsSequence(g)
  BY <1>3, <1>5, Changed
<1>7. Len(g) = Len(calls)
  BY <1>3, <1>5, Changed
<1>8. \A c \in 1 .. Len(calls) : g[c] = IF c = n THEN x ELSE calls[c]
  BY <1>3, <1>5, Changed
<1>9. \A c \in 1 .. Len(calls) : CallOK(g[c])
  BY <1>4, <1>8 DEF CallsOK
<1>10. QED
  BY <1>6, <1>7, <1>9 DEF g

\* A step within the innermost call.
LEMMA WithinOK ==
  ASSUME HideStack, TypeInv, calls # <<>>, NEW res, IsSequence(res),
         NEW i \in 1 .. Len(Top.tokens) + 1,
         calls' = Goes(res, i), UNCHANGED <<program, line, macros, status>>
  PROVE  TypeInv'
<1> DEFINE g == Goes(res, i)
<1>1. IsSequence(g) /\ Len(g) = Len(calls) /\ \A c \in 1 .. Len(calls) : CallOK(g[c])
  BY GoesOK DEF TypeInv
<1>2. calls' = g
  OBVIOUS
<1> HIDE DEF g
<1>3. CallsOK'
  BY <1>1, <1>2 DEF CallsOK, CallOK
<1>4. LineOK' /\ MacrosOK'
  BY DEF TypeInv, LineOK, MacrosOK
<1>5. QED
  BY <1>3, <1>4 DEF TypeInv

\* A call that the innermost one makes.
LEMMA CallStepOK ==
  ASSUME HideStack, TypeInv, calls # <<>>, NEW i \in 1 .. Len(Top.tokens) + 1,
         NEW x, CallOK(x),
         calls' = Append(Goes(Top.result, i), x), UNCHANGED <<program, line, macros, status>>
  PROVE  TypeInv'
<1> DEFINE g == Goes(Top.result, i)
           n == Len(calls)
           ds == Append(g, x)
<1>1. IsSequence(Top.result)
  BY TopIs DEF TypeInv, CallOK
<1>2. IsSequence(g) /\ Len(g) = n /\ \A c \in 1 .. n : CallOK(g[c])
  BY <1>1, GoesOK DEF TypeInv
<1>3. calls' = ds
  OBVIOUS
<1> HIDE DEF g
<1>4. /\ IsSequence(ds) /\ Len(ds) = n + 1
      /\ \A c \in 1 .. n : ds[c] = g[c]
      /\ ds[n + 1] = x
  BY <1>2, Appended
<1> HIDE DEF ds
<1>5. n \in Nat
  BY TopIs DEF TypeInv
<1>6. \A c \in 1 .. n + 1 : c \in 1 .. n \/ c = n + 1
  BY <1>5
<1>7. \A c \in 1 .. Len(ds) : CallOK(ds[c])
  BY <1>2, <1>4, <1>6
<1>8. CallsOK'
  BY <1>3, <1>7 DEF CallsOK, CallOK
<1>9. LineOK' /\ MacrosOK'
  BY DEF TypeInv, LineOK, MacrosOK
<1>10. QED
  BY <1>8, <1>9 DEF TypeInv

\* A macro with another body.
LEMMA BodyChanged ==
  ASSUME NEW m, IsMacro(m), NEW b, IsSequence(b)
  PROVE  IsMacro([m EXCEPT !.body = b])
<1> DEFINE S == {m.params, m.rest, m.body, b}
           R == [params : S, rest : S, body : S]
           g == [m EXCEPT !.body = b]
<1>1. m \in R
  <2>1. m = [params |-> m.params, rest |-> m.rest, body |-> m.body]
    BY DEF IsMacro
  <2>2. m.params \in S /\ m.rest \in S /\ m.body \in S
    OBVIOUS
  <2> HIDE DEF S
  <2>3. QED
    BY <2>1, <2>2
<1>2. b \in S
  OBVIOUS
<1> HIDE DEF S
<1>3. g \in R /\ g.params = m.params /\ g.body = b
  BY <1>1, <1>2
<1> HIDE DEF g
<1>4. g = [params |-> g.params, rest |-> g.rest, body |-> g.body]
  BY <1>3
<1> HIDE DEF R
<1>5. IsMacro(g)
  BY <1>3, <1>4 DEF IsMacro
<1>6. QED
  BY <1>5 DEF g

LEMMA DefineOK ==
  ASSUME HideStack, TypeInv, process_define
  PROVE  TypeInv'
<1> DEFINE l == program[line]
           b == expand_tokens_in_macro(l.macro.body)
           m == [l.macro EXCEPT !.body = b]
<1>1. /\ line \in 1 .. Len(program) /\ l.op = "define" /\ IsLine(l)
      /\ calls = <<>> /\ calls' = <<>> /\ line' = line + 1 /\ Len(program) \in Nat
  BY ProgramIs DEF process_define, AtLine, TypeInv, LineOK
<1>2. l.name \in Names /\ IsMacro(l.macro)
  BY <1>1 DEF IsLine
<1>3. IsMacro(m)
  <2>1. IsSequence(b)
    BY <1>2, BodyIs DEF TypeInv, IsMacro
  <2> HIDE DEF b
  <2>2. QED
    BY <1>2, <2>1, BodyChanged
<1>4. macros' = [macros EXCEPT ![l.name] = m]
  BY DEF process_define
<1> HIDE DEF m
<1>5. MacrosOK'
  BY <1>2, <1>3, <1>4 DEF MacrosOK, TypeInv
<1>6. LineOK'
  BY <1>1 DEF LineOK, TypeInv, process_define
<1>7. CallsOK'
  BY <1>1, EmptyIs DEF CallsOK
<1>8. QED
  BY <1>5, <1>6, <1>7 DEF TypeInv, process_define

LEMMA UndefOK ==
  ASSUME HideStack, TypeInv, process_undef
  PROVE  TypeInv'
<1>1. /\ line \in 1 .. Len(program) /\ calls = <<>> /\ calls' = <<>> /\ line' = line + 1
      /\ Len(program) \in Nat
  BY ProgramIs DEF process_undef, AtLine, TypeInv, LineOK
<1>2. MacrosOK'
  BY DEF MacrosOK, TypeInv, process_undef
<1>3. LineOK'
  BY <1>1 DEF LineOK, TypeInv, process_undef
<1>4. CallsOK'
  BY <1>1, EmptyIs DEF CallsOK
<1>5. QED
  BY <1>2, <1>3, <1>4 DEF TypeInv, process_undef

LEMMA TextOK ==
  ASSUME HideStack, TypeInv, expand_macro_tokens
  PROVE  TypeInv'
<1> DEFINE l == program[line]
           x == Call(l.tokens, None, None)
           ds == <<x>>
<1>1. line \in 1 .. Len(program) /\ IsLine(l) /\ l.op = "text" /\ calls' = ds
  BY ProgramIs DEF expand_macro_tokens, AtLine, TypeInv, LineOK
<1>2. IsSequence(l.tokens)
  BY <1>1 DEF IsLine
<1>3. CallOK(x)
  BY <1>2, NewCallOK
<1> HIDE DEF x
<1>4. Len(ds) = 1 /\ ds[1] = x
  OBVIOUS
<1> HIDE DEF ds
<1>5. \A c \in 1 .. Len(ds) : CallOK(ds[c])
  BY <1>3, <1>4
<1>6. UNCHANGED <<program, line, macros, status>>
  BY DEF expand_macro_tokens
<1>7. CallsOK'
  BY <1>1, <1>5, <1>6 DEF CallsOK, CallOK
<1>8. LineOK' /\ MacrosOK'
  BY <1>1, <1>6 DEF TypeInv, LineOK, MacrosOK
<1>9. QED
  BY <1>6, <1>7, <1>8 DEF TypeInv

\* A macro that may be expanded here.
LEMMA ExpandsIs ==
  ASSUME TypeInv, Expands
  PROVE  Token \in Names /\ IsMacro(macros[Token]) /\ IsSequence(macros[Token].body)
BY DEF TypeInv, Expands, Defined, MacrosOK, IsMacro

\* The innermost call is at one of its tokens.
LEMMA AtTokenIs ==
  ASSUME HideStack, TypeInv, AtToken
  PROVE  /\ calls # <<>> /\ IsSequence(Top.tokens) /\ IsSequence(Top.result) /\ CallOK(Top)
         /\ Len(Top.tokens) \in Nat /\ Top.i \in 1 .. Len(Top.tokens)
<1>1. calls # <<>> /\ CallOK(Top) /\ Top.i <= Len(Top.tokens)
  BY TopIs DEF AtToken, TypeInv
<1>2. Len(Top.tokens) \in Nat
  BY <1>1, SequenceFacts DEF CallOK
<1>3. QED
  BY <1>1, <1>2 DEF CallOK

LEMMA CopyOK ==
  ASSUME HideStack, TypeInv, Copy
  PROVE  TypeInv'
<1>1. /\ calls # <<>> /\ IsSequence(Top.result)
      /\ Top.i + 1 \in 1 .. Len(Top.tokens) + 1
  BY AtTokenIs DEF Copy
<1>2. IsSequence(Append(Top.result, Token))
  BY <1>1, Appended
<1>3. calls' = Goes(Append(Top.result, Token), Top.i + 1) /\ UNCHANGED <<program, line, macros, status>>
  BY DEF Copy
<1>4. QED
  BY <1>1, <1>2, <1>3, WithinOK

LEMMA ExpandObjectOK ==
  ASSUME HideStack, TypeInv, ExpandObject
  PROVE  TypeInv'
<1> DEFINE x == Call(macros[Token].body, Token, None)
<1>1. calls # <<>> /\ Top.i + 1 \in 1 .. Len(Top.tokens) + 1
  BY AtTokenIs DEF ExpandObject
<1>2. Token \in Names /\ IsSequence(macros[Token].body)
  BY ExpandsIs DEF ExpandObject
<1>3. CallOK(x)
  BY <1>2, NewCallOK
<1>4. calls' = Append(Goes(Top.result, Top.i + 1), x) /\ UNCHANGED <<program, line, macros, status>>
  BY DEF ExpandObject
<1> HIDE DEF x
<1>5. QED
  BY <1>1, <1>3, <1>4, CallStepOK

LEMMA ExpandFunctionOK ==
  ASSUME HideStack, TypeInv, ExpandFunction
  PROVE  TypeInv'
<1> DEFINE n == Len(Top.tokens)
           close == ClosePlace(Top.tokens, NextPlace)
           args == collect_macro_args(Top.tokens, NextPlace, close, macros[Token])
           x == Call(macros[Token].body, Token, args)
           i == Behind(Top.tokens, close)
<1>1. calls # <<>> /\ IsSequence(Top.tokens) /\ n \in Nat /\ Top.i \in 1 .. n
  BY AtTokenIs DEF ExpandFunction
<1>2. NextPlace \in 1 .. n
  <2>1. NextPlace \in Top.i + 1 .. n + 1
    BY <1>1, NextPlaceIs
  <2>2. NextPlace <= n
    BY DEF ExpandFunction, IsCalled
  <2>3. QED
    BY <1>1, <2>1, <2>2
<1>3. close \in NextPlace + 1 .. n + 1
  BY <1>1, <1>2, ClosePlaceIs
<1>4. /\ calls' = Append(Goes(Top.result, i), x)
      /\ UNCHANGED <<program, line, macros, status>>
  BY DEF ExpandFunction
<1> HIDE DEF close
<1>5. i \in 1 .. n + 1
  BY <1>1, <1>2, <1>3 DEF Behind
<1>6. IsArgs(args)
  BY <1>1, <1>2, <1>3, CollectedArgs
<1>7. Token \in Names /\ IsMacro(macros[Token]) /\ IsSequence(macros[Token].body)
      /\ macros[Token].params # None
  BY ExpandsIs DEF ExpandFunction, IsObject
<1> HIDE DEF args, i
<1>8. CallOK(x)
  BY <1>6, <1>7, NewCallOK
<1> HIDE DEF x
<1>9. QED
  BY <1>1, <1>4, <1>5, <1>8, CallStepOK

\* What stands for a token while the arguments of a call are put in.
LEMMA SubstitutesIs ==
  ASSUME HideStack, TypeInv, Substitutes, NEW t
  PROVE  IsSequence(Replacement(t))
<1>1. IsArgs(Top.args) /\ IsSequence(Macro.params)
  <2>1. CallOK(Top) /\ Top.args # None
    BY AtTokenIs DEF Substitutes
  <2>2. QED
    BY <2>1 DEF CallOK, Macro, IsMacro
<1>2. Replacement(t) = get_param_replacement(Macro, Top.args, t)
  BY DEF Replacement
<1>3. QED
  BY <1>1, <1>2, ReplacementIs

LEMMA StringifyOK ==
  ASSUME HideStack, TypeInv, Stringify
  PROVE  TypeInv'
<1>1. AtToken /\ HasNext
  BY DEF Stringify, Substitutes, Stringifies
<1>2. calls # <<>> /\ IsSequence(Top.result) /\ Top.i + 2 \in 1 .. Len(Top.tokens) + 1
  BY <1>1, AtTokenIs DEF HasNext
<1>3. PICK arg : calls' = Goes(Append(Top.result, stringify_arg(arg)), Top.i + 2)
  BY DEF Stringify
<1> DEFINE res == Append(Top.result, stringify_arg(arg))
<1>4. IsSequence(res)
  BY <1>2, Appended
<1>5. calls' = Goes(res, Top.i + 2) /\ UNCHANGED <<program, line, macros, status>>
  BY <1>3 DEF Stringify
<1> HIDE DEF res
<1>6. QED
  BY <1>2, <1>4, <1>5, WithinOK

LEMMA PasteOK ==
  ASSUME HideStack, TypeInv, Paste
  PROVE  TypeInv'
<1>1. AtToken /\ HasNext /\ Substitutes /\ Top.result # <<>>
  BY DEF Paste, Substitutes
<1>2. calls # <<>> /\ IsSequence(Top.result) /\ Top.i + 2 \in 1 .. Len(Top.tokens) + 1
  BY <1>1, AtTokenIs DEF HasNext
<1> DEFINE right == Replacement(NextToken)
           joined == IF right = <<>> THEN <<>>
                     ELSE <<paste_tokens(Last(Top.result), Head(right))>> \o Tail(right)
           res == Front(Top.result) \o joined
<1>3. calls' = Goes(res, Top.i + 2) /\ UNCHANGED <<program, line, macros, status>>
  BY DEF Paste
<1>4. IsSequence(right)
  BY <1>1, SubstitutesIs
<1> HIDE DEF right
<1>5. IsSequence(joined)
  <2>1. CASE right = <<>>
    BY <2>1, EmptyIs
  <2>2. CASE right # <<>>
    BY <1>4, <2>2, TailIs, SingleIs, Joined
  <2>3. QED
    BY <2>1, <2>2
<1>6. IsSequence(Front(Top.result))
  BY <1>1, <1>2, Shortened
<1> HIDE DEF joined
<1>7. IsSequence(res)
  BY <1>5, <1>6, Joined
<1> HIDE DEF res
<1>8. QED
  BY <1>2, <1>3, <1>7, WithinOK

LEMMA ReplaceOK ==
  ASSUME HideStack, TypeInv, Replace
  PROVE  TypeInv'
<1>1. AtToken /\ Substitutes
  BY DEF Replace, Substitutes
<1>2. calls # <<>> /\ IsSequence(Top.result) /\ Top.i + 1 \in 1 .. Len(Top.tokens) + 1
  BY <1>1, AtTokenIs
<1> DEFINE right == Replacement(Token)
           res == IF Token = HashHash THEN Top.result ELSE Top.result \o right
<1>3. calls' = Goes(res, Top.i + 1) /\ UNCHANGED <<program, line, macros, status>>
  BY DEF Replace
<1>4. IsSequence(right)
  BY <1>1, SubstitutesIs
<1> HIDE DEF right
<1>5. IsSequence(Top.result \o right)
  BY <1>2, <1>4, Joined
<1>6. IsSequence(res)
  BY <1>2, <1>5
<1> HIDE DEF res
<1>7. QED
  BY <1>2, <1>3, <1>6, WithinOK

LEMMA RescanOK ==
  ASSUME HideStack, TypeInv, Rescan
  PROVE  TypeInv'
<1> DEFINE n == Len(calls)
           x == Call(Top.result, None, None)
           ds == [calls EXCEPT ![n] = x]
<1>1. calls # <<>> /\ calls' = ds /\ UNCHANGED <<program, line, macros, status>>
  BY DEF Rescan, AtEnd
<1>2. CallOK(Top) /\ IsSequence(calls) /\ n \in 1 .. Len(calls)
  BY <1>1, TopIs DEF TypeInv, HideStack
<1>3. CallOK(x)
  <2>1. IsSequence(Top.result)
    BY <1>2 DEF CallOK
  <2>2. QED
    BY <2>1, NewCallOK
<1> HIDE DEF x
<1>4. Len(ds) = Len(calls)
  BY <1>2, Changed
<1>5. \A c \in 1 .. Len(calls) : ds[c] = IF c = n THEN x ELSE calls[c]
  BY <1>2, Changed
<1> HIDE DEF ds
<1>6. \A c \in 1 .. Len(ds) : CallOK(ds[c])
  BY <1>3, <1>4, <1>5 DEF TypeInv, CallsOK
<1>7. CallsOK'
  BY <1>1, <1>6 DEF CallsOK, CallOK
<1>8. LineOK' /\ MacrosOK'
  BY <1>1 DEF TypeInv, LineOK, MacrosOK
<1>9. QED
  BY <1>1, <1>7, <1>8 DEF TypeInv

LEMMA ReturnOK ==
  ASSUME HideStack, TypeInv, Return
  PROVE  TypeInv'
<1> DEFINE n == Len(calls)
<1>1. /\ calls # <<>> /\ CallOK(Top) /\ IsSequence(calls)
      /\ n \in Nat \ {0}
  BY TopIs DEF Return, AtEnd, TypeInv, HideStack
<1>2. UNCHANGED <<program, macros, status>>
  BY DEF Return
<1>3. CASE n = 1
  <2>1. calls' = <<>> /\ line' = line + 1
    BY <1>3 DEF Return
  <2>2. Len(program) \in Nat /\ line \in 1 .. Len(program)
    BY <1>1, ProgramIs DEF TypeInv, LineOK
  <2>3. LineOK'
    BY <1>2, <2>1, <2>2 DEF TypeInv, LineOK
  <2>4. CallsOK'
    BY <2>1, EmptyIs DEF CallsOK
  <2>5. QED
    BY <1>2, <2>3, <2>4 DEF TypeInv, MacrosOK
<1>4. CASE n # 1
  <2> DEFINE t == Front(calls)
             res == t[n - 1].result \o Top.result
             x == [t[n - 1] EXCEPT !.result = res]
             ds == [t EXCEPT ![n - 1] = x]
  <2>1. IsSequence(t) /\ Len(t) = n - 1 /\ \A c \in 1 .. n - 1 : t[c] = calls[c]
    BY <1>1, Shortened
  <2>2. calls' = ds /\ line' = line
    BY <1>4 DEF Return
  <2> HIDE DEF t
  <2>3. n - 1 \in 1 .. n - 1 /\ n - 1 \in 1 .. n /\ \A c \in 1 .. n - 1 : c \in 1 .. n
    BY <1>1, <1>4
  <2>4. \A c \in 1 .. n - 1 : CallOK(t[c]) /\ IsFrame(t[c])
    <3>1. \A c \in 1 .. n : CallOK(calls[c]) /\ IsFrame(calls[c])
      BY TopIs, <1>1 DEF TypeInv, CallsOK, HideStack, IsFrame
    <3>2. QED
      BY <2>1, <2>3, <3>1
  <2>5. IsSequence(res)
    BY <1>1, <2>3, <2>4, Joined DEF CallOK
  <2> HIDE DEF res
  <2>6. Resumed(x, t[n - 1], res, t[n - 1].i)
    <3>1. IsFrame(t[n - 1])
      BY <2>3, <2>4
    <3>2. QED
      BY <3>1, LargerFrame
  <2> HIDE DEF x
  <2>7. CallOK(x)
    BY <2>3, <2>4, <2>5, <2>6, ResumedOK DEF CallOK
  <2>8. n - 1 \in 1 .. Len(t)
    BY <2>1, <2>3
  <2>9. Len(ds) = Len(t)
    BY <2>1, <2>8, Changed
  <2>10. \A c \in 1 .. Len(t) : ds[c] = IF c = n - 1 THEN x ELSE t[c]
    BY <2>1, <2>8, Changed
  <2> HIDE DEF ds
  <2>11. \A c \in 1 .. Len(ds) : CallOK(ds[c])
    BY <2>1, <2>4, <2>7, <2>9, <2>10
  <2>12. CallsOK'
    BY <1>2, <2>2, <2>11 DEF CallsOK, CallOK
  <2>13. LineOK' /\ MacrosOK'
    BY <1>1, <1>2, <2>2 DEF TypeInv, LineOK, MacrosOK
  <2>14. QED
    BY <1>2, <2>12, <2>13 DEF TypeInv
<1>5. QED
  BY <1>3, <1>4

LEMMA TypeInvInit == Init => TypeInv
<1> SUFFICES ASSUME Init PROVE TypeInv
  OBVIOUS
<1>1. Len(program) \in Nat /\ Len(calls) = 0 /\ calls = <<>>
  <2>1. IsSequence(program)
    BY ProgramsAssumption DEF Init
  <2>2. QED
    BY <2>1, SequenceFacts, EmptyIs DEF Init
<1>2. LineOK
  BY <1>1 DEF Init, LineOK
<1>3. MacrosOK
  BY DEF Init, MacrosOK
<1>4. CallsOK
  BY <1>1 DEF CallsOK
<1>5. QED
  BY <1>2, <1>3, <1>4 DEF TypeInv, Init

LEMMA TypeInvNext == HideStack /\ TypeInv /\ [Next]_vars => TypeInv'
<1> SUFFICES ASSUME HideStack, TypeInv, [Next]_vars PROVE TypeInv'
  OBVIOUS
<1>1. ASSUME UNCHANGED <<program, line, macros, calls>>, status' \in {"running", "done", "panicked"}
      PROVE  TypeInv'
  BY <1>1 DEF TypeInv, LineOK, MacrosOK, CallsOK, CallOK
<1>2. CASE Stop
  BY <1>1, <1>2 DEF Stop
<1>3. CASE Panic
  BY <1>1, <1>3 DEF Panic
<1>4. CASE UNCHANGED vars
  BY <1>1, <1>4 DEF vars, TypeInv
<1>5. QED
  BY <1>2, <1>3, <1>4, DefineOK, UndefOK, TextOK, CopyOK, ExpandObjectOK, ExpandFunctionOK,
     ReturnOK, StringifyOK, PasteOK, ReplaceOK, RescanOK
  DEF Next

LEMMA TypeInvTypes == HideStack /\ TypeInv => TypeOK
<1> SUFFICES ASSUME HideStack, TypeInv PROVE TypeOK
  OBVIOUS
<1>1. DOMAIN calls = 1 .. Len(calls)
  BY SequenceFacts DEF HideStack
<1>2. QED
  BY <1>1 DEF TypeInv, LineOK, MacrosOK, CallsOK, CallOK, TypeOK

\* TypeOK: whatever the files hold, also calls that nothing closes and arguments that are
\* missing, each call of expand_macro_tokens_with_stack is at one of its tokens or behind
\* the last, so that tokens[i] is there when it is read, and so is the line of the file.
THEOREM MacrosTypeCorrect == Spec => []TypeOK
<1>1. Spec => [](HideStack /\ TypeInv)
  <2>1. HideStack /\ TypeInv /\ [Next]_vars => (HideStack /\ TypeInv)'
    BY HideStackNext, TypeInvNext
  <2>2. Init => HideStack /\ TypeInv
    BY HideStackInit, TypeInvInit
  <2>3. QED
    BY <2>1, <2>2, PTL DEF Spec
<1>2. QED
  BY <1>1, TypeInvTypes, PTL
=============================================================================
