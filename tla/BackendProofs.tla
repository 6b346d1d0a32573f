---------------------------- MODULE BackendProofs ----------------------------
(***************************************************************************)
(* Proofs about two parts of the backend.  Scopes: whatever is declared in *)
(* a block and in the blocks within it, the end of the block brings back   *)
(* every name as it was.  Reachability: for every set of definitions, also *)
(* of functions that call each other, and every order of the worklist.     *)
(***************************************************************************)
EXTENDS Scopes, Reachability, Integers, SequenceTheorems, TLAPS

VARIABLES
  variables, scope_stack,  \* what names mean, and the open scopes
  outer                    \* what they meant when each of the open scopes began

scopeVars == <<variables, scope_stack, outer>>

IsMap(f) == f = [x \in DOMAIN f |-> f[x]]

\* Between two functions no scope is open; names are those of the file and the parameters.
ScopesInit == IsMap(variables) /\ scope_stack = <<>> /\ outer = <<>>

\* A block begins, declares a name, and ends.
push_scope ==
  scope_stack' = Append(scope_stack, Empty0) /\ outer' = Append(outer, variables) /\ UNCHANGED variables
insert_scoped_variable(name, binding) ==
  /\ scope_stack' = HidInLast(scope_stack, variables, name)
  /\ variables' = Put(variables, name, binding)
  /\ UNCHANGED outer
pop_scope ==
  /\ scope_stack # <<>>
  /\ scope_stack' = SubSeq(scope_stack, 1, Len(scope_stack) - 1)
  /\ outer' = SubSeq(outer, 1, Len(outer) - 1)
  /\ variables' = Restored(variables, scope_stack[Len(scope_stack)])

ScopesNext == push_scope \/ pop_scope \/ \E name, binding : insert_scoped_variable(name, binding)
ScopesSpec == ScopesInit /\ [][ScopesNext]_scopeVars

\* The end of a block leaves every name as it was when the block began.
EndsAsItBegan ==
  [][Len(scope_stack') < Len(scope_stack) => variables' = outer[Len(outer)]]_scopeVars

-----------------------------------------------------------------------------
(* The invariant: a scope has kept what a name meant when the scope began, *)
(* and a name that it has not kept still meant that when the next scope    *)
(* within it began, or means it now.                                       *)

IsSequence(s) == s \in Seq({s[k] : k \in DOMAIN s})
After(i) == IF i = Len(outer) THEN variables ELSE outer[i + 1]
ScopeKeeps(saved, before, after) ==
  /\ \A x \in DOMAIN saved : saved[x] = At0(before, x)
  /\ \A x : x \notin DOMAIN saved => At0(after, x) = At0(before, x)
Shapes ==
  /\ IsSequence(scope_stack) /\ IsSequence(outer) /\ Len(scope_stack) = Len(outer)
  /\ IsMap(variables)
  /\ \A i \in 1 .. Len(outer) : IsMap(outer[i])
EachKeeps == \A i \in 1 .. Len(outer) : ScopeKeeps(scope_stack[i], outer[i], After(i))
ScopesInv == Shapes /\ EachKeeps

-----------------------------------------------------------------------------
\* A scope that has kept what names meant brings it back.
LEMMA RestoresBefore ==
  ASSUME NEW saved, NEW before, NEW after, IsMap(before), ScopeKeeps(saved, before, after)
  PROVE  Restored(after, saved) = before
<1> DEFINE hidden == {x \in DOMAIN saved : saved[x] # {}}
           domain == (DOMAIN after \ DOMAIN saved) \cup hidden
           Value(x) == IF x \in hidden THEN The(saved[x]) ELSE after[x]
<1>1. ASSUME NEW x PROVE x \in domain <=> x \in DOMAIN before
  BY DEF ScopeKeeps, At0
<1>2. domain = DOMAIN before
  BY <1>1
<1>3. ASSUME NEW x \in domain PROVE Value(x) = before[x]
  <2>1. x \in DOMAIN before
    BY <1>2
  <2>2. CASE x \in hidden
    <3>1. saved[x] = {before[x]}
      BY <2>1, <2>2 DEF ScopeKeeps, At0
    <3>2. QED
      BY <2>2, <3>1 DEF The
  <2>3. CASE x \notin hidden
    BY <2>1, <2>3 DEF ScopeKeeps, At0
  <2>4. QED
    BY <2>2, <2>3
<1>4. Restored(after, saved) = [x \in domain |-> Value(x)]
  BY DEF Restored
<1>5. [x \in domain |-> Value(x)] = [x \in DOMAIN before |-> before[x]]
  BY <1>2, <1>3
<1>6. QED
  BY <1>4, <1>5 DEF IsMap

\* A name that is declared in the last scope is kept there, if it is the first such declaration.
LEMMA DeclarationKeeps ==
  ASSUME NEW saved, NEW before, NEW after, ScopeKeeps(saved, before, after), NEW name, NEW binding
  PROVE  ScopeKeeps(Hiding(saved, after, name), before, Put(after, name, binding))
<1>1. ASSUME NEW x \in DOMAIN Hiding(saved, after, name)
      PROVE  Hiding(saved, after, name)[x] = At0(before, x)
  BY DEF ScopeKeeps, Hiding, Put
<1>2. ASSUME NEW x, x \notin DOMAIN Hiding(saved, after, name)
      PROVE  At0(Put(after, name, binding), x) = At0(before, x)
  <2>1. x # name /\ x \notin DOMAIN saved
    BY <1>2 DEF Hiding, Put
  <2>2. At0(Put(after, name, binding), x) = At0(after, x)
    BY <2>1 DEF At0, Put
  <2>3. QED
    BY <2>1, <2>2 DEF ScopeKeeps
<1>3. QED
  BY <1>1, <1>2 DEF ScopeKeeps

LEMMA PutIsMap ==
  ASSUME NEW f, NEW x, NEW y PROVE IsMap(Put(f, x, y))
  BY DEF IsMap, Put

-----------------------------------------------------------------------------
LEMMA SequenceOfAny ==
  ASSUME NEW S, NEW s \in Seq(S) PROVE IsSequence(s)
  BY DEF IsSequence

LEMMA AppendKeepsSequence ==
  ASSUME NEW s, IsSequence(s), NEW e
  PROVE  /\ IsSequence(Append(s, e)) /\ Len(Append(s, e)) = Len(s) + 1 /\ Len(s) \in Nat
         /\ \A i \in 1 .. Len(s) : Append(s, e)[i] = s[i]
         /\ Append(s, e)[Len(s) + 1] = e
<1> DEFINE T == {s[k] : k \in DOMAIN s} \cup {e}
<1>1. s \in Seq(T)
  BY DEF IsSequence
<1>2. Append(s, e) \in Seq(T) /\ Len(Append(s, e)) = Len(s) + 1 /\ Len(s) \in Nat
  BY <1>1
<1>3. \A i \in 1 .. Len(s) : Append(s, e)[i] = s[i]
  BY <1>1
<1>4. Append(s, e)[Len(s) + 1] = e
  BY <1>1
<1>5. IsSequence(Append(s, e))
  BY <1>2, SequenceOfAny
<1>6. QED
  BY <1>2, <1>3, <1>4, <1>5

LEMMA FrontKeepsSequence ==
  ASSUME NEW s, IsSequence(s), s # <<>>
  PROVE  LET front == SubSeq(s, 1, Len(s) - 1)
         IN /\ IsSequence(front) /\ Len(front) = Len(s) - 1 /\ Len(s) \in Nat \ {0}
            /\ \A i \in 1 .. Len(front) : front[i] = s[i]
<1> DEFINE T == {s[k] : k \in DOMAIN s}
           front == SubSeq(s, 1, Len(s) - 1)
<1>1. s \in Seq(T) /\ Len(s) \in Nat \ {0}
  BY DEF IsSequence
<1>2. front \in Seq(T) /\ Len(front) = Len(s) - 1 /\ \A i \in 1 .. Len(s) - 1 : front[i] = s[i]
  <2> DEFINE n == Len(s) - 1
  <2>1. n \in Nat /\ \A i \in 1 .. n : s[i] \in T
    BY <1>1
  <2>2. n \in Int /\ 1 \in Int
    BY <2>1
  <2> HIDE DEF n, T
  <2>3. /\ SubSeq(s, 1, n) \in Seq(T)
        /\ Len(SubSeq(s, 1, n)) = IF 1 <= n THEN n - 1 + 1 ELSE 0
        /\ \A i \in 1 .. n - 1 + 1 : SubSeq(s, 1, n)[i] = s[1 + i - 1]
    BY <2>1, <2>2, SubSeqProperties
  <2>4. Len(SubSeq(s, 1, n)) = n /\ \A i \in 1 .. n : SubSeq(s, 1, n)[i] = s[i]
    BY <2>1, <2>3
  <2>5. QED
    BY <2>3, <2>4 DEF n
<1>3. \A i \in 1 .. Len(front) : front[i] = s[i]
  BY <1>2
<1>4. IsSequence(front)
  BY <1>2, SequenceOfAny
<1>5. QED
  BY <1>1, <1>2, <1>3, <1>4

LEMMA StartHolds ==
  ASSUME ScopesInit PROVE ScopesInv
<1>1. Len(outer) = 0 /\ Len(scope_stack) = 0
  BY DEF ScopesInit
<1>2. IsSequence(outer) /\ IsSequence(scope_stack)
  BY DEF ScopesInit, IsSequence
<1>3. QED
  BY <1>1, <1>2 DEF ScopesInit, ScopesInv, Shapes, EachKeeps

\* The new scope has hidden nothing, and names mean what they meant.
LEMMA PushHolds ==
  ASSUME ScopesInv, push_scope PROVE ScopesInv'
<1> USE DEF ScopesInv
<1>1. /\ IsSequence(scope_stack') /\ Len(scope_stack') = Len(outer) + 1 /\ Len(outer) \in Nat
      /\ \A i \in 1 .. Len(outer) : scope_stack'[i] = scope_stack[i]
      /\ scope_stack'[Len(outer) + 1] = Empty0
  BY AppendKeepsSequence DEF push_scope, Shapes
<1>2. /\ IsSequence(outer') /\ Len(outer') = Len(outer) + 1
      /\ \A i \in 1 .. Len(outer) : outer'[i] = outer[i]
      /\ outer'[Len(outer) + 1] = variables
  BY AppendKeepsSequence DEF push_scope, Shapes
<1>3. \A i \in 1 .. Len(outer') : IsMap(outer'[i])
  <2>1. TAKE i \in 1 .. Len(outer')
  <2>2. CASE i \in 1 .. Len(outer)
    BY <1>2, <2>2 DEF Shapes
  <2>3. CASE i = Len(outer) + 1
    BY <1>2, <2>3 DEF Shapes
  <2>4. QED
    BY <1>1, <1>2, <2>2, <2>3
<1>4. Shapes'
  BY <1>1, <1>2, <1>3 DEF Shapes, push_scope
<1>5. ASSUME NEW i \in 1 .. Len(outer')
      PROVE  ScopeKeeps(scope_stack'[i], outer'[i], After(i)')
  <2>1. CASE i \in 1 .. Len(outer)
    <3>1. After(i)' = After(i)
      BY <1>1, <1>2, <2>1 DEF After
    <3>2. ScopeKeeps(scope_stack[i], outer[i], After(i))
      BY <2>1 DEF EachKeeps
    <3>3. QED
      BY <1>1, <1>2, <2>1, <3>1, <3>2
  <2>2. CASE i = Len(outer) + 1
    <3>1. After(i)' = variables
      BY <1>2, <2>2 DEF After, push_scope
    <3>2. ScopeKeeps(Empty0, variables, variables)
      BY DEF ScopeKeeps, Empty0
    <3>3. QED
      BY <1>1, <1>2, <2>2, <3>1, <3>2
  <2>3. QED
    BY <1>1, <1>2, <2>1, <2>2
<1>6. EachKeeps'
  BY <1>5 DEF EachKeeps
<1>7. QED
  BY <1>4, <1>6

\* What ends is the last scope; the scope around it sees the names as they were.
LEMMA PopHolds ==
  ASSUME ScopesInv, pop_scope PROVE ScopesInv' /\ variables' = outer[Len(outer)]
<1> USE DEF ScopesInv
<1>1. /\ IsSequence(scope_stack') /\ Len(scope_stack') = Len(outer) - 1 /\ Len(outer) \in Nat \ {0}
      /\ \A i \in 1 .. Len(outer) - 1 : scope_stack'[i] = scope_stack[i]
  BY FrontKeepsSequence DEF pop_scope, Shapes
<1>2. outer # <<>>
  BY <1>1
<1>3. /\ IsSequence(outer') /\ Len(outer') = Len(outer) - 1
      /\ \A i \in 1 .. Len(outer) - 1 : outer'[i] = outer[i]
  BY <1>2, FrontKeepsSequence DEF pop_scope, Shapes
<1>4. ScopeKeeps(scope_stack[Len(outer)], outer[Len(outer)], variables) /\ IsMap(outer[Len(outer)])
  BY <1>1 DEF EachKeeps, Shapes, After
<1>5. variables' = outer[Len(outer)]
  BY <1>4, RestoresBefore DEF pop_scope, Shapes
<1>6. \A i \in 1 .. Len(outer') : IsMap(outer'[i])
  BY <1>1, <1>3 DEF Shapes
<1>7. Shapes'
  BY <1>1, <1>3, <1>4, <1>5, <1>6 DEF Shapes
<1>8. ASSUME NEW i \in 1 .. Len(outer')
      PROVE  ScopeKeeps(scope_stack'[i], outer'[i], After(i)')
  <2>1. i \in 1 .. Len(outer) /\ i \in 1 .. Len(outer) - 1
    BY <1>1, <1>3
  <2>2. After(i)' = After(i)
    BY <1>1, <1>3, <1>5, <2>1 DEF After
  <2>3. ScopeKeeps(scope_stack[i], outer[i], After(i))
    BY <2>1 DEF EachKeeps
  <2>4. QED
    BY <1>1, <1>3, <2>1, <2>2, <2>3
<1>9. EachKeeps'
  BY <1>8 DEF EachKeeps
<1>10. QED
  BY <1>5, <1>7, <1>9

\* A declaration changes the last scope alone.
LEMMA InsertHolds ==
  ASSUME ScopesInv, NEW name, NEW binding, insert_scoped_variable(name, binding) PROVE ScopesInv'
<1> USE DEF ScopesInv
<1> DEFINE n == Len(outer)
           last == Hiding(scope_stack[n], variables, name)
<1>1. IsMap(variables)' /\ variables' = Put(variables, name, binding) /\ outer' = outer
  BY PutIsMap DEF insert_scoped_variable
<1>2. CASE scope_stack = <<>>
  <2>1. scope_stack' = scope_stack /\ Len(outer) = 0
    BY <1>2 DEF insert_scoped_variable, HidInLast, Shapes
  <2>2. QED
    BY <1>1, <2>1 DEF Shapes, EachKeeps
<1>3. CASE scope_stack # <<>>
  <2>1. n \in Nat \ {0} /\ n = Len(scope_stack) /\ DOMAIN scope_stack = 1 .. n
    BY <1>3 DEF Shapes, IsSequence
  <2>2. scope_stack' = [scope_stack EXCEPT ![n] = last]
    BY <1>3, <2>1 DEF insert_scoped_variable, HidInLast
  <2>3. /\ scope_stack'[n] = last
        /\ \A i \in 1 .. n : i # n => scope_stack'[i] = scope_stack[i]
    BY <2>1, <2>2
  <2>4. IsSequence(scope_stack') /\ Len(scope_stack') = n
    <3> DEFINE T == {scope_stack[k] : k \in DOMAIN scope_stack} \cup {last}
    <3>1. scope_stack \in Seq(T) /\ last \in T
      BY DEF Shapes, IsSequence
    <3> HIDE DEF last, T
    <3>2. scope_stack' \in Seq(T) /\ Len(scope_stack') = n
      BY <2>1, <2>2, <3>1
    <3>3. QED
      BY <3>2 DEF IsSequence
  <2>5. Shapes'
    BY <1>1, <2>4 DEF Shapes
  <2>6. ASSUME NEW i \in 1 .. n
        PROVE  ScopeKeeps(scope_stack'[i], outer[i], After(i)')
    <3>1. ScopeKeeps(scope_stack[i], outer[i], After(i))
      BY DEF EachKeeps
    <3>2. CASE i = n
      <4>1. After(i) = variables /\ After(i)' = Put(variables, name, binding)
        BY <1>1, <3>2 DEF After
      <4>2. ScopeKeeps(last, outer[i], Put(variables, name, binding))
        BY <3>1, <3>2, <4>1, DeclarationKeeps
      <4>3. QED
        BY <2>3, <3>2, <4>1, <4>2
    <3>3. CASE i # n
      <4>1. After(i)' = After(i) /\ scope_stack'[i] = scope_stack[i]
        BY <1>1, <2>3, <3>3 DEF After
      <4>2. QED
        BY <3>1, <4>1
    <3>4. QED
      BY <3>2, <3>3
  <2>7. EachKeeps'
    BY <1>1, <2>6 DEF EachKeeps
  <2>8. QED
    BY <2>5, <2>7
<1>4. QED
  BY <1>2, <1>3

LEMMA ScopesInvariant == ScopesSpec => []ScopesInv
<1>1. ScopesInit => ScopesInv
  BY StartHolds
<1>2. ScopesInv /\ [ScopesNext]_scopeVars => ScopesInv'
  <2>1. SUFFICES ASSUME ScopesInv, [ScopesNext]_scopeVars PROVE ScopesInv'
    OBVIOUS
  <2>2. CASE push_scope
    BY <2>1, <2>2, PushHolds
  <2>3. CASE pop_scope
    BY <2>1, <2>3, PopHolds
  <2>4. CASE \E name, binding : insert_scoped_variable(name, binding)
    BY <2>1, <2>4, InsertHolds
  <2>5. CASE UNCHANGED scopeVars
    BY <2>1, <2>5 DEF scopeVars, ScopesInv, Shapes, EachKeeps, After
  <2>6. QED
    BY <2>1, <2>2, <2>3, <2>4, <2>5 DEF ScopesNext
<1>3. QED
  BY <1>1, <1>2, PTL DEF ScopesSpec

\* However blocks nest and whatever they declare, how often and under which names:
\* pop_scope brings every name back to what it meant when the block began.
THEOREM BlocksRestore == ScopesSpec => EndsAsItBegan
<1>1. ScopesInv /\ [ScopesNext]_scopeVars
        => [Len(scope_stack') < Len(scope_stack) => variables' = outer[Len(outer)]]_scopeVars
  <2>1. SUFFICES ASSUME ScopesInv, [ScopesNext]_scopeVars, Len(scope_stack') < Len(scope_stack)
                 PROVE  variables' = outer[Len(outer)]
    OBVIOUS
  <2>2. Len(scope_stack) \in Nat
    BY <2>1 DEF ScopesInv, Shapes, IsSequence
  <2>3. CASE push_scope
    <3>1. Len(scope_stack') = Len(scope_stack) + 1
      BY <2>1, <2>3, AppendKeepsSequence DEF push_scope, ScopesInv, Shapes
    <3>2. QED
      BY <2>1, <2>2, <3>1
  <2>4. CASE pop_scope
    BY <2>1, <2>4, PopHolds
  <2>5. ASSUME NEW name, NEW binding, insert_scoped_variable(name, binding)
        PROVE  Len(scope_stack') = Len(scope_stack)
    <3>1. CASE scope_stack = <<>>
      BY <2>5, <3>1 DEF insert_scoped_variable, HidInLast
    <3>2. CASE scope_stack # <<>>
      <4> DEFINE last == Hiding(scope_stack[Len(scope_stack)], variables, name)
      <4>1. scope_stack' = [scope_stack EXCEPT ![Len(scope_stack)] = last]
        BY <2>5, <3>2 DEF insert_scoped_variable, HidInLast
      <4> HIDE DEF last
      <4>2. IsSequence(scope_stack)
        BY <2>1 DEF ScopesInv, Shapes
      <4>3. QED
        BY <2>2, <4>1, <4>2 DEF IsSequence
    <3>3. QED
      BY <3>1, <3>2
  <2>6. CASE UNCHANGED scopeVars
    BY <2>1, <2>2, <2>6 DEF scopeVars
  <2>7. QED
    BY <2>1, <2>2, <2>3, <2>4, <2>5, <2>6 DEF ScopesNext
<1>2. QED
  BY <1>1, ScopesInvariant, PTL DEF ScopesSpec, EndsAsItBegan

-----------------------------------------------------------------------------
(* The invariant: what was found is defined and is on the worklist or has  *)
(* its callees among what was found, and no set that holds the roots and   *)
(* what they name lacks any of it.                                         *)

FoundDefined == worklist \subseteq reached /\ reached \subseteq DOMAIN defs /\ RootsOf(defs) \subseteq reached
LookedAt == \A x \in reached \ worklist : defs[x].callees \cap DOMAIN defs \subseteq reached
FoundNeeded ==
  \A set \in SUBSET DOMAIN defs :
    (RootsOf(defs) \subseteq set /\ HoldsItsCallees(defs, set)) => reached \subseteq set
SearchInv == FoundDefined /\ LookedAt /\ FoundNeeded

\* When the search begins, the roots are all that was found.
LEMMA SearchBegins == ReachInit => SearchInv
  BY DEF ReachInit, SearchInv, FoundDefined, LookedAt, FoundNeeded, RootsOf

\* Looking at one name's callees keeps the invariant.
LEMMA VisitKeeps ==
  ASSUME SearchInv, NEW name, Visit(name)
  PROVE  SearchInv'
<1>1. name \in reached /\ name \in DOMAIN defs
  BY DEF SearchInv, FoundDefined, Visit
<1>2. FoundDefined'
  BY DEF SearchInv, FoundDefined, Visit, NamedBy
<1>3. LookedAt'
  <2> SUFFICES ASSUME NEW x \in reached' \ worklist'
               PROVE  defs[x].callees \cap DOMAIN defs \subseteq reached'
    BY DEF LookedAt, Visit
  <2>1. CASE x = name
    BY <2>1 DEF Visit, NamedBy
  <2>2. CASE x # name
    <3>1. x \in reached \ worklist
      BY <2>2 DEF Visit
    <3>2. QED
      BY <3>1 DEF SearchInv, LookedAt, Visit
  <2>3. QED
    BY <2>1, <2>2
<1>4. FoundNeeded'
  <2> SUFFICES ASSUME NEW set \in SUBSET DOMAIN defs, RootsOf(defs) \subseteq set, HoldsItsCallees(defs, set)
               PROVE  reached' \subseteq set
    BY DEF FoundNeeded, Visit
  <2>1. reached \subseteq set
    BY DEF SearchInv, FoundNeeded
  <2>2. defs[name].callees \cap DOMAIN defs \subseteq set
    BY <1>1, <2>1 DEF HoldsItsCallees
  <2>3. QED
    BY <2>1, <2>2 DEF Visit, NamedBy
<1>5. QED
  BY <1>2, <1>3, <1>4 DEF SearchInv

LEMMA SearchKeeps == SearchInv /\ [ReachNext]_reachVars => SearchInv'
<1> SUFFICES ASSUME SearchInv, [ReachNext]_reachVars PROVE SearchInv'
  OBVIOUS
<1>1. CASE ReachNext
  BY <1>1, VisitKeeps DEF ReachNext
<1>2. CASE UNCHANGED reachVars
  BY <1>2 DEF reachVars, SearchInv, FoundDefined, LookedAt, FoundNeeded, HoldsItsCallees, RootsOf
<1>3. QED
  BY <1>1, <1>2

LEMMA SearchInvariant == ReachSpec => []SearchInv
  BY SearchBegins, SearchKeeps, PTL DEF ReachSpec

-----------------------------------------------------------------------------
\* With nothing left to look at, what was found holds its callees and is the least such set.
LEMMA SearchIsExact == SearchInv => ExactlyReachable
<1> SUFFICES ASSUME SearchInv, worklist = {} PROVE reached = Reachable(defs)
  BY DEF ExactlyReachable
<1>1. reached \in SUBSET DOMAIN defs /\ RootsOf(defs) \subseteq reached
  BY DEF SearchInv, FoundDefined
<1>2. HoldsItsCallees(defs, reached)
  BY DEF SearchInv, LookedAt, HoldsItsCallees
<1>3. Reachable(defs) \subseteq reached
  BY <1>1, <1>2 DEF Reachable
<1>4. reached \subseteq Reachable(defs)
  BY <1>1 DEF SearchInv, FoundNeeded, Reachable
<1>5. QED
  BY <1>3, <1>4

\* compute_reachable_functions finds exactly the functions that a root leads to, in whatever order
\* the hash maps put them on the worklist.
THEOREM FindsExactlyReachable == ReachSpec => []ExactlyReachable
  BY SearchInvariant, SearchIsExact, PTL

\* It looks at the callees of each function once, so that calls in a circle do not keep it busy.
THEOREM LooksOnce == ReachSpec => NeverAgain
<1>1. ASSUME SearchInv, [ReachNext]_reachVars
      PROVE  [\A x \in reached \ worklist : x \notin worklist']_reachVars
  BY <1>1 DEF ReachNext, Visit, NamedBy, SearchInv, FoundDefined, reachVars
<1>2. QED
  BY <1>1, SearchInvariant, PTL DEF ReachSpec, NeverAgain
=============================================================================
