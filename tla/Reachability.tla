---------------------------- MODULE Reachability ----------------------------
(***************************************************************************)
(* compute_reachable_functions of backend/llvm.rs: which functions of a    *)
(* file are compiled.  A definition has callees, the names in its body,    *)
(* and may be a root, which others can call.  The worklist is a vector     *)
(* that hash maps fill, so that any name on it may be the next.            *)
(***************************************************************************)

VARIABLES
  defs,     \* the definitions, by name
  reached,  \* the functions that were found
  worklist  \* those of them whose callees were not looked at

reachVars == <<defs, reached, worklist>>

RootsOf(d) == {x \in DOMAIN d : d[x].root}

\* The definitions are collected, and their roots put on the worklist.
Begin(d) == defs' = d /\ reached' = RootsOf(d) /\ worklist' = RootsOf(d)

\* Mutant: a name that was found before is put on the worklist again.
NamedBy_again(name) == defs[name].callees \cap DOMAIN defs

\* Mutant: what is named by a function that is no root is not found.
NamedBy_roots(name) == IF defs[name].root THEN (defs[name].callees \cap DOMAIN defs) \ reached ELSE {}

NamedBy(name) == (defs[name].callees \cap DOMAIN defs) \ reached

Visit(name) ==
  /\ name \in worklist
  /\ worklist' = (worklist \ {name}) \cup NamedBy(name)
  /\ reached' = reached \cup NamedBy(name)
  /\ UNCHANGED defs

ReachInit == reached = RootsOf(defs) /\ worklist = RootsOf(defs)
ReachNext == \E name \in worklist : Visit(name)
ReachSpec == ReachInit /\ [][ReachNext]_reachVars

-----------------------------------------------------------------------------
(* The reference: the least set that holds the roots and what they name.   *)

HoldsItsCallees(d, set) == \A x \in set : d[x].callees \cap DOMAIN d \subseteq set
Reachable(d) ==
  {x \in DOMAIN d : \A set \in SUBSET DOMAIN d : (RootsOf(d) \subseteq set /\ HoldsItsCallees(d, set)) => x \in set}

\* When the worklist is empty, exactly the functions were found that a root leads to: one more is
\* code that nothing calls, one less is a function that returns 0 instead of running.
ExactlyReachable == worklist = {} => reached = Reachable(defs)

\* A function whose callees were looked at is not put on the worklist again, however the functions
\* call each other, so that the search ends.
NeverAgain == [][\A x \in reached \ worklist : x \notin worklist']_reachVars
=============================================================================
