------------------------------- MODULE Scopes -------------------------------
(***************************************************************************)
(* The scopes of names in backend/llvm.rs.  What a name means is in one    *)
(* map of variables; an open scope keeps what it has hidden, by name: the  *)
(* set of what the name meant before, which is empty if it meant nothing.  *)
(***************************************************************************)
EXTENDS Sequences, SequencesExt

Empty0       == [x \in {} |-> 0]
Put(f, x, y) == [z \in DOMAIN f \cup {x} |-> IF z = x THEN y ELSE f[z]]
At0(f, x)    == IF x \in DOMAIN f THEN {f[x]} ELSE {}
The(S)       == CHOOSE x \in S : TRUE

\* Only the first of several declarations in a scope hides what was there before.
Hiding(scope, variables, name) ==
  IF name \in DOMAIN scope THEN scope ELSE Put(scope, name, At0(variables, name))
HidInLast(stack, variables, name) ==
  IF stack = <<>> THEN stack ELSE [stack EXCEPT ![Len(stack)] = Hiding(@, variables, name)]

\* The variables when a scope ends that has hidden what saved says.
Restored(variables, saved) ==
  LET hidden == {x \in DOMAIN saved : saved[x] # {}}
  IN [x \in (DOMAIN variables \ DOMAIN saved) \cup hidden |->
        IF x \in hidden THEN The(saved[x]) ELSE variables[x]]
=============================================================================
