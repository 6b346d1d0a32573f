SPECIFICATION Spec
CONSTANTS
  Literals <- MCLiterals
  Builtins = {"__builtin_offsetof"}
  OwnLexer = FALSE
  NodeCapacity = 48
  U32Max = 1023
  ItemCap = 10000
  Programs <- LeftPrograms
  Inputs <- NoInputs
INVARIANTS ReadsBack
CHECK_DEADLOCK FALSE
