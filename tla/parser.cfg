SPECIFICATION Spec
CONSTANTS
  Literals <- MCLiterals
  Builtins = {"__builtin_offsetof"}
  OwnLexer = FALSE
  NodeCapacity = 48
  U32Max = 1023
  ItemCap = 10000
  Programs <- MCPrograms
  Inputs <- MCInputs
INVARIANTS TypeOK ReadsBack NodesFormTrees

CHECK_DEADLOCK FALSE
PROPERTIES Advances
