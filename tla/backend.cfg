SPECIFICATION FairSpec
CONSTANTS
  Literals <- MCLiterals
  Builtins <- MCBuiltins
  OwnLexer = FALSE
  NodeCapacity = 400
  U32Max = 1023
  ItemCap = 10000
  ByteBits = 3
  Gap = 4160
  Fuel = 200
  PPNames = {"ppa"}
  ZNames = {"z"}
  Texts <- MCTexts
  MAX_CASE_RANGE_EXPANSION = 4
  Numbers <- MCNumbers
  Programs <- MCPrograms
  ArgValues <- MCArgs
  Orders <- MCOrders
INVARIANTS TypeOK NothingOpen Verifies RunsAsC SizesAgree ExactlyReachable
PROPERTIES NeverAgain SearchEnds

CHECK_DEADLOCK FALSE
