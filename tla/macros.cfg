SPECIFICATION FairSpec
CONSTANTS
  None = None
  Names <- AllNames
  Programs <- EndingFiles
INVARIANTS
  TypeOK
  NotReentered
  TameAsC
CHECK_DEADLOCK FALSE
PROPERTY ExpansionEnds
