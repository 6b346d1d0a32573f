SPECIFICATION MCSpec
CONSTANTS
  Main = Main
  A = A
  B = B
  M = M
  Given = Given
  NameMain = NameMain
  NameA = NameA
  NameB = NameB
  NameX = NameX
  None = None
  Root = Main
  RootName = Given
  Names = {M}
  Files <- ThreeFiles
  Paths <- ThreePaths
  Found <- FoundFiles
  Texts <- AllTexts
  Settings <- AllSettings
INVARIANTS
  TypeOK
  ActiveGroups
  OutputAsExpected
  ErrorsExactly
  OncePerText
  NeverReentered
CHECK_DEADLOCK FALSE
