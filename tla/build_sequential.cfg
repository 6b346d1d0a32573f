SPECIFICATION FairSpec
CONSTANTS
  Builds <- SeqBuilds
  Config <- SeqConfig
  Turn <- SeqTurn
  Sources <- SeqSources
  Headers <- SeqHeaders
  HeaderOf <- SeqHeaderOf
  Stem <- SeqStem
  Initial <- SeqInitial
  Edits <- SeqEdits
  MaxEdits = 0
  MaxCrashes = 0
  MaxClears = 0
  Contents <- Texts
  Broken = {TextBroken}
  Panicking = {TextPanic}
  Rejected = {TextRejected}
  Installed = {"llc", "clang", "ar"}
  TextA = TextA
  TextB = TextB
  TextC = TextC
  TextN = TextN
  TextBroken = TextBroken
  TextRejected = TextRejected
  TextPanic = TextPanic
  HdrOld = HdrOld
  HdrNew = HdrNew
  Absent = Absent
  Damaged = Damaged
INVARIANTS
  NothingLeft
  OwnObjects
  OutcomeByInputs
PROPERTIES
  KeepsPromise
  BuildsEnd
