SPECIFICATION Spec
CONSTANTS
  Builds <- SharedBuilds
  Config <- SharedConfig
  Turn <- IncrementalTurn
  Sources <- SharedSources
  Headers <- SharedHeaders
  HeaderOf <- SharedHeaderOf
  Stem <- SharedStem
  Initial <- SharedInitial
  Edits <- SharedEdits
  MaxEdits = 1
  MaxCrashes = 0
  MaxClears = 0
  Contents <- Texts
  Broken = {TextBroken}
  Panicking = {TextPanic}
  Rejected = {TextRejected}
  Installed = {"llc", "clang", "ar"}
  TextA = TextA
  TextB = TextB
  TextC = TextC
  TextN = TextN
  TextBroken = TextBroken
  TextRejected = TextRejected
  TextPanic = TextPanic
  HdrOld = HdrOld
  HdrNew = HdrNew
  Absent = Absent
  Damaged = Damaged
PROPERTY
  HitsAreCurrent
