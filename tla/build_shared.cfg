SPECIFICATION Spec
CONSTANTS
  Builds <- SharedBuilds
  Config <- SharedConfig
  Turn <- SharedTurn
  Sources <- SharedSources
  Headers <- SharedHeaders
  HeaderOf <- SharedHeaderOf
  Stem <- SharedStem
  Initial <- SharedInitial
  Edits <- SharedEdits
  MaxEdits = 1
  MaxCrashes = 1
  MaxClears = 1
  Contents <- Texts
  Broken = {TextBroken}
  Panicking = {TextPanic}
  Rejected = {TextRejected}
  Installed = {"llc", "clang", "ar"}
  TextA = TextA
  TextB = TextB
  TextC = TextC
  TextN = TextN
  TextBroken = TextBroken
  TextRejected = TextRejected
  TextPanic = TextPanic
  HdrOld = HdrOld
  HdrNew = HdrNew
  Absent = Absent
  Damaged = Damaged
INVARIANTS
  TypeOK
  CacheSound
  DamagedHasWriter
