SPECIFICATION Spec
CONSTANTS
  Builds <- CopyBuilds
  Config <- CopyConfig
  Turn <- CopyTurn
  Sources <- CopySources
  Headers <- CopyHeaders
  HeaderOf <- CopyHeaderOf
  Stem <- CopyStem
  Initial <- CopyInitial
  Edits <- CopyEdits
  MaxEdits = 0
  MaxCrashes = 0
  MaxClears = 0
  Contents <- Texts
  Broken = {TextBroken}
  Panicking = {TextPanic}
  Rejected = {TextRejected}
  Installed = {"llc", "clang", "ar"}
  TextA = TextA
  TextB = TextB
  TextC = TextC
  TextN = TextN
  TextBroken = TextBroken
  TextRejected = TextRejected
  TextPanic = TextPanic
  HdrOld = HdrOld
  HdrNew = HdrNew
  Absent = Absent
  Damaged = Damaged
INVARIANT
  ObjectOfEachSource
