SPECIFICATION Spec
CONSTANTS
  node_capacity = 12
  Nodes = {n1, n2}
  Short = Short
  Exact = Exact
  Longer = Longer
  Binary = Binary
  Blobs <- AllBlobs
  LenOf <- Lengths
  Utf8 <- Strings
  PageSizes <- SmallPages
  Long = Long
  None = None
  Garbage = Garbage
INVARIANTS
  TypeOK
  ReadBack
  KindsApart
PROPERTY
  OnlyLastSlotOut
