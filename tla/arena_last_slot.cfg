SPECIFICATION Spec
CONSTANTS
  node_capacity = 2048
  Nodes = {n1}
  Short = Short
  Exact = Exact
  Longer = Longer
  Binary = Binary
  Long = Long
  Blobs <- BuildBlobs
  LenOf <- BuildLengths
  Utf8 <- BuildBlobs
  PageSizes = {4096}
  None = None
  Garbage = Garbage
INVARIANT
  PoolsInFile
