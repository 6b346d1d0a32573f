SPECIFICATION IfSpec
CONSTANTS
  Numbers <- MCNumbers
  IntBits = 8
  Supported <- MCSupported
  Ints <- Values
  Computed <- Calculated
  ComputedUnary <- CalculatedUnary
  Refused <- Stops
  Inputs <- MCInputs
  Lines <- IfLines
INVARIANTS TypeOK EvaluatesAsC RefusesOrAgrees ReadsAsDerived NoOtherValue

CHECK_DEADLOCK FALSE
