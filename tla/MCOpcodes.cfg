SPECIFICATION Spec
CONSTANTS
  Bits = 2
  Slots <- MCSlots
  Offset <- MCOffset
  Bytes <- MCBytes
  VariableSpace = 3
  StackNeeded = 6
  HeapBytes = 16
  Functions <- MCFunctions
  Ops <- MCOps
  Contents <- MCContents
  MaxSteps <- MCMaxSteps
  Samples <- MCSamples
  RefSlots <- MCLocals
  This <- MCThis
INVARIANTS
  Faithful
  AccessesRight
\* A behaviour is of MaxSteps steps.
CHECK_DEADLOCK FALSE
