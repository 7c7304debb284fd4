SPECIFICATION FairSpec
CONSTANTS
  main = main  helper = helper  baseUpdate = baseUpdate  derivedUpdate = derivedUpdate
  update = update  print = print  length = length  release = release
  None = None
  Function <- MCFunction
  VirtualFunction <- MCVirtualFunction
  SystemFunction <- MCSystemFunction
  Behaviour <- MCBehaviour
  Method <- MCMethod
  Body <- MCBody
  Overrides <- MCOverrides
  NativeOf <- MCNativeOf
  NullThis = TRUE
  MaxExecutions = 3
  Raising = {print, length, release}
INVARIANTS
  TypeOK
PROPERTIES
  ImplementsMachine
  UnwindingEnds
