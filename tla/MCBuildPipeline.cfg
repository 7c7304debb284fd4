SPECIFICATION FairSpec
CONSTANTS
  A = A  B = B  C = C
  aMain = aMain  aHelper = aHelper  update = update  bMain = bMain  stub = stub  cMain = cMain
  print = print  lengthOfInts = lengthOfInts  lengthOfFloats = lengthOfFloats
  Shared = Shared
  None = None
  Runtime = Runtime
  Verbose = TRUE
  Function <- MCFunction
  SystemFunction <- MCSystemFunction
  ScriptModule <- MCScriptModule
  Contents <- MCContents
  ModuleOf <- MCModuleOf
  EngineOf <- MCEngineOf
  DeclOf <- MCDeclOf
  Calls <- MCCalls
  VirtualCalls <- MCVirtualCalls
  SystemCalls <- MCSystemCalls
  SystemDeclOf <- MCSystemDeclOf
  NativeOf <- MCNativeOf
INVARIANTS
  LinkerNeverFails
  NamesLead
  ReadyIsClosed
PROPERTIES
  ImplementsService
  RequestsAreServed
\* A process that has ended takes no step.
CHECK_DEADLOCK FALSE
