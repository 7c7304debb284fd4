SPECIFICATION StorageSpec
SYMMETRY ArraysAlike
CONSTANTS
  Arrays = {a, b}
  None = None
  Word <- MCWord
  Values <- MCValues
  Scripts <- MCScripts
INVARIANTS
  ReferencesRight
  StorageRight
PROPERTIES
  CallsAsPromised
  ImplementsList
\* A program that goes through a null pointer has ended.
CHECK_DEADLOCK FALSE
