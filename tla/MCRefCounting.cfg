SPECIFICATION Spec
CONSTANTS
  Foo = Foo
  Bar = Bar
  Vec = Vec
  Host = Host
  Null = Null
  Objects <- MCObjects
  Kind <- MCKind
  Variables = {"a", "b"}
  Globals = {"g"}
  FreesNull = FALSE
  CopiesNull = FALSE
  MaxCount = 3
INVARIANTS
  ReferencesRight
  NoneDangles
