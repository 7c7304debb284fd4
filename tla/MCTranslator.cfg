SPECIFICATION TranslatorSpec
CONSTANTS
  Programs <- MCPrograms
  MaxInstructions = 4
INVARIANTS
  BlocksRight
PROPERTIES
  ImplementsBytecode
\* A function that is translated has been run, or is rejected.
CHECK_DEADLOCK FALSE
