SPECIFICATION MCSpec
CONSTANTS
  Names <- AllNames
  Includes <- AllIncludes
  Paths <- AllPaths
  Says <- AllTexts
  Words = {"W"}
  FromMemory <- Sections
  AbsolutePath <- Clean
  MaxModules = 2
  MaxBuilds = 2
  NoName = NoName
  CurrentDirs <- Current
  Relative <- Written
  Absolute <- FromRoot
INVARIANTS
  SectionsRight
  BuildRight
  TextRight
  OneNamePerFile
PROPERTIES
  EverythingEnds
\* The host has made its modules, a text is complete, a path is clean.
CHECK_DEADLOCK FALSE
