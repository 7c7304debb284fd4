SPECIFICATION MCSpec
CONSTANTS
  Threads = {t1, t2}
  Constants = {c1, c2, c3}
  Strings = {s1, s2}
  Factories = {f1, f2}
  None = None
  Dangling = Dangling
  Chars = {"a", ","}
  NUL = NUL
  MaxLength = 5
  Delimiters <- OneOrTwo
  MaxSize = 5
  Bits = 5
  Widths = {0, 4}
  Bases = {2, 10, 16}
INVARIANTS
  CountsRight
  FactoryOutlivesPointers
  SplitRight
  ReadsBack
PROPERTIES
  EverythingEnds
\* Everything is released after the end, a null pointer ends the process, and a
\* number is parsed once.
CHECK_DEADLOCK FALSE
