SPECIFICATION Spec
CONSTANTS
  Signatures <- HandledSignatures
  Belows <- MCBelows
INVARIANTS
  ArgumentsInOrder
  StackBalanced
  PointersRight
