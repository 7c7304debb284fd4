SPECIFICATION MCSpec
CONSTANTS
  Functions <- MCFunctions
  Entered <- MCEnteredAny
  Built <- MCBuilt
  Start <- MCStart
  Depths = {0, 3}
  Below = 10
  Above = 15
  Names = {foo, bar}
  None = None
  MaxClasses = 3
  MaxCalls = 2
INVARIANTS
  ArgumentsArrive
\* The call has returned, or MaxClasses classes were declared.
CHECK_DEADLOCK FALSE
