\* Every command kind with each flag empty, malformed, or at its edges; interfaces of up to 3 characters.
CONSTANTS
  DurValues <- MCDurValues
  IfChars <- MCIfChars
  Ints <- MCInts
  IfMaxLen = 3
  TestRun = FALSE
SPECIFICATION ValidationSpec
INVARIANT ValidatedIsValid
CHECK_DEADLOCK FALSE
