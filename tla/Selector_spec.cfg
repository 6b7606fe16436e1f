\* Every argument list of up to two container names or one string of up to 6 characters: the targets are those spec 6 selects.
CONSTANTS
  Alphabet <- MCAlphabet
  CtrNames <- MCCtrNames
  MaxLen = 6
SPECIFICATION SelectorSpec
INVARIANT TargetsAsSpecified
CHECK_DEADLOCK FALSE
