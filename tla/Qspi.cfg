CONSTANTS
  Mode = {"single", "parallel"}
  SIXTEENMB = 2
  DieBanks = 2
  NumDie = 2
SPECIFICATION Spec
INVARIANT ReadRight
PROPERTY ReadsAsOne
