SPECIFICATION TxFairSpec
CONSTANTS
  Frames = {f1, f2}
  MaxParts = 2
  NTxDesc = 3
  Few = 1
  None = None
INVARIANTS TxTypeOK FreeSlotsEmpty RefCounts FrameWhole UnsentNotInDriver
PROPERTIES TxInOrder Released
