CONSTANTS
  Log = {l1, l2}
  SizeWord = {0, 2, 3}
  MAX_LOGFILE_SIZE = 2
SPECIFICATION StartSpec
INVARIANTS StartTypeOK FreshLog WriteProtected ChipReady
PROPERTY StartEnds
\* platform_init_fs returns with an error and the power stays on.
CHECK_DEADLOCK FALSE
