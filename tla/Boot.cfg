CONSTANTS
  Lease = {l1}
  Polls = 2
SPECIFICATION Spec
INVARIANTS CompleteOnSuccess SettingsAgree
PROPERTY BootEnds
\* main_thread waits for ever when the interface cannot be added.
CHECK_DEADLOCK FALSE
