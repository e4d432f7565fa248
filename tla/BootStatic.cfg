CONSTANTS
  Lease = {l1}
  Polls = 2
SPECIFICATION Spec
INVARIANT StaticStays
\* main_thread waits for ever when the interface cannot be added.
CHECK_DEADLOCK FALSE
