CONSTANTS
  Client = {c1, c2}
  NoClient = NoClient
  MaxSize = 3
  BUFSIZE = 2
SPECIFICATION Spec
INVARIANT ServerRuns
\* Once main_thread is deleted and every client has connected, nothing moves.
CHECK_DEADLOCK FALSE
