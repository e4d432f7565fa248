CONSTANTS
  Client = {c1, c2}
  NoClient = NoClient
  MaxSize = 3
  BUFSIZE = 2
  Color = {off, red}
  Off = off
SPECIFICATION PageSpec
INVARIANTS PageTypeOK LengthMatches SocketsClosed PageAgrees
PROPERTIES EveryoneServed FormReturns
\* Once main_thread is deleted and every connection has been made, nothing moves.
CHECK_DEADLOCK FALSE
