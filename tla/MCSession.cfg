\* Three workers, two buffers; calls fail at once with either kind of error, and
\* DisconnectEx may fail.
SPECIFICATION FairSpec
CONSTANTS
  Worker = {w1, w2, w3}
  Acceptor = w1
  Msg = {m0, m1}
  Hello = m0
  None = None
  SendErrors = {"reset", "other"}
  DisconnectFails = TRUE
INVARIANTS
  OneSendToken
  OwnedWhilePending
  InOrderOnce
  UnregistersOnce
PROPERTIES
  EveryBufferEnds
  ClosedIsForgotten
CHECK_DEADLOCK FALSE
