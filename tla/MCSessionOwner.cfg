\* Three workers, two buffers, no failing call.
SPECIFICATION Spec
CONSTANTS
  Worker = {w1, w2, w3}
  Acceptor = w1
  Msg = {m0, m1}
  Hello = m0
  None = None
  SendErrors = {}
  DisconnectFails = FALSE
SYMMETRY Symmetry
INVARIANT
  NoSelfReference
CHECK_DEADLOCK FALSE
