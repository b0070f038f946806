\* Two callers reserve three packets of one unit, two of which fill a batch; one
\* packet is sent directly, and the connection may end at any point.
SPECIFICATION FairSpec
CONSTANTS
  Caller = {c1, c2}
  FlushJob = flushJob
  Loop = loop
  MaxPackets = 3
  MaxDirect = 1
  SizeOf <- MCSizeOf
  SendByte = 2
INVARIANTS
  KeptInOrder
  FullBatchLeaves
  FlagNotStuck
PROPERTY
  EveryPacketFlushed
CHECK_DEADLOCK FALSE
