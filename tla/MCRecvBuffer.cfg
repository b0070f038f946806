\* Packets of 2 to 4 units behind headers of 2, room for 2 times 4 units.
SPECIFICATION RecvSpec
CONSTANTS
  BufferSize = 4
  BufferCount = 2
  HeaderSize = 2
  Sizes = {2, 3, 4}
  PacketCount = 5
INVARIANTS
  HandledInOrder
  RoomForNext
PROPERTY
  DelayBounded
CHECK_DEADLOCK FALSE
