----------------------------- MODULE RecvBuffer -----------------------------
(***************************************************************************)
(* The receive side of a PacketSession: bytes of the peer's stream arrive  *)
(* in pieces of any size, are written behind _write_at, cut into packets   *)
(* from _read_at, and moved to the front when less than one _buffer_size   *)
(* is free.  Only one WSARecv is pending at a time (module Session), so    *)
(* one completion is one step.                                             *)
(*                                                                         *)
(* A byte is its position in the stream; a packet is its size, header      *)
(* included.  memcpy in Clear may overlap; the x64 runtime copies as       *)
(* memmove does then, and so does the model.                               *)
(***************************************************************************)
EXTENDS Naturals, Sequences, SequencesExt

CONSTANTS
  BufferSize,    \* _buffer_size: what one receive should have room for
  BufferCount,   \* BUFFER_COUNT
  HeaderSize,    \* sizeof PacketHeader
  Sizes,         \* the sizes of packets
  PacketCount    \* bound: the packets of the stream

ASSUME SizesAssumption ==
  /\ HeaderSize \in Nat \ {0} /\ BufferSize \in Nat \ {0}
  /\ \A s \in Sizes : s \in Nat /\ s >= HeaderSize /\ s <= BufferSize
ASSUME CountAssumption == PacketCount \in Nat /\ BufferCount \in Nat \ {0}

VARIABLES
  sizes,      \* the stream: the size of each packet
  received,   \* how many bytes of it were received
  buffer,     \* _buffer: the stream position of each byte, 0 when never written
  readAt,     \* _read_at
  writeAt,    \* _write_at
  handled,    \* the packets given to OnRecvPacketProcessed; 0 is no packet
  cause       \* the cause of the Disconnect, or "none"

recvVars == <<sizes, received, buffer, readAt, writeAt, handled, cause>>

Capacity == BufferSize * BufferCount
Packet == 1..PacketCount

\* The position of the first byte of packet k; of the end of the stream last.
StartOf[k \in 1..PacketCount + 1] ==
  IF k = 1 THEN 1 ELSE StartOf[k - 1] + sizes[k - 1]
StreamSize == StartOf[PacketCount + 1] - 1

RecvTypeOK ==
  /\ sizes \in [Packet -> Sizes]
  /\ received \in 0..StreamSize
  /\ buffer \in [0..Capacity - 1 -> 0..StreamSize]
  /\ readAt \in 0..Capacity
  /\ writeAt \in readAt..Capacity
  /\ handled \in Seq(0..PacketCount)
  /\ cause \in {"none", "zero", "onRecv"}

RecvInit ==
  /\ sizes \in [Packet -> Sizes]
  /\ received = 0
  /\ buffer = [i \in 0..Capacity - 1 |-> 0]
  /\ readAt = 0 /\ writeAt = 0
  /\ handled = <<>>
  /\ cause = "none"

DataSizeToRead == writeAt - readAt
FreeSize == Capacity - writeAt

-----------------------------------------------------------------------------
\* The kernel writes n bytes at WriteAt().
Filled(n) ==
  [i \in DOMAIN buffer |->
     IF i \in writeAt..writeAt + n - 1 THEN received + 1 + (i - writeAt)
                                       ELSE buffer[i]]

\* The packet whose header lies at index i of b, or 0: no header starts there.
PacketAt(b, i) ==
  IF \E k \in Packet : \A d \in 0..HeaderSize - 1 : b[i + d] = StartOf[k] + d
    THEN CHOOSE k \in Packet : b[i] = StartOf[k] ELSE 0
SizeAt(b, i) == IF PacketAt(b, i) = 0 THEN HeaderSize ELSE sizes[PacketAt(b, i)]

\* Mutant: a packet that ends with the data waits for more.
OnRecvStrictly(b, at, length) ==
  LET from[p \in 0..length] ==
        IF length - p < HeaderSize \/ length - p <= SizeAt(b, at + p)
          THEN [packets |-> <<>>, length |-> p]
          ELSE LET rest == from[p + SizeAt(b, at + p)]
               IN  [packets |-> <<PacketAt(b, at + p)>> \o rest.packets,
                    length |-> rest.length]
  IN  from[0]

\* OnRecvCompleted(&b[at], length): the packets it handles, and its result, the
\* process_length at which the loop ends.
OnRecvCompleted(b, at, length) ==
  LET from[p \in 0..length] ==
        IF length - p < HeaderSize \/ length - p < SizeAt(b, at + p)
          THEN [packets |-> <<>>, length |-> p]
          ELSE LET rest == from[p + SizeAt(b, at + p)]
               IN  [packets |-> <<PacketAt(b, at + p)>> \o rest.packets,
                    length |-> rest.length]
  IN  from[0]

\* Mutant: an empty buffer is left as it is.
ClearRestOnly(b, r, w) ==
  IF r # w /\ Capacity - w < BufferSize
    THEN <<[i \in DOMAIN b |-> IF i < w - r THEN b[r + i] ELSE b[i]], 0, w - r>>
    ELSE <<b, r, w>>

\* Mutant: the rest is moved without its last byte.
ClearShort(b, r, w) ==
  CASE r = w -> <<b, 0, 0>>
    [] r # w /\ Capacity - w < BufferSize ->
         <<[i \in DOMAIN b |-> IF i < w - r - 1 THEN b[r + i] ELSE b[i]], 0, w - r>>
    [] OTHER -> <<b, r, w>>

\* Clear: nothing left to read goes back to the front, and so does the rest
\* when less than _buffer_size is free behind it.
Clear(b, r, w) ==
  CASE r = w -> <<b, 0, 0>>
    [] r # w /\ Capacity - w < BufferSize ->
         <<[i \in DOMAIN b |-> IF i < w - r THEN b[r + i] ELSE b[i]], 0, w - r>>
    [] OTHER -> <<b, r, w>>

\* The pieces a receive may bring: it was given the free size.
Pieces == {n \in 1..StreamSize - received : n <= FreeSize}

\* ProcessRecv(n): OnWrite, OnRecvCompleted over n bytes from _read_at, OnRead
\* and Clear.
ProcessRecv(n) ==
  /\ cause = "none"
  /\ n \in Pieces
  /\ LET parsed == OnRecvCompleted(Filled(n), readAt, n)
         length == parsed.length
         valid == length <= n /\ length <= DataSizeToRead + n
         cleared == IF valid THEN Clear(Filled(n), readAt + length, writeAt + n)
                             ELSE <<Filled(n), readAt, writeAt + n>>
     IN  /\ handled' = handled \o parsed.packets
         /\ buffer' = cleared[1]
         /\ readAt' = cleared[2]
         /\ writeAt' = cleared[3]
         /\ cause' = IF valid THEN "none" ELSE "onRecv"
  /\ received' = received + n
  /\ UNCHANGED sizes

\* WSARecv was given no room and completes with no bytes: "Recv zero".
ProcessRecvZero ==
  /\ cause = "none"
  /\ FreeSize = 0
  /\ cause' = "zero"
  /\ UNCHANGED <<sizes, received, buffer, readAt, writeAt, handled>>

RecvNext == (\E n \in 1..Capacity : ProcessRecv(n)) \/ ProcessRecvZero

RecvSpec == RecvInit /\ [][RecvNext]_recvVars

-----------------------------------------------------------------------------
(* Properties                                                              *)

\* However the stream is cut and however often the rest is moved to the front,
\* the handlers get the packets of the peer, each once and in order, and the
\* bytes between _read_at and _write_at are those that come next: a well-formed
\* stream is never the cause of an "OnRecv error" (Session.cpp:202-229).
HandledInOrder ==
  /\ cause # "onRecv"
  /\ handled = [i \in 1..Len(handled) |-> i]
  /\ \A i \in readAt..writeAt - 1 :
       buffer[i] = StartOf[Len(handled) + 1] + (i - readAt)
  /\ StartOf[Len(handled) + 1] + DataSizeToRead = received + 1

\* A receive delays no more than the backlog it finds: what had arrived that many
\* bytes ago is handled now.  A stream that comes in whole packets is handled as
\* it arrives; after a receive that ended inside a packet, packets that are
\* complete wait, since the parser is told recv_bytes and not what is unread
\* (Session.cpp:217, 346-352).
DelayBounded ==
  [][cause' = "none" =>
       \A k \in Packet :
         StartOf[k + 1] - 1 <= received' - DataSizeToRead => k <= Len(handled')]_recvVars

\* There is room for one receive of the largest size (RecvBuffer.h:17-18) unless
\* the backlog itself takes it, wherever in the buffer the backlog lies: only a
\* backlog can lead to "Recv zero".
RoomForNext ==
  DataSizeToRead <= Capacity - BufferSize => FreeSize >= BufferSize
=============================================================================
