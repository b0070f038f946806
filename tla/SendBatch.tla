------------------------------ MODULE SendBatch ------------------------------
(***************************************************************************)
(* The batched sending of one GameSession.  What the room broadcasts is    *)
(* not sent but reserved: ReserveSend puts it into _send_packets, and one  *)
(* of three flushers moves the batch to the session: the caller that finds *)
(* the batch full, a flush reserved with PacketManager for SEND_TICK later *)
(* (at most one reservation while _can_flush is down), and FlushSendLoop,  *)
(* which visits every session each millisecond.  The lock covers the swap  *)
(* of the batch, not the sending of it, and other handlers call            *)
(* Session::Send directly, next to the batch.                              *)
(*                                                                         *)
(* An action is one locked section or one access to an atomic.  What       *)
(* becomes of a packet in _send_queue is the matter of Session.  The swap  *)
(* in OnDisconnectCompleted holds no lock; it is taken to fall between two *)
(* locked sections.                                                        *)
(***************************************************************************)
EXTENDS Naturals, Sequences, FiniteSets, SequencesExt

CONSTANTS
  Caller,    \* threads in ReserveSend: the room's jobs, a handler of C_AnimEnd
  FlushJob,  \* the thread that runs the jobs of PacketManager, one at a time
  Loop,      \* the thread of FlushSendLoop
  MaxPackets,\* bound: how many packets are reserved; a packet is named by its
             \* place in the order of the calls
  MaxDirect, \* bound: how many packets are given to Session::Send at once
  SizeOf,    \* WriteSize() of a packet
  SendByte   \* SEND_BYTE

ASSUME ThreadAssumption ==
  FlushJob \notin Caller /\ Loop \notin Caller /\ FlushJob # Loop
ASSUME BoundsAssumption == MaxPackets \in Nat /\ MaxDirect \in Nat
ASSUME SizeAssumption == SizeOf \in [1..MaxPackets -> Nat \ {0}]
ASSUME SendByteAssumption == SendByte \in Nat \ {0}

VARIABLES
  sendPackets,   \* _send_packets
  pendingBytes,  \* _pending_bytes
  canFlush,      \* _can_flush
  timers,        \* reserved flushes that did not start yet
  connected,     \* _connected
  closing,       \* where ProcessDisconnect is
  inManager,     \* whether SessionManager holds the session
  pc,            \* where a thread is in ReserveSend or FlushSend
  batch,         \* its local reserved_packet
  sent,          \* history: what was put into _send_queue, in order
  stored,        \* history: how many packets were put into _send_packets
  overlap        \* history: a batch was taken while another was on its way

flags == <<canFlush, timers>>
closeVars == <<connected, closing, inManager>>
history == <<sent, stored, overlap>>
vars == <<sendPackets, pendingBytes, canFlush, timers, connected, closing,
          inManager, pc, batch, sent, stored, overlap>>

Packet == 1..MaxPackets
Direct == 0    \* stands for every packet that is sent directly
Thread == Caller \cup {FlushJob, Loop}
Label == {"idle", "swap", "check", "push", "allow", "reserve"}

TypeOK ==
  /\ sendPackets \in Seq(Packet)
  /\ pendingBytes \in Nat
  /\ canFlush \in BOOLEAN /\ timers \in Nat
  /\ connected \in BOOLEAN /\ inManager \in BOOLEAN
  /\ closing \in {"no", "forbid", "remove", "done"}
  /\ pc \in [Thread -> Label]
  /\ batch \in [Thread -> Seq(Packet)]
  /\ sent \in Seq(Packet \cup {Direct}) /\ stored \in 0..MaxPackets
  /\ overlap \in BOOLEAN

\* The session is established and registered.
Init ==
  /\ sendPackets = <<>> /\ pendingBytes = 0
  /\ canFlush = TRUE /\ timers = 0
  /\ connected = TRUE /\ closing = "no" /\ inManager = TRUE
  /\ pc = [t \in Thread |-> "idle"]
  /\ batch = [t \in Thread |-> <<>>]
  /\ sent = <<>> /\ stored = 0 /\ overlap = FALSE

Reserved(s) == SelectSeq(s, LAMBDA p : p # Direct)

Goto(t, l) == pc' = [pc EXCEPT ![t] = l]

\* FlushSend returns to ReserveSend in a caller, and is over elsewhere.
Return(t) == Goto(t, IF t \in Caller THEN "reserve" ELSE "idle")

-----------------------------------------------------------------------------
(* ReserveSend                                                             *)

\* Mutant: the batch is full only when there is more than SEND_BYTE.
StorePacketLate(c) ==
  /\ pc[c] = "idle"
  /\ stored < MaxPackets
  /\ stored' = stored + 1
  /\ sendPackets' = Append(sendPackets, stored')
  /\ pendingBytes' = pendingBytes + SizeOf[stored']
  /\ Goto(c, IF pendingBytes' > SendByte THEN "swap" ELSE "reserve")
  /\ UNCHANGED <<flags, closeVars, batch, sent, overlap>>

\* The packet and its bytes are added under the lock; a full batch is flushed.
StorePacket(c) ==
  /\ pc[c] = "idle"
  /\ stored < MaxPackets
  /\ stored' = stored + 1
  /\ sendPackets' = Append(sendPackets, stored')
  /\ pendingBytes' = pendingBytes + SizeOf[stored']
  /\ Goto(c, IF pendingBytes' >= SendByte THEN "swap" ELSE "reserve")
  /\ UNCHANGED <<flags, closeVars, batch, sent, overlap>>

\* _can_flush.compare_exchange_strong(true, false): who takes the flag down
\* reserves a flush with PacketManager.
ReserveFlush(c) ==
  /\ pc[c] = "reserve"
  /\ IF canFlush
       THEN canFlush' = FALSE /\ timers' = timers + 1
       ELSE UNCHANGED flags
  /\ Goto(c, "idle")
  /\ UNCHANGED <<sendPackets, pendingBytes, closeVars, batch, history>>

-----------------------------------------------------------------------------
(* FlushSend                                                               *)

\* The reserved flush is due and PacketManager executes it.
StartReservedFlush ==
  /\ pc[FlushJob] = "idle"
  /\ timers > 0
  /\ timers' = timers - 1
  /\ Goto(FlushJob, "swap")
  /\ UNCHANGED <<sendPackets, pendingBytes, canFlush, closeVars, batch, history>>

\* SessionManager::FlushSend finds the session in its snapshot.
StartLoopFlush ==
  /\ pc[Loop] = "idle"
  /\ inManager
  /\ Goto(Loop, "swap")
  /\ UNCHANGED <<sendPackets, pendingBytes, flags, closeVars, batch, history>>

\* Mutant: the batch is copied and stays in _send_packets.
CopyBatch(t) ==
  /\ pc[t] = "swap"
  /\ sendPackets # <<>>
  /\ batch' = [batch EXCEPT ![t] = sendPackets]
  /\ pendingBytes' = 0
  /\ Goto(t, "check")
  /\ overlap' = (overlap \/ \E u \in Thread : batch[u] # <<>>)
  /\ UNCHANGED <<sendPackets, flags, closeVars, sent, stored>>

\* The batch is swapped out under the lock.
SwapBatch(t) ==
  /\ pc[t] = "swap"
  /\ sendPackets # <<>>
  /\ batch' = [batch EXCEPT ![t] = sendPackets]
  /\ sendPackets' = <<>>
  /\ pendingBytes' = 0
  /\ Goto(t, "check")
  /\ overlap' = (overlap \/ \E u \in Thread : batch[u] # <<>>)
  /\ UNCHANGED <<flags, closeVars, sent, stored>>

\* Mutant: the early return does not put the flag up.
FlushNothingQuietly(t) ==
  /\ pc[t] = "swap"
  /\ sendPackets = <<>>
  /\ Return(t)
  /\ UNCHANGED <<sendPackets, pendingBytes, flags, closeVars, batch, history>>

\* There is nothing to flush: the flag goes up under the lock.
FlushNothing(t) ==
  /\ pc[t] = "swap"
  /\ sendPackets = <<>>
  /\ canFlush' = TRUE
  /\ Return(t)
  /\ UNCHANGED <<sendPackets, pendingBytes, timers, closeVars, batch, history>>

\* Session::Send(xqueue&): a session that is not connected drops the batch.
CheckConnected(t) ==
  /\ pc[t] = "check"
  /\ IF connected
       THEN Goto(t, "push") /\ UNCHANGED batch
       ELSE Goto(t, "allow") /\ batch' = [batch EXCEPT ![t] = <<>>]
  /\ UNCHANGED <<sendPackets, pendingBytes, flags, closeVars, history>>

\* Mutant: only the front of the batch is moved.
PushFront(t) ==
  /\ pc[t] = "push"
  /\ sent' = Append(sent, Head(batch[t]))
  /\ batch' = [batch EXCEPT ![t] = <<>>]
  /\ Goto(t, "allow")
  /\ UNCHANGED <<sendPackets, pendingBytes, flags, closeVars, stored, overlap>>

\* The whole batch goes to _send_queue under the lock of Session.
PushBatch(t) ==
  /\ pc[t] = "push"
  /\ sent' = sent \o batch[t]
  /\ batch' = [batch EXCEPT ![t] = <<>>]
  /\ Goto(t, "allow")
  /\ UNCHANGED <<sendPackets, pendingBytes, flags, closeVars, stored, overlap>>

\* _can_flush.store(true), after the sending and without the lock.
AllowFlush(t) ==
  /\ pc[t] = "allow"
  /\ canFlush' = TRUE
  /\ Return(t)
  /\ UNCHANGED <<sendPackets, pendingBytes, timers, closeVars, batch, history>>

-----------------------------------------------------------------------------
(* The direct Session::Send, and the end of the connection                 *)

\* A packet that no batch holds back: it may overtake what was reserved.
SendDirectly ==
  /\ connected
  /\ Len(sent) - Len(Reserved(sent)) < MaxDirect
  /\ sent' = Append(sent, Direct)
  /\ UNCHANGED <<sendPackets, pendingBytes, flags, closeVars, pc, batch, stored, overlap>>

\* Disconnect, from any thread.
Disconnect ==
  /\ connected
  /\ connected' = FALSE
  /\ UNCHANGED <<sendPackets, pendingBytes, flags, closing, inManager, pc, batch, history>>

\* OnDisconnectCompleted swaps the packets away; _pending_bytes stays.
DiscardPackets ==
  /\ ~ connected
  /\ closing = "no"
  /\ sendPackets' = <<>>
  /\ closing' = "forbid"
  /\ UNCHANGED <<pendingBytes, flags, connected, inManager, pc, batch, history>>

\* _can_flush.store(false): a flush on its way puts it up again.
ForbidFlush ==
  /\ closing = "forbid"
  /\ canFlush' = FALSE
  /\ closing' = "remove"
  /\ UNCHANGED <<sendPackets, pendingBytes, timers, connected, inManager, pc, batch, history>>

\* RemoveFromSessionManager.
RemoveFromManager ==
  /\ closing = "remove"
  /\ inManager' = FALSE
  /\ closing' = "done"
  /\ UNCHANGED <<sendPackets, pendingBytes, flags, connected, pc, batch, history>>

-----------------------------------------------------------------------------
FlushSend(t) ==
  \/ SwapBatch(t)
  \/ FlushNothing(t)
  \/ CheckConnected(t)
  \/ PushBatch(t)
  \/ AllowFlush(t)

Close == Disconnect \/ DiscardPackets \/ ForbidFlush \/ RemoveFromManager

Next ==
  \/ \E c \in Caller :
       \/ StorePacket(c)
       \/ ReserveFlush(c)
  \/ StartReservedFlush
  \/ StartLoopFlush
  \/ \E t \in Thread : FlushSend(t)
  \/ SendDirectly
  \/ Close

Spec == Init /\ [][Next]_vars

(* Threads go on with what they have begun, the loop begins again and again *)
(* (it sleeps 1 ms), the timer fires (EveryTimerFires of JobTimer).  Nobody *)
(* is obliged to reserve, to send or to disconnect.                         *)
Fairness ==
  /\ \A c \in Caller : WF_vars(ReserveFlush(c))
  /\ \A t \in Thread : WF_vars(FlushSend(t))
  /\ WF_vars(StartReservedFlush)
  /\ WF_vars(StartLoopFlush)

FairSpec == Spec /\ Fairness

-----------------------------------------------------------------------------
(* Properties                                                              *)

Flushing(t) == pc[t] \in {"swap", "check", "push", "allow"}

Has(s, p) == \E i \in DOMAIN s : s[i] = p
Once(s) == \A i, k \in DOMAIN s : i # k => s[i] = Direct \/ s[i] # s[k]
Apart(s, u) == \A i \in DOMAIN s, k \in DOMAIN u : s[i] = Direct \/ s[i] # u[k]
Before(s, u) == \A i \in DOMAIN s, k \in DOMAIN u : s[i] < u[k]
Ascending(s) == \A i, k \in DOMAIN s : i < k => s[k] = Direct \/ s[i] < s[k]

\* No packet is in two places.
NoPacketDoubled ==
  /\ Once(sent)
  /\ \A t \in Thread : Apart(sent, batch[t])
  /\ \A t, u \in Thread : t # u => Apart(batch[t], batch[u])

NoPacketLost ==
  \A p \in 1..stored :
    Has(sent, p) \/ Has(sendPackets, p) \/ \E t \in Thread : Has(batch[t], p)

\* A batch, and what waits behind it and behind the session, is as it was reserved.
WaitsInOrder ==
  /\ Ascending(sendPackets) /\ Before(sent, sendPackets)
  /\ \A t \in Thread : Ascending(batch[t]) /\ Before(batch[t], sendPackets)

\* Until the session closes no packet is lost or doubled between the batch, the
\* flushers' locals and the session, and the packets leave in the order in which
\* they were reserved, unless one flusher took a batch while another's was on
\* its way: then, and only then, batches may overtake (GameSession.cpp:85-104).
KeptInOrder ==
  connected =>
    /\ NoPacketDoubled /\ NoPacketLost
    /\ WaitsInOrder
    /\ ~ overlap => Ascending(sent) /\ \A t \in Thread : Before(sent, batch[t])

\* The bytes of the packets of s.
Bytes(s) ==
  LET upTo[i \in 0..Len(s)] == IF i = 0 THEN 0 ELSE upTo[i - 1] + SizeOf[s[i]]
  IN  upTo[Len(s)]

\* _pending_bytes is what waits in the batch, so that a batch of SEND_BYTE or
\* more always has a thread about to flush it, whoever flushed before it
\* (GameSession.cpp:63-71, 95-99).
FullBatchLeaves ==
  closing = "no" =>
    /\ pendingBytes = Bytes(sendPackets)
    /\ pendingBytes >= SendByte => \E t \in Thread : pc[t] = "swap"

\* The flag is never down with nobody to put it up again: a flush is reserved,
\* or one is on its way, or the session is closing (GameSession.cpp:73-75, 92, 103).
FlagNotStuck ==
  ~ canFlush =>
    \/ timers > 0
    \/ \E t \in Thread : Flushing(t)
    \/ closing \in {"remove", "done"}

\* Every reserved packet is given to the session in the end, also the one that
\* found the flag down while the flush that took it down had swapped already:
\* the loop finds it (GameSession.cpp:75, GameServer.cpp:70-78).
EveryPacketFlushed ==
  \A p \in Packet : p <= stored ~> p \in ToSet(sent) \/ ~ connected
=============================================================================
