------------------------------ MODULE Heartbeat ------------------------------
(***************************************************************************)
(* The heartbeat of one GameSession.  A job of Heartbeat, which is a job   *)
(* queue of its own, compares the clock with the time of the last answer,  *)
(* and either disconnects the session for good or sends S_Ping and         *)
(* reserves itself again.  The client's C_Pong is handled on a network     *)
(* thread, next to the job and without a lock: HeartbeatTick is a plain    *)
(* uint64 (which is read and written whole).                               *)
(*                                                                         *)
(* C++ does not order the two reads of `GetTickCount64() -                 *)
(* owner->HeartbeatTick', so either may come first.  Time is counted in    *)
(* ticks of the clock; a reserved job has run, to its end, at most Late    *)
(* after it was due, which is what the server's load decides.              *)
(***************************************************************************)
EXTENDS Naturals

CONSTANTS
  Period,   \* 5000: until the next Ping
  Limit,    \* 8000: the longest time without an answer
  Late,     \* how late a reserved job may end
  Word      \* 2^64, the range of a tick and a bound of the clock

VARIABLES
  now,         \* GetTickCount64()
  tick,        \* HeartbeatTick
  due,         \* when the reserved (or running) Ping is due
  ping,          \* where OnConnectCompleted or Ping is
  read,        \* the operand of the subtraction it has read
  unanswered,  \* pings without a pong
  handler,     \* where HandlePong is
  pong         \* what it has read of the clock

beatVars == <<now, tick, due, ping, read, unanswered, handler, pong>>

PingLabel == {"reserve", "wait", "tick", "clock", "send", "over"}

BeatTypeOK ==
  /\ now \in Nat /\ tick \in Nat /\ due \in Nat
  /\ ping \in PingLabel
  /\ read \in Nat
  /\ unanswered \in Nat
  /\ handler \in {"idle", "store"} /\ pong \in Nat

\* OnConnectCompleted has set HeartbeatTick and is about to reserve a Ping.
BeatInit ==
  /\ now = 0 /\ tick = 0 /\ due = 0
  /\ ping = "reserve"
  /\ read = 0
  /\ unanswered = 0
  /\ handler = "idle" /\ pong = 0

\* PushJobTimerAsync(5000, Ping).
ReserveNext ==
  /\ ping = "reserve"
  /\ due' = now + Period
  /\ ping' = "wait"
  /\ UNCHANGED <<now, tick, read, unanswered, handler, pong>>

\* The reserved Ping starts, and reads the clock first ...
ReadClock ==
  /\ ping = "wait"
  /\ due <= now
  /\ read' = now
  /\ ping' = "tick"
  /\ UNCHANGED <<now, tick, due, unanswered, handler, pong>>

\* ... or HeartbeatTick.
ReadTick ==
  /\ ping = "wait"
  /\ due <= now
  /\ read' = tick
  /\ ping' = "clock"
  /\ UNCHANGED <<now, tick, due, unanswered, handler, pong>>

\* The subtraction of two uint64.
Diff(a, b) == IF b <= a THEN a - b ELSE (Word + a) - b

\* More than Limit: "PingPong failed", and nothing is reserved any more.
Judge(diff) ==
  /\ ping' = IF diff > Limit THEN "over" ELSE "send"
  /\ UNCHANGED <<now, tick, due, read, unanswered, handler, pong>>

JudgeByTick == ping = "tick" /\ Judge(Diff(read, tick))

JudgeByClock == ping = "clock" /\ Judge(Diff(now, read))

\* S_Ping, by Session::Send.
SendPing ==
  /\ ping = "send"
  /\ unanswered' = unanswered + 1
  /\ ping' = "reserve"
  /\ UNCHANGED <<now, tick, due, read, handler, pong>>

\* HandlePong: the clock is read, and stored in HeartbeatTick.  A client sends
\* one C_Pong for an S_Ping, and the packets of a session come one by one.
ReadPong ==
  /\ unanswered > 0
  /\ handler = "idle"
  /\ unanswered' = unanswered - 1
  /\ handler' = "store"
  /\ pong' = now
  /\ UNCHANGED <<now, tick, due, ping, read>>

StorePong ==
  /\ handler = "store"
  /\ tick' = pong
  /\ handler' = "idle"
  /\ UNCHANGED <<now, due, ping, read, unanswered, pong>>

\* Time passes, but not past a job that is late already.
Tick ==
  /\ now + 1 < Word
  /\ ping # "over" => now < due + Late
  /\ now' = now + 1
  /\ UNCHANGED <<tick, due, ping, read, unanswered, handler, pong>>

BeatNext ==
  \/ ReserveNext
  \/ ReadClock \/ ReadTick
  \/ JudgeByTick \/ JudgeByClock
  \/ SendPing
  \/ ReadPong \/ StorePong
  \/ Tick

BeatSpec == BeatInit /\ [][BeatNext]_beatVars

-----------------------------------------------------------------------------
(* Properties                                                              *)

Failed == ping = "over"

\* As long as the heartbeat has not failed, an answer is not older than the limit,
\* one period and two delays: that is how long a client that is silent, or gone
\* without a close, stays connected, and how long the reserved Ping, which owns the
\* session, keeps one that was closed in memory (Heartbeat.cpp:8-18).
SilentGoes == ~ Failed => now <= tick + Limit + Period + 2 * Late

\* The client answers in time: when a Ping starts, the one before was answered and
\* the answer is stored.
Prompt == ping = "wait" /\ ping' # "wait" => unanswered = 0 /\ handler = "idle"

\* Then its session stays, whichever operand is read first; a pong between the two
\* reads would make the difference wrap around (Heartbeat.cpp:8, 23).
PromptSpec == BeatInit /\ [][BeatNext /\ Prompt]_beatVars
PromptStays == ~ Failed
=============================================================================
