------------------------------ MODULE Session ------------------------------
(***************************************************************************)
(* One accepted connection: Session with its three overlapped operations   *)
(* (send, receive, disconnect), the IO completion port that gives their    *)
(* completions to any idle worker, and the two registries a session is in. *)
(* Any worker may call Send or Disconnect at any moment; the only          *)
(* coordination is the flags _connected and _send_registered and a lock    *)
(* around _send_queue.  An action is one access to what the workers share. *)
(*                                                                         *)
(* Data left out: bytes and buffers (see RecvBuffer), the peer.  The       *)
(* kernel may fail a call at once, complete it, or complete it with no     *)
(* bytes (closed or aborted) as it likes.                                  *)
(***************************************************************************)
EXTENDS Naturals, Sequences, FiniteSets, SequencesExt

CONSTANTS
  Worker,            \* the threads: DoWorkerJob and FlushSendLoop
  Acceptor,          \* the worker on which the connection is accepted
  Msg,               \* the send buffers; each is sent at most once
  Hello,             \* the buffer OnConnectCompleted sends (S_Connected)
  None,              \* no argument
  SendErrors,        \* the kinds of error WSASend and WSARecv may return:
                     \* "reset" (WSAECONNRESET/ABORTED) and "other"
  DisconnectFails    \* whether DisconnectEx may fail

ASSUME AcceptorAssumption == Acceptor \in Worker
ASSUME HelloAssumption == Hello \in Msg
ASSUME NoneAssumption == None \notin Msg
ASSUME SendErrorsAssumption == SendErrors \subseteq {"reset", "other"}
ASSUME DisconnectFailsAssumption == DisconnectFails \in BOOLEAN

VARIABLES
  connected,    \* _connected
  registered,   \* _send_registered
  queue,        \* _send_queue
  inFlight,     \* _send_event.send_buffers
  sendOwner,    \* whether _send_event.owner is the session
  recvOwner,    \* whether _recv_event.owner is the session
  io,           \* the overlapped operations the kernel has
  inService,    \* whether Service::_sessions holds the session
  inManager,    \* whether SessionManager::_sessions holds it
  pc,           \* where a worker is
  arg,          \* the buffer of its call of Send
  ret,          \* where its Send or RegisterSend returns to
  dret,         \* where its Disconnect returns to
  accepted,     \* history: the buffers pushed to _send_queue, in order
  ended,        \* history: the buffers whose WSASend is over, in order
  delivered     \* history: those of them the kernel sent

flags == <<connected, registered>>
sendVars == <<queue, inFlight, sendOwner>>
places == <<inService, inManager>>
history == <<accepted, ended, delivered>>
vars == <<connected, registered, queue, inFlight, sendOwner, recvOwner, io,
          inService, inManager, pc, arg, ret, dret, accepted, ended, delivered>>

Event == {"send", "recv", "disc"}
Label == {"idle", "connect", "addService", "addManager", "onConnect",
          "push", "exchange", "regSend", "drain", "postSend", "sendFailed",
          "sendNext", "checkRecv", "postRecv", "recvFailed", "onRecv",
          "disconnect", "postDisc", "unregister", "removeManager"}

TypeOK ==
  /\ connected \in BOOLEAN
  /\ registered \in BOOLEAN
  /\ queue \in Seq(Msg) /\ inFlight \in Seq(Msg)
  /\ sendOwner \in BOOLEAN /\ recvOwner \in BOOLEAN
  /\ io \subseteq Event
  /\ inService \in BOOLEAN /\ inManager \in BOOLEAN
  /\ pc \in [Worker -> Label]
  /\ arg \in [Worker -> Msg \cup {None}]
  /\ ret \in [Worker -> {"idle", "checkRecv", "onRecv"}]
  /\ dret \in [Worker -> {"idle", "sendFailed", "recvFailed"}]
  /\ accepted \in Seq(Msg) /\ ended \in Seq(Msg)
  /\ delivered \subseteq Msg
  /\ IsInjective(accepted) /\ IsInjective(ended)

\* ListenHandler::SetupSession has accepted the connection.
Init ==
  /\ connected = FALSE /\ registered = FALSE
  /\ queue = <<>> /\ inFlight = <<>>
  /\ sendOwner = FALSE /\ recvOwner = FALSE
  /\ io = {}
  /\ inService = FALSE /\ inManager = FALSE
  /\ pc = [w \in Worker |-> IF w = Acceptor THEN "connect" ELSE "idle"]
  /\ arg = [w \in Worker |-> None]
  /\ ret = [w \in Worker |-> "idle"]
  /\ dret = [w \in Worker |-> "idle"]
  /\ accepted = <<>> /\ ended = <<>> /\ delivered = {}

Goto(w, l) == pc' = [pc EXCEPT ![w] = l]
Return(w) == Goto(w, ret[w])

\* Disconnect(cause) is called and will return to l.
CallDisconnect(w, l) ==
  /\ Goto(w, "disconnect")
  /\ dret' = [dret EXCEPT ![w] = l]

-----------------------------------------------------------------------------
(* EstablishConnect                                                        *)

Establish(w) ==
  /\ pc[w] = "connect"
  /\ connected' = TRUE
  /\ Goto(w, "addService")
  /\ UNCHANGED <<registered, sendVars, recvOwner, io, places, arg, ret, dret, history>>

RegisterSession(w) ==
  /\ pc[w] = "addService"
  /\ inService' = TRUE
  /\ Goto(w, "addManager")
  /\ UNCHANGED <<flags, sendVars, recvOwner, io, inManager, arg, ret, dret, history>>

AddToSessionManager(w) ==
  /\ pc[w] = "addManager"
  /\ inManager' = TRUE
  /\ Goto(w, "onConnect")
  /\ UNCHANGED <<flags, sendVars, recvOwner, io, inService, arg, ret, dret, history>>

-----------------------------------------------------------------------------
(* Send and RegisterSend                                                   *)

\* IsConnected() is looked at before anything else; a is returned to.
CallSend(w, m, a) ==
  /\ IF connected
       THEN /\ arg' = [arg EXCEPT ![w] = m]
            /\ ret' = [ret EXCEPT ![w] = a]
            /\ Goto(w, "push")
       ELSE Goto(w, a) /\ UNCHANGED <<arg, ret>>
  /\ UNCHANGED <<flags, sendVars, recvOwner, io, places, dret, history>>

\* GameSession::OnConnectCompleted sends S_Connected.
OnConnectCompleted(w) == pc[w] = "onConnect" /\ CallSend(w, Hello, "checkRecv")

\* A packet handler sends, or any job or FlushSendLoop that finds the session
\* in the SessionManager.
Send(w, m) ==
  /\ pc[w] = "onRecv" \/ (pc[w] = "idle" /\ inManager)
  /\ m \notin {Hello} \cup ToSet(accepted) \cup {arg[v] : v \in Worker}
  /\ CallSend(w, m, pc[w])

PushBuffer(w) ==
  /\ pc[w] = "push"
  /\ queue' = Append(queue, arg[w])
  /\ accepted' = Append(accepted, arg[w])
  /\ arg' = [arg EXCEPT ![w] = None]
  /\ Goto(w, "exchange")
  /\ UNCHANGED <<flags, inFlight, sendOwner, recvOwner, io, places, ret, dret,
                 ended, delivered>>

\* Mutant: the flag is set, and what it was before is not looked at.
ExchangeNothing(w) ==
  /\ pc[w] = "exchange"
  /\ registered' = TRUE
  /\ Goto(w, "regSend")
  /\ UNCHANGED <<connected, sendVars, recvOwner, io, places, arg, ret, dret, history>>

\* if (false == _send_registered.exchange(true)) RegisterSend()
Exchange(w) ==
  /\ pc[w] = "exchange"
  /\ registered' = TRUE
  /\ IF registered THEN Return(w) ELSE Goto(w, "regSend")
  /\ UNCHANGED <<connected, sendVars, recvOwner, io, places, arg, ret, dret, history>>

\* RegisterSend: nothing is done on a closed session; else add_ref.
SetSendOwner(w) ==
  /\ pc[w] = "regSend"
  /\ IF connected
       THEN sendOwner' = TRUE /\ Goto(w, "drain")
       ELSE Return(w) /\ UNCHANGED sendOwner
  /\ UNCHANGED <<flags, queue, inFlight, recvOwner, io, places, arg, ret, dret, history>>

\* Mutant: the flag stays set when another worker has taken the buffers.
DrainKeepsFlag(w) ==
  /\ pc[w] = "drain"
  /\ IF queue = <<>>
       THEN Return(w) /\ UNCHANGED inFlight
       ELSE inFlight' = inFlight \o queue /\ Goto(w, "postSend")
  /\ queue' = <<>>
  /\ UNCHANGED <<flags, sendOwner, recvOwner, io, places, arg, ret, dret, history>>

\* Mutant: the buffers are copied and stay in the queue.
DrainCopies(w) ==
  /\ pc[w] = "drain"
  /\ IF queue = <<>>
       THEN /\ registered' = FALSE
            /\ Return(w)
            /\ UNCHANGED inFlight
       ELSE /\ inFlight' = inFlight \o queue
            /\ Goto(w, "postSend")
            /\ UNCHANGED registered
  /\ UNCHANGED <<connected, queue, sendOwner, recvOwner, io, places, arg, ret,
                 dret, history>>

\* Under the lock: the whole queue moves to the event.  An empty queue gives
\* the flag back, and leaves the owner set.
Drain(w) ==
  /\ pc[w] = "drain"
  /\ IF queue = <<>>
       THEN /\ registered' = FALSE
            /\ Return(w)
            /\ UNCHANGED inFlight
       ELSE /\ inFlight' = inFlight \o queue
            /\ Goto(w, "postSend")
            /\ UNCHANGED registered
  /\ queue' = <<>>
  /\ UNCHANGED <<connected, sendOwner, recvOwner, io, places, arg, ret, dret, history>>

PostSend(w) ==
  /\ pc[w] = "postSend"
  /\ io' = io \cup {"send"}
  /\ Return(w)
  /\ UNCHANGED <<flags, sendVars, recvOwner, places, arg, ret, dret, history>>

\* HandleError: a reset disconnects, any other error is only printed.
PostSendFails(w, error) ==
  /\ pc[w] = "postSend"
  /\ IF error = "reset"
       THEN CallDisconnect(w, "sendFailed")
       ELSE Goto(w, "sendFailed") /\ UNCHANGED dret
  /\ UNCHANGED <<flags, sendVars, recvOwner, io, places, arg, ret, history>>

\* release ref, clear, _send_registered.store(false): nobody else touches the
\* event meanwhile.
SendFailed(w) ==
  /\ pc[w] = "sendFailed"
  /\ sendOwner' = FALSE
  /\ ended' = ended \o inFlight
  /\ inFlight' = <<>>
  /\ registered' = FALSE
  /\ Return(w)
  /\ UNCHANGED <<connected, queue, recvOwner, io, places, arg, ret, dret,
                 accepted, delivered>>

\* ProcessSend, with or without bytes.
CompleteSend(w, sent) ==
  /\ pc[w] = "idle"
  /\ "send" \in io
  /\ io' = io \ {"send"}
  /\ sendOwner' = FALSE
  /\ ended' = ended \o inFlight
  /\ inFlight' = <<>>
  /\ ret' = [ret EXCEPT ![w] = "idle"]
  /\ IF sent
       THEN /\ delivered' = delivered \cup ToSet(inFlight)
            /\ Goto(w, "sendNext")
            /\ UNCHANGED dret
       ELSE CallDisconnect(w, "idle") /\ UNCHANGED delivered
  /\ UNCHANGED <<flags, queue, recvOwner, places, arg, accepted>>

\* Mutant: the flag is given back without a look at the queue.
SendNextUnchecked(w) ==
  /\ pc[w] = "sendNext"
  /\ registered' = FALSE
  /\ Goto(w, "idle")
  /\ UNCHANGED <<connected, sendVars, recvOwner, io, places, arg, ret, dret, history>>

\* Under the lock: an empty queue gives the flag back, else once more.
SendNext(w) ==
  /\ pc[w] = "sendNext"
  /\ IF queue = <<>>
       THEN registered' = FALSE /\ Goto(w, "idle")
       ELSE Goto(w, "regSend") /\ UNCHANGED registered
  /\ UNCHANGED <<connected, sendVars, recvOwner, io, places, arg, ret, dret, history>>

-----------------------------------------------------------------------------
(* RegisterRecv and ProcessRecv                                            *)

SetRecvOwner(w) ==
  /\ pc[w] = "checkRecv"
  /\ IF connected
       THEN recvOwner' = TRUE /\ Goto(w, "postRecv")
       ELSE Goto(w, "idle") /\ UNCHANGED recvOwner
  /\ UNCHANGED <<flags, sendVars, io, places, arg, ret, dret, history>>

PostRecv(w) ==
  /\ pc[w] = "postRecv"
  /\ io' = io \cup {"recv"}
  /\ Goto(w, "idle")
  /\ UNCHANGED <<flags, sendVars, recvOwner, places, arg, ret, dret, history>>

PostRecvFails(w, error) ==
  /\ pc[w] = "postRecv"
  /\ IF error = "reset"
       THEN CallDisconnect(w, "recvFailed")
       ELSE Goto(w, "recvFailed") /\ UNCHANGED dret
  /\ UNCHANGED <<flags, sendVars, recvOwner, io, places, arg, ret, history>>

RecvFailed(w) ==
  /\ pc[w] = "recvFailed"
  /\ recvOwner' = FALSE
  /\ Goto(w, "idle")
  /\ UNCHANGED <<flags, sendVars, io, places, arg, ret, dret, history>>

\* ProcessRecv: bytes go to OnRecvCompleted, none disconnect.
CompleteRecv(w, got) ==
  /\ pc[w] = "idle"
  /\ "recv" \in io
  /\ io' = io \ {"recv"}
  /\ recvOwner' = FALSE
  /\ IF got THEN Goto(w, "onRecv") /\ UNCHANGED dret
            ELSE CallDisconnect(w, "idle")
  /\ UNCHANGED <<flags, sendVars, places, arg, ret, history>>

\* The handlers are done: receive again, or drop a malformed stream.
FinishRecv(w, valid) ==
  /\ pc[w] = "onRecv"
  /\ IF valid THEN Goto(w, "checkRecv") /\ UNCHANGED dret
              ELSE CallDisconnect(w, "idle")
  /\ UNCHANGED <<flags, sendVars, recvOwner, io, places, arg, ret, history>>

-----------------------------------------------------------------------------
(* Disconnect                                                              *)

\* Heartbeat::Ping gives the session up.
HeartbeatFails(w) ==
  /\ pc[w] = "idle"
  /\ inManager
  /\ CallDisconnect(w, "idle")
  /\ UNCHANGED <<flags, sendVars, recvOwner, io, places, arg, ret, history>>

\* Mutant: _connected is stored, and what it was before is not looked at.
ExchangeConnectedNothing(w) ==
  /\ pc[w] = "disconnect"
  /\ connected' = FALSE
  /\ Goto(w, "postDisc")
  /\ UNCHANGED <<registered, sendVars, recvOwner, io, places, arg, ret, dret, history>>

\* if (_connected.exchange(false) == false) return
ExchangeConnected(w) ==
  /\ pc[w] = "disconnect"
  /\ connected' = FALSE
  /\ Goto(w, IF connected THEN "postDisc" ELSE dret[w])
  /\ UNCHANGED <<registered, sendVars, recvOwner, io, places, arg, ret, dret, history>>

PostDisconnect(w) ==
  /\ pc[w] = "postDisc"
  /\ \/ io' = io \cup {"disc"}
     \/ DisconnectFails /\ UNCHANGED io
  /\ Goto(w, dret[w])
  /\ UNCHANGED <<flags, sendVars, recvOwner, places, arg, ret, dret, history>>

\* ProcessDisconnect, as far as OnDisconnectCompleted.
CompleteDisconnect(w) ==
  /\ pc[w] = "idle"
  /\ "disc" \in io
  /\ io' = io \ {"disc"}
  /\ connected' = FALSE
  /\ Goto(w, "unregister")
  /\ UNCHANGED <<registered, sendVars, recvOwner, places, arg, ret, dret, history>>

UnregisterSession(w) ==
  /\ pc[w] = "unregister"
  /\ inService' = FALSE
  /\ Goto(w, "removeManager")
  /\ UNCHANGED <<flags, sendVars, recvOwner, io, inManager, arg, ret, dret, history>>

\* Mutant: the session stays in the SessionManager.
RemoveNothing(w) ==
  /\ pc[w] = "removeManager"
  /\ Goto(w, "idle")
  /\ UNCHANGED <<flags, sendVars, recvOwner, io, places, arg, ret, dret, history>>

RemoveFromSessionManager(w) ==
  /\ pc[w] = "removeManager"
  /\ inManager' = FALSE
  /\ Goto(w, "idle")
  /\ UNCHANGED <<flags, sendVars, recvOwner, io, inService, arg, ret, dret, history>>

-----------------------------------------------------------------------------
Connecting(w) == Establish(w) \/ RegisterSession(w) \/ AddToSessionManager(w)

\* A worker goes on with the call it is in.
Advance(w) ==
  \/ Connecting(w)
  \/ OnConnectCompleted(w)
  \/ PushBuffer(w) \/ Exchange(w) \/ SetSendOwner(w) \/ Drain(w)
  \/ PostSend(w) \/ \E e \in SendErrors : PostSendFails(w, e)
  \/ SendFailed(w) \/ SendNext(w)
  \/ SetRecvOwner(w) \/ PostRecv(w) \/ \E e \in SendErrors : PostRecvFails(w, e)
  \/ RecvFailed(w) \/ \E valid \in BOOLEAN : FinishRecv(w, valid)
  \/ ExchangeConnected(w) \/ PostDisconnect(w)
  \/ UnregisterSession(w) \/ RemoveFromSessionManager(w)

\* Dispatch gives a completion to a worker.
Complete(w) ==
  \/ \E sent \in BOOLEAN : CompleteSend(w, sent)
  \/ \E got \in BOOLEAN : CompleteRecv(w, got)
  \/ CompleteDisconnect(w)

Next ==
  \E w \in Worker :
    \/ Advance(w)
    \/ Complete(w)
    \/ \E m \in Msg : Send(w, m)
    \/ HeartbeatFails(w)

Spec == Init /\ [][Next]_vars

(* Workers go on, and the kernel completes what it was given, on some        *)
(* worker that is free.  Nobody is obliged to send or to disconnect.         *)
Fairness ==
  /\ \A w \in Worker : WF_vars(Advance(w))
  /\ SF_vars(\E w \in Worker, b \in BOOLEAN : CompleteSend(w, b))
  /\ SF_vars(\E w \in Worker : CompleteDisconnect(w))

FairSpec == Spec /\ Fairness

-----------------------------------------------------------------------------
(* Properties                                                              *)

\* _send_registered is a token for _send_event: at most one worker is in
\* RegisterSend or ProcessSend and not while a WSASend is pending, nobody
\* without the flag; a flag that is set belongs to somebody, or the session
\* is closing.  The event, reused by every send, relies on it.
Sending(w) ==
  \/ pc[w] \in {"regSend", "drain", "postSend", "sendFailed", "sendNext"}
  \/ pc[w] \in {"disconnect", "postDisc"} /\ dret[w] = "sendFailed"
Tokens ==
  Cardinality({w \in Worker : Sending(w)}) + (IF "send" \in io THEN 1 ELSE 0)
OneSendToken ==
  /\ Tokens <= (IF registered THEN 1 ELSE 0)
  /\ registered /\ Tokens = 0 =>
       ~connected \/ \E w \in Worker : pc[w] = "disconnect"

\* Dispatch follows iocp_event->owner of whatever completes (IocpCore.cpp:32):
\* the owner is set while an operation is pending, though other workers
\* release it in ProcessSend, ProcessRecv and the error paths.
OwnedWhilePending ==
  /\ "send" \in io => sendOwner /\ inFlight # <<>>
  /\ "recv" \in io => recvOwner

\* Buffers go out in the order of _send_queue.push, each in exactly one
\* WSASend: what ended, what is in the event and what waits is what was pushed.
InOrderOnce == accepted = ended \o inFlight \o queue

\* UnregisterSession asserts that it finds the session (Service.cpp:48), and
\* however Disconnect calls, failures and completions interleave, it does: one
\* disconnect is posted, and only after both registries were filled.
UnregistersOnce ==
  /\ \A w \in Worker : pc[w] = "unregister" => inService /\ inManager
  /\ \A w, v \in Worker :
       pc[w] \in {"unregister", "removeManager"}
         /\ pc[v] \in {"unregister", "removeManager"} => w = v

\* A disconnected session that no worker and no pending operation uses holds
\* no reference to itself, so that it can be freed (README.md:150-151).
AtRest == io = {} /\ \A w \in Worker : pc[w] = "idle"
NoSelfReference ==
  AtRest /\ ~connected /\ ~inService => ~sendOwner /\ ~recvOwner

\* A buffer that was pushed reaches the kernel and is sent, or the session
\* closes: whoever gives the flag back has looked at the queue.  Not so after an
\* error that is only printed (Session.cpp:277-281).
OnlyPrinted == \E w \in Worker : pc[w] = "sendFailed" /\ connected
EveryBufferEnds ==
  []~OnlyPrinted =>
    \A m \in Msg : m \in ToSet(accepted) ~> m \in delivered \/ ~connected

\* A session whose DisconnectEx was posted leaves both registries for good.
ClosedIsForgotten == "disc" \in io ~> [](~inService /\ ~inManager)
=============================================================================
