--------------------------- MODULE SessionProofs ---------------------------
(***************************************************************************)
(* A session, for any number of workers and buffers and with every kind of *)
(* error of the kernel's calls.                                            *)
(*                                                                         *)
(* Nothing but flags keeps the workers apart, so the invariant is about    *)
(* who may do what: each of the three operations has one token.  The send  *)
(* token is _send_registered, and it is with a worker, with the kernel, or *)
(* it stays behind on a session that closes (SendToken).  The receive      *)
(* token has no variable: it is the worker that set the session up and     *)
(* after it whoever got the last completion (RecvToken).  The close token  *)
(* is whoever found _connected set (CloseToken), which never comes back:   *)
(* only Establish sets it, before any other worker can reach the session   *)
(* (SetUpAlone).                                                           *)
(*                                                                         *)
(* Below it, RecvBuffer, for packets, headers and buffers of any size.     *)
(*                                                                         *)
(* The three invariants are inductive together: what is unread are the     *)
(* bytes of the stream from the next packet on, so the parser finds the    *)
(* header it looks for at every place where a packet begins.  PacketsParsed*)
(* says what the loop returns then, by going back from the end of the      *)
(* stream; ClearKeeps says that moving the rest loses nothing.             *)
(*                                                                         *)
(* The stream and the loop are recursive functions.  That they exist, and  *)
(* what their values are, is shown by SetInduction, the induction over a   *)
(* set of numbers: a set without a least missing number misses none, since *)
(* the predecessor cannot map a finite set of numbers onto itself.         *)
(***************************************************************************)
EXTENDS Session, RecvBuffer, SequenceTheorems, FiniteSetTheorems, TLAPS

\* The part of TypeOK that is not about sequences of buffers.
Local ==
  /\ connected \in BOOLEAN /\ registered \in BOOLEAN
  /\ sendOwner \in BOOLEAN /\ recvOwner \in BOOLEAN
  /\ inService \in BOOLEAN /\ inManager \in BOOLEAN
  /\ io \subseteq Event /\ delivered \subseteq Msg
  /\ pc \in [Worker -> Label]
  /\ arg \in [Worker -> Msg \cup {None}]
  /\ ret \in [Worker -> {"idle", "checkRecv", "onRecv"}]
  /\ dret \in [Worker -> {"idle", "sendFailed", "recvFailed"}]

\* A session is set up by one worker, alone.
Setup(w) == pc[w] \in {"connect", "addService", "addManager"}
SetUpAlone ==
  /\ \A w \in Worker : Setup(w) =>
       /\ \A v \in Worker : v # w => pc[v] = "idle"
       /\ io = {} /\ ~registered /\ ~inManager
       /\ pc[w] = "connect" => ~connected
       /\ pc[w] = "addManager" => inService
  /\ connected => (inService /\ inManager) \/ (\E w \in Worker : Setup(w))

\* The locals of Send and ProcessSend.
Call ==
  \A w \in Worker :
    /\ arg[w] # None <=> pc[w] = "push"
    /\ pc[w] = "sendNext" => ret[w] = "idle"

\* OneSendToken without cardinalities, and what the holder relies on.
SendToken ==
  /\ \A w \in Worker : Sending(w) => registered /\ "send" \notin io
  /\ \A w, v \in Worker : Sending(w) /\ Sending(v) => w = v
  /\ "send" \in io => registered /\ sendOwner /\ inFlight # <<>>
  /\ registered /\ "send" \notin io =>
       \/ \E w \in Worker : Sending(w) \/ pc[w] = "disconnect"
       \/ ~connected
  /\ \A w \in Worker : pc[w] \in {"drain", "postSend"} => sendOwner
  /\ \A w \in Worker : pc[w] = "postSend" => inFlight # <<>>

\* Worker w is in Send or RegisterSend.
InSend(w) ==
  \/ pc[w] \in {"push", "exchange", "regSend", "drain", "postSend", "sendFailed"}
  \/ pc[w] \in {"disconnect", "postDisc"} /\ dret[w] = "sendFailed"

\* Worker w is going to call RegisterRecv, or is in it.
Receiving(w) ==
  \/ pc[w] \in {"connect", "addService", "addManager", "onConnect",
                "checkRecv", "postRecv", "recvFailed", "onRecv"}
  \/ InSend(w) /\ ret[w] # "idle"
  \/ pc[w] \in {"disconnect", "postDisc"} /\ dret[w] = "recvFailed"

\* One worker receives, and not while a WSARecv is pending.
RecvToken ==
  /\ \A w \in Worker : Receiving(w) => "recv" \notin io
  /\ \A w, v \in Worker : Receiving(w) /\ Receiving(v) => w = v
  /\ "recv" \in io => recvOwner
  /\ \A w \in Worker : pc[w] = "postRecv" => recvOwner

\* One worker closes the session, when it is no longer connected.
Closing(w) == pc[w] \in {"postDisc", "unregister", "removeManager"}
CloseToken ==
  /\ connected => "disc" \notin io /\ \A w \in Worker : ~Closing(w)
  /\ "disc" \in io => inService /\ inManager /\ \A w \in Worker : ~Closing(w)
  /\ \A w, v \in Worker : Closing(w) /\ Closing(v) => w = v
  /\ \A w \in Worker : pc[w] \in {"postDisc", "unregister"} => inService /\ inManager

\* No buffer is given to Send twice, nor the first one by anybody but the
\* worker that set the session up.
Fresh ==
  /\ \A w, v \in Worker : arg[w] # None /\ arg[v] = arg[w] => v = w
  /\ \A w \in Worker : arg[w] \notin ToSet(accepted)
  /\ \A w \in Worker : Setup(w) \/ pc[w] = "onConnect" =>
       Hello \notin ToSet(accepted) /\ \A v \in Worker : arg[v] # Hello

\* The buffers pushed are those sent, in the event and waiting, none twice.
Buffers ==
  /\ queue \in Seq(Msg) /\ inFlight \in Seq(Msg)
  /\ accepted \in Seq(Msg) /\ ended \in Seq(Msg)
  /\ IsInjective(accepted)
  /\ InOrderOnce

IInv ==
  /\ Local /\ Buffers /\ Call /\ SetUpAlone
  /\ SendToken /\ RecvToken /\ CloseToken /\ Fresh

-----------------------------------------------------------------------------
(* The tokens, one at a time                                               *)

\* Nobody else reaches the session before it is set up.
LEMMA SetUpKept ==
  ASSUME Local, SetUpAlone, CloseToken, [Next]_vars
  PROVE  SetUpAlone'
<1>. USE DEF Local, Label, Goto, flags, sendVars, places, history, Call, SetUpAlone, Setup, CloseToken, Closing
<1>1. ASSUME NEW w \in Worker, Connecting(w)
      PROVE  SetUpAlone'
  BY <1>1 DEF Connecting, Establish, RegisterSession, AddToSessionManager
<1>2. ASSUME NEW w \in Worker,
             OnConnectCompleted(w) \/ (\E m \in Msg : Send(w, m))
      PROVE  SetUpAlone'
  BY <1>2 DEF OnConnectCompleted, CallSend, Send
<1>3. ASSUME NEW w \in Worker,
             PushBuffer(w) \/ Exchange(w) \/ SetSendOwner(w)
      PROVE  SetUpAlone'
  BY <1>3 DEF PushBuffer, Exchange, Return, SetSendOwner
<1>4. ASSUME NEW w \in Worker, Drain(w)
      PROVE  SetUpAlone'
  BY <1>4 DEF Drain, Return
<1>5. ASSUME NEW w \in Worker,
             PostSend(w) \/ (\E e \in SendErrors : PostSendFails(w, e))
      PROVE  SetUpAlone'
  BY <1>5 DEF PostSend, Return, PostSendFails, CallDisconnect
<1>6. ASSUME NEW w \in Worker,
             SendFailed(w) \/ SendNext(w)
      PROVE  SetUpAlone'
  BY <1>6 DEF SendFailed, Return, SendNext
<1>7. ASSUME NEW w \in Worker,
             SetRecvOwner(w) \/ PostRecv(w)
             \/ (\E e \in SendErrors : PostRecvFails(w, e)) \/ RecvFailed(w)
      PROVE  SetUpAlone'
  BY <1>7 DEF SetRecvOwner, PostRecv, PostRecvFails, CallDisconnect, RecvFailed
<1>8. ASSUME NEW w \in Worker,
             (\E valid \in BOOLEAN : FinishRecv(w, valid)) \/ HeartbeatFails(w)
      PROVE  SetUpAlone'
  BY <1>8 DEF FinishRecv, CallDisconnect, HeartbeatFails
<1>9. ASSUME NEW w \in Worker,
             ExchangeConnected(w) \/ PostDisconnect(w)
      PROVE  SetUpAlone'
  BY <1>9 DEF ExchangeConnected, PostDisconnect
<1>10. ASSUME NEW w \in Worker,
              UnregisterSession(w) \/ RemoveFromSessionManager(w)
       PROVE  SetUpAlone'
  BY <1>10 DEF UnregisterSession, RemoveFromSessionManager
<1>11. ASSUME NEW w \in Worker, \E sent \in BOOLEAN : CompleteSend(w, sent)
       PROVE  SetUpAlone'
  BY <1>11 DEF CompleteSend, CallDisconnect
<1>12. ASSUME NEW w \in Worker, \E got \in BOOLEAN : CompleteRecv(w, got)
       PROVE  SetUpAlone'
  BY <1>12 DEF CompleteRecv, CallDisconnect
<1>13. ASSUME NEW w \in Worker, CompleteDisconnect(w)
       PROVE  SetUpAlone'
  BY <1>13 DEF CompleteDisconnect
<1>14. CASE UNCHANGED vars
  BY <1>14 DEF vars
<1>. QED
  BY <1>1, <1>2, <1>3, <1>4, <1>5, <1>6, <1>7, <1>8, <1>9, <1>10, <1>11, <1>12, <1>13, <1>14 DEF Next, Advance, Connecting, Complete

\* The argument of Send lives from its call to the push.
LEMMA CallKept ==
  ASSUME Local, Call, [Next]_vars
  PROVE  Call'
<1>. USE DEF Local, Label, Goto, flags, sendVars, places, history, Call
<1>1. ASSUME NEW w \in Worker, Connecting(w)
      PROVE  Call'
  BY <1>1 DEF Connecting, Establish, RegisterSession, AddToSessionManager
<1>2. ASSUME NEW w \in Worker, OnConnectCompleted(w)
      PROVE  Call'
  BY <1>2, HelloAssumption, NoneAssumption DEF OnConnectCompleted, CallSend
<1>3. ASSUME NEW w \in Worker, \E m \in Msg : Send(w, m)
      PROVE  Call'
  BY <1>3 DEF Send, CallSend
<1>4. ASSUME NEW w \in Worker,
             PushBuffer(w) \/ Exchange(w) \/ SetSendOwner(w)
      PROVE  Call'
  BY <1>4 DEF PushBuffer, Exchange, Return, SetSendOwner
<1>5. ASSUME NEW w \in Worker, Drain(w)
      PROVE  Call'
  BY <1>5 DEF Drain, Return
<1>6. ASSUME NEW w \in Worker,
             PostSend(w) \/ (\E e \in SendErrors : PostSendFails(w, e))
      PROVE  Call'
  BY <1>6 DEF PostSend, Return, PostSendFails, CallDisconnect
<1>7. ASSUME NEW w \in Worker,
             SendFailed(w) \/ SendNext(w)
      PROVE  Call'
  BY <1>7 DEF SendFailed, Return, SendNext
<1>8. ASSUME NEW w \in Worker,
             SetRecvOwner(w) \/ PostRecv(w)
             \/ (\E e \in SendErrors : PostRecvFails(w, e)) \/ RecvFailed(w)
      PROVE  Call'
  BY <1>8 DEF SetRecvOwner, PostRecv, PostRecvFails, CallDisconnect, RecvFailed
<1>9. ASSUME NEW w \in Worker,
             (\E valid \in BOOLEAN : FinishRecv(w, valid)) \/ HeartbeatFails(w)
      PROVE  Call'
  BY <1>9 DEF FinishRecv, CallDisconnect, HeartbeatFails
<1>10. ASSUME NEW w \in Worker,
              ExchangeConnected(w) \/ PostDisconnect(w)
       PROVE  Call'
  BY <1>10 DEF ExchangeConnected, PostDisconnect
<1>11. ASSUME NEW w \in Worker,
              UnregisterSession(w) \/ RemoveFromSessionManager(w)
       PROVE  Call'
  BY <1>11 DEF UnregisterSession, RemoveFromSessionManager
<1>12. ASSUME NEW w \in Worker, \E sent \in BOOLEAN : CompleteSend(w, sent)
       PROVE  Call'
  BY <1>12 DEF CompleteSend, CallDisconnect
<1>13. ASSUME NEW w \in Worker, \E got \in BOOLEAN : CompleteRecv(w, got)
       PROVE  Call'
  BY <1>13 DEF CompleteRecv, CallDisconnect
<1>14. ASSUME NEW w \in Worker, CompleteDisconnect(w)
       PROVE  Call'
  BY <1>14 DEF CompleteDisconnect
<1>15. CASE UNCHANGED vars
  BY <1>15 DEF vars
<1>. QED
  BY <1>1, <1>2, <1>3, <1>4, <1>5, <1>6, <1>7, <1>8, <1>9, <1>10, <1>11, <1>12, <1>13, <1>14, <1>15 DEF Next, Advance, Connecting, Complete

\* The send token is handed on, never copied.
LEMMA SendTokenKept ==
  ASSUME Local, Call, SetUpAlone, SendToken,
         queue \in Seq(Msg), inFlight \in Seq(Msg), [Next]_vars
  PROVE  SendToken'
<1>. USE DEF Local, Label, Goto, flags, sendVars, places, history, Call, SetUpAlone, Setup, SendToken, Sending
<1>1. ASSUME NEW w \in Worker, Connecting(w)
      PROVE  SendToken'
  BY <1>1 DEF Connecting, Establish, RegisterSession, AddToSessionManager
<1>2. ASSUME NEW w \in Worker,
             OnConnectCompleted(w) \/ (\E m \in Msg : Send(w, m))
      PROVE  SendToken'
  BY <1>2 DEF OnConnectCompleted, CallSend, Send
<1>3. ASSUME NEW w \in Worker,
             PushBuffer(w) \/ Exchange(w) \/ SetSendOwner(w)
      PROVE  SendToken'
  BY <1>3 DEF PushBuffer, Exchange, Return, SetSendOwner
<1>4. ASSUME NEW w \in Worker, Drain(w)
      PROVE  SendToken'
  BY <1>4 DEF Drain, Return
<1>5. ASSUME NEW w \in Worker,
             PostSend(w) \/ (\E e \in SendErrors : PostSendFails(w, e))
      PROVE  SendToken'
  <2>1. CASE PostSend(w)
    BY <2>1 DEF PostSend, Return
  <2>2. CASE \E e \in SendErrors : PostSendFails(w, e)
    BY <2>2, SMTT(30) DEF PostSendFails, CallDisconnect
  <2>. QED
    BY <1>5, <2>1, <2>2
<1>6. ASSUME NEW w \in Worker,
             SendFailed(w) \/ SendNext(w)
      PROVE  SendToken'
  BY <1>6 DEF SendFailed, Return, SendNext
<1>7. ASSUME NEW w \in Worker,
             SetRecvOwner(w) \/ PostRecv(w)
             \/ (\E e \in SendErrors : PostRecvFails(w, e)) \/ RecvFailed(w)
      PROVE  SendToken'
  BY <1>7 DEF SetRecvOwner, PostRecv, PostRecvFails, CallDisconnect, RecvFailed
<1>8. ASSUME NEW w \in Worker,
             (\E valid \in BOOLEAN : FinishRecv(w, valid)) \/ HeartbeatFails(w)
      PROVE  SendToken'
  BY <1>8 DEF FinishRecv, CallDisconnect, HeartbeatFails
<1>9. ASSUME NEW w \in Worker,
             ExchangeConnected(w) \/ PostDisconnect(w)
      PROVE  SendToken'
  BY <1>9 DEF ExchangeConnected, PostDisconnect
<1>10. ASSUME NEW w \in Worker,
              UnregisterSession(w) \/ RemoveFromSessionManager(w)
       PROVE  SendToken'
  BY <1>10 DEF UnregisterSession, RemoveFromSessionManager
<1>11. ASSUME NEW w \in Worker, \E sent \in BOOLEAN : CompleteSend(w, sent)
       PROVE  SendToken'
  BY <1>11 DEF CompleteSend, CallDisconnect
<1>12. ASSUME NEW w \in Worker, \E got \in BOOLEAN : CompleteRecv(w, got)
       PROVE  SendToken'
  BY <1>12 DEF CompleteRecv, CallDisconnect
<1>13. ASSUME NEW w \in Worker, CompleteDisconnect(w)
       PROVE  SendToken'
  BY <1>13 DEF CompleteDisconnect
<1>14. CASE UNCHANGED vars
  BY <1>14 DEF vars
<1>. QED
  BY <1>1, <1>2, <1>3, <1>4, <1>5, <1>6, <1>7, <1>8, <1>9, <1>10, <1>11, <1>12, <1>13, <1>14 DEF Next, Advance, Connecting, Complete

\* The receive token too.
LEMMA RecvTokenKept ==
  ASSUME Local, Call, SetUpAlone, RecvToken, [Next]_vars
  PROVE  RecvToken'
<1>. USE DEF Local, Label, Goto, flags, sendVars, places, history, Call, SetUpAlone, Setup, RecvToken, Receiving, InSend
<1>1. ASSUME NEW w \in Worker, Connecting(w)
      PROVE  RecvToken'
  BY <1>1 DEF Connecting, Establish, RegisterSession, AddToSessionManager
<1>2. ASSUME NEW w \in Worker,
             OnConnectCompleted(w) \/ (\E m \in Msg : Send(w, m))
      PROVE  RecvToken'
  BY <1>2 DEF OnConnectCompleted, CallSend, Send
<1>3. ASSUME NEW w \in Worker,
             PushBuffer(w) \/ Exchange(w) \/ SetSendOwner(w)
      PROVE  RecvToken'
  BY <1>3 DEF PushBuffer, Exchange, Return, SetSendOwner
<1>4. ASSUME NEW w \in Worker, Drain(w)
      PROVE  RecvToken'
  BY <1>4 DEF Drain, Return
<1>5. ASSUME NEW w \in Worker,
             PostSend(w) \/ (\E e \in SendErrors : PostSendFails(w, e))
      PROVE  RecvToken'
  BY <1>5 DEF PostSend, Return, PostSendFails, CallDisconnect
<1>6. ASSUME NEW w \in Worker,
             SendFailed(w) \/ SendNext(w)
      PROVE  RecvToken'
  BY <1>6 DEF SendFailed, Return, SendNext
<1>7. ASSUME NEW w \in Worker,
             SetRecvOwner(w) \/ PostRecv(w)
             \/ (\E e \in SendErrors : PostRecvFails(w, e)) \/ RecvFailed(w)
      PROVE  RecvToken'
  BY <1>7 DEF SetRecvOwner, PostRecv, PostRecvFails, CallDisconnect, RecvFailed
<1>8. ASSUME NEW w \in Worker,
             (\E valid \in BOOLEAN : FinishRecv(w, valid)) \/ HeartbeatFails(w)
      PROVE  RecvToken'
  BY <1>8 DEF FinishRecv, CallDisconnect, HeartbeatFails
<1>9. ASSUME NEW w \in Worker,
             ExchangeConnected(w) \/ PostDisconnect(w)
      PROVE  RecvToken'
  BY <1>9 DEF ExchangeConnected, PostDisconnect
<1>10. ASSUME NEW w \in Worker,
              UnregisterSession(w) \/ RemoveFromSessionManager(w)
       PROVE  RecvToken'
  BY <1>10 DEF UnregisterSession, RemoveFromSessionManager
<1>11. ASSUME NEW w \in Worker, \E sent \in BOOLEAN : CompleteSend(w, sent)
       PROVE  RecvToken'
  BY <1>11 DEF CompleteSend, CallDisconnect
<1>12. ASSUME NEW w \in Worker, \E got \in BOOLEAN : CompleteRecv(w, got)
       PROVE  RecvToken'
  BY <1>12 DEF CompleteRecv, CallDisconnect
<1>13. ASSUME NEW w \in Worker, CompleteDisconnect(w)
       PROVE  RecvToken'
  BY <1>13 DEF CompleteDisconnect
<1>14. CASE UNCHANGED vars
  BY <1>14 DEF vars
<1>. QED
  BY <1>1, <1>2, <1>3, <1>4, <1>5, <1>6, <1>7, <1>8, <1>9, <1>10, <1>11, <1>12, <1>13, <1>14 DEF Next, Advance, Connecting, Complete

\* And the close token.
LEMMA CloseTokenKept ==
  ASSUME Local, SetUpAlone, CloseToken, [Next]_vars
  PROVE  CloseToken'
<1>. USE DEF Local, Label, Goto, flags, sendVars, places, history, SetUpAlone, Setup, CloseToken, Closing
<1>1. ASSUME NEW w \in Worker, Connecting(w)
      PROVE  CloseToken'
  BY <1>1 DEF Connecting, Establish, RegisterSession, AddToSessionManager
<1>2. ASSUME NEW w \in Worker,
             OnConnectCompleted(w) \/ (\E m \in Msg : Send(w, m))
      PROVE  CloseToken'
  BY <1>2 DEF OnConnectCompleted, CallSend, Send
<1>3. ASSUME NEW w \in Worker,
             PushBuffer(w) \/ Exchange(w) \/ SetSendOwner(w)
      PROVE  CloseToken'
  BY <1>3 DEF PushBuffer, Exchange, Return, SetSendOwner
<1>4. ASSUME NEW w \in Worker, Drain(w)
      PROVE  CloseToken'
  BY <1>4 DEF Drain, Return
<1>5. ASSUME NEW w \in Worker,
             PostSend(w) \/ (\E e \in SendErrors : PostSendFails(w, e))
      PROVE  CloseToken'
  BY <1>5 DEF PostSend, Return, PostSendFails, CallDisconnect
<1>6. ASSUME NEW w \in Worker,
             SendFailed(w) \/ SendNext(w)
      PROVE  CloseToken'
  BY <1>6 DEF SendFailed, Return, SendNext
<1>7. ASSUME NEW w \in Worker,
             SetRecvOwner(w) \/ PostRecv(w)
             \/ (\E e \in SendErrors : PostRecvFails(w, e)) \/ RecvFailed(w)
      PROVE  CloseToken'
  BY <1>7 DEF SetRecvOwner, PostRecv, PostRecvFails, CallDisconnect, RecvFailed
<1>8. ASSUME NEW w \in Worker,
             (\E valid \in BOOLEAN : FinishRecv(w, valid)) \/ HeartbeatFails(w)
      PROVE  CloseToken'
  BY <1>8 DEF FinishRecv, CallDisconnect, HeartbeatFails
<1>9. ASSUME NEW w \in Worker,
             ExchangeConnected(w) \/ PostDisconnect(w)
      PROVE  CloseToken'
  BY <1>9 DEF ExchangeConnected, PostDisconnect
<1>10. ASSUME NEW w \in Worker,
              UnregisterSession(w) \/ RemoveFromSessionManager(w)
       PROVE  CloseToken'
  BY <1>10 DEF UnregisterSession, RemoveFromSessionManager
<1>11. ASSUME NEW w \in Worker, \E sent \in BOOLEAN : CompleteSend(w, sent)
       PROVE  CloseToken'
  BY <1>11 DEF CompleteSend, CallDisconnect
<1>12. ASSUME NEW w \in Worker, \E got \in BOOLEAN : CompleteRecv(w, got)
       PROVE  CloseToken'
  BY <1>12 DEF CompleteRecv, CallDisconnect
<1>13. ASSUME NEW w \in Worker, CompleteDisconnect(w)
       PROVE  CloseToken'
  BY <1>13 DEF CompleteDisconnect
<1>14. CASE UNCHANGED vars
  BY <1>14 DEF vars
<1>. QED
  BY <1>1, <1>2, <1>3, <1>4, <1>5, <1>6, <1>7, <1>8, <1>9, <1>10, <1>11, <1>12, <1>13, <1>14 DEF Next, Advance, Connecting, Complete

-----------------------------------------------------------------------------
(* The buffers                                                             *)

\* A sequence grows by an element it does not have.
LEMMA AppendFresh ==
  ASSUME NEW S, NEW s \in Seq(S), NEW e \in S, IsInjective(s), e \notin ToSet(s)
  PROVE  /\ Append(s, e) \in Seq(S)
         /\ IsInjective(Append(s, e))
         /\ \A x : x \in ToSet(Append(s, e)) <=> x \in ToSet(s) \/ x = e
<1>. DEFINE r == Append(s, e)
<1>1. PICK n \in Nat : n = Len(s) /\ DOMAIN s = 1 .. n
  OBVIOUS
<1>2. /\ r \in Seq(S) /\ DOMAIN r = 1 .. n + 1
      /\ \A i \in 1 .. n : r[i] = s[i]
      /\ r[n + 1] = e
  BY <1>1, AppendProperties
<1>. HIDE DEF r
<1>3. \A i \in 1 .. n : s[i] # e
  BY <1>1 DEF ToSet
<1>4. IsInjective(r)
  BY <1>1, <1>2, <1>3 DEF IsInjective
<1>5. ASSUME NEW x
      PROVE  x \in ToSet(r) <=> x \in ToSet(s) \/ x = e
  <2>1. x \in ToSet(r) <=> \E i \in 1 .. n + 1 : x = r[i]
    BY <1>2 DEF ToSet
  <2>2. x \in ToSet(s) <=> \E i \in 1 .. n : x = s[i]
    BY <1>1 DEF ToSet
  <2>3. n + 1 \in 1 .. n + 1 /\ \A i : i \in 1 .. n + 1 <=> i \in 1 .. n \/ i = n + 1
    OBVIOUS
  <2>. QED
    BY <1>2, <2>1, <2>2, <2>3
<1>. QED
  BY <1>2, <1>4, <1>5 DEF r

\* The first part of a sequence without repetitions has none.
LEMMA FirstPartInjective ==
  ASSUME NEW S, NEW s \in Seq(S), NEW t \in Seq(S), IsInjective(s \o t)
  PROVE  IsInjective(s)
<1>. DEFINE r == s \o t
<1>1. /\ r \in Seq(S) /\ Len(s) \in Nat /\ Len(t) \in Nat /\ Len(r) = Len(s) + Len(t)
      /\ \A i \in 1 .. Len(s) + Len(t) : r[i] = IF i <= Len(s) THEN s[i] ELSE t[i - Len(s)]
  BY ConcatProperties
<1>2. DOMAIN r = 1 .. Len(r) /\ DOMAIN s = 1 .. Len(s)
  BY <1>1
<1>3. IsInjective(r)
  OBVIOUS
<1>. HIDE DEF r
<1>. QED
  BY <1>1, <1>2, <1>3 DEF IsInjective

LEMMA ConcatThree ==
  ASSUME NEW S, NEW a \in Seq(S), NEW b \in Seq(S), NEW c \in Seq(S)
  PROVE  a \o (b \o c) = (a \o b) \o c
  BY ConcatAssociative, SMTT(30)

\* A buffer is sent to one session once.
LEMMA FreshKept ==
  ASSUME Local, Call, Fresh, RecvToken,
         accepted \in Seq(Msg), IsInjective(accepted), [Next]_vars
  PROVE  Fresh'
<1>. USE DEF Local, Label, Goto, flags, sendVars, places, history, Call, Fresh, Setup, RecvToken, Receiving
<1>1. ASSUME NEW w \in Worker, Connecting(w)
      PROVE  Fresh'
  BY <1>1 DEF Connecting, Establish, RegisterSession, AddToSessionManager
<1>2. ASSUME NEW w \in Worker, OnConnectCompleted(w)
      PROVE  Fresh'
  BY <1>2, HelloAssumption, NoneAssumption DEF OnConnectCompleted, CallSend
<1>3. ASSUME NEW w \in Worker, \E m \in Msg : Send(w, m)
      PROVE  Fresh'
  BY <1>3 DEF Send, CallSend
<1>4. ASSUME NEW w \in Worker, PushBuffer(w)
      PROVE  Fresh'
  <2>1. /\ pc[w] = "push" /\ arg[w] \in Msg /\ arg[w] # None
        /\ accepted' = Append(accepted, arg[w])
        /\ arg' = [arg EXCEPT ![w] = None] /\ pc' = [pc EXCEPT ![w] = "exchange"]
    BY <1>4 DEF PushBuffer
  <2>2. /\ accepted' \in Seq(Msg)
        /\ \A x : x \in ToSet(accepted') <=> x \in ToSet(accepted) \/ x = arg[w]
    BY <2>1, AppendFresh
  <2>3. None \notin ToSet(accepted')
    BY <2>2, NoneAssumption DEF ToSet
  <2>. QED
    BY <2>1, <2>2, <2>3
<1>5. ASSUME NEW w \in Worker,
             Exchange(w) \/ SetSendOwner(w)
      PROVE  Fresh'
  BY <1>5 DEF Exchange, Return, SetSendOwner
<1>6. ASSUME NEW w \in Worker, Drain(w)
      PROVE  Fresh'
  BY <1>6 DEF Drain, Return
<1>7. ASSUME NEW w \in Worker,
             PostSend(w) \/ (\E e \in SendErrors : PostSendFails(w, e))
      PROVE  Fresh'
  BY <1>7 DEF PostSend, Return, PostSendFails, CallDisconnect
<1>8. ASSUME NEW w \in Worker,
             SendFailed(w) \/ SendNext(w)
      PROVE  Fresh'
  BY <1>8 DEF SendFailed, Return, SendNext
<1>9. ASSUME NEW w \in Worker,
             SetRecvOwner(w) \/ PostRecv(w)
             \/ (\E e \in SendErrors : PostRecvFails(w, e)) \/ RecvFailed(w)
      PROVE  Fresh'
  BY <1>9 DEF SetRecvOwner, PostRecv, PostRecvFails, CallDisconnect, RecvFailed
<1>10. ASSUME NEW w \in Worker,
              (\E valid \in BOOLEAN : FinishRecv(w, valid)) \/ HeartbeatFails(w)
       PROVE  Fresh'
  BY <1>10 DEF FinishRecv, CallDisconnect, HeartbeatFails
<1>11. ASSUME NEW w \in Worker,
              ExchangeConnected(w) \/ PostDisconnect(w)
       PROVE  Fresh'
  BY <1>11 DEF ExchangeConnected, PostDisconnect
<1>12. ASSUME NEW w \in Worker,
              UnregisterSession(w) \/ RemoveFromSessionManager(w)
       PROVE  Fresh'
  BY <1>12 DEF UnregisterSession, RemoveFromSessionManager
<1>13. ASSUME NEW w \in Worker, \E sent \in BOOLEAN : CompleteSend(w, sent)
       PROVE  Fresh'
  BY <1>13, SMTT(30) DEF CompleteSend, CallDisconnect
<1>14. ASSUME NEW w \in Worker, \E got \in BOOLEAN : CompleteRecv(w, got)
       PROVE  Fresh'
  BY <1>14 DEF CompleteRecv, CallDisconnect
<1>15. ASSUME NEW w \in Worker, CompleteDisconnect(w)
       PROVE  Fresh'
  BY <1>15 DEF CompleteDisconnect
<1>16. CASE UNCHANGED vars
  BY <1>16 DEF vars
<1>. QED
  BY <1>1, <1>2, <1>3, <1>4, <1>5, <1>6, <1>7, <1>8, <1>9, <1>10, <1>11, <1>12, <1>13, <1>14, <1>15, <1>16 DEF Next, Advance, Connecting, Complete

\* Buffers move from the queue to the event to the kernel, whole and in order.
LEMMA BuffersKept ==
  ASSUME Local, Call, Fresh, Buffers, [Next]_vars
  PROVE  Buffers'
<1>. USE DEF Local, Call, Fresh, Buffers, InOrderOnce, sendVars, history
<1>1. ASSUME NEW w \in Worker, Connecting(w)
      PROVE  Buffers'
  BY <1>1 DEF Connecting, Establish, RegisterSession, AddToSessionManager
<1>2. ASSUME NEW w \in Worker,
             OnConnectCompleted(w) \/ (\E m \in Msg : Send(w, m))
      PROVE  Buffers'
  BY <1>2 DEF OnConnectCompleted, CallSend, Send
<1>3. ASSUME NEW w \in Worker, PushBuffer(w)
      PROVE  Buffers'
  <2>1. /\ pc[w] = "push" /\ arg[w] \in Msg /\ arg[w] \notin ToSet(accepted)
        /\ accepted' = Append(accepted, arg[w]) /\ queue' = Append(queue, arg[w])
        /\ UNCHANGED <<ended, inFlight>>
    BY <1>3 DEF PushBuffer
  <2>2. accepted' \in Seq(Msg) /\ IsInjective(accepted') /\ queue' \in Seq(Msg)
    BY <2>1, AppendFresh, AppendProperties
  <2>3. accepted' = accepted \o <<arg[w]>> /\ queue' = queue \o <<arg[w]>>
    BY <2>1, AppendIsConcat
  <2>4. (ended \o inFlight) \o (queue \o <<arg[w]>>) = ((ended \o inFlight) \o queue) \o <<arg[w]>>
    <3>1. ended \o inFlight \in Seq(Msg) /\ <<arg[w]>> \in Seq(Msg)
      BY <2>1, ConcatProperties
    <3>2. ended \in Seq(Msg) /\ inFlight \in Seq(Msg) /\ queue \in Seq(Msg)
      OBVIOUS
    <3>. QED
      BY ONLY <3>1, <3>2, ConcatThree
  <2>. QED
    BY <2>1, <2>2, <2>3, <2>4
<1>4. ASSUME NEW w \in Worker,
             Exchange(w) \/ SetSendOwner(w)
      PROVE  Buffers'
  BY <1>4 DEF Exchange, Return, SetSendOwner
<1>5. ASSUME NEW w \in Worker, Drain(w)
      PROVE  Buffers'
  <2>1. UNCHANGED <<accepted, ended>> /\ queue' = <<>>
    BY <1>5 DEF Drain
  <2>2. CASE queue = <<>>
    BY <1>5, <2>1, <2>2 DEF Drain
  <2>3. CASE queue # <<>>
    <3>1. inFlight' = inFlight \o queue
      BY <1>5, <2>3 DEF Drain
    <3>2. inFlight' \in Seq(Msg) /\ ended \o inFlight' \in Seq(Msg)
      BY <3>1, ConcatProperties
    <3>3. (ended \o inFlight') \o <<>> = ended \o (inFlight \o queue)
      <4>1. PICK r \in Seq(Msg) : r = ended \o inFlight'
        BY <3>2
      <4>2. r \o <<>> = r
        BY ConcatEmptySeq
      <4>. QED
        BY <3>1, <4>1, <4>2
    <3>4. ended \o (inFlight \o queue) = (ended \o inFlight) \o queue
      <4>1. ended \in Seq(Msg) /\ inFlight \in Seq(Msg) /\ queue \in Seq(Msg)
        OBVIOUS
      <4>. QED
        BY ONLY <4>1, ConcatThree
    <3>5. accepted' = (ended' \o inFlight') \o queue'
      <4>1. accepted = (ended \o inFlight) \o queue
        OBVIOUS
      <4>. QED
        BY ONLY <2>1, <3>3, <3>4, <4>1
    <3>6. queue' \in Seq(Msg) /\ inFlight' \in Seq(Msg)
      BY <2>1, <3>2
    <3>. QED
      BY <2>1, <3>5, <3>6
  <2>. QED
    BY <2>2, <2>3
<1>6. ASSUME NEW w \in Worker,
             PostSend(w) \/ (\E e \in SendErrors : PostSendFails(w, e))
      PROVE  Buffers'
  BY <1>6 DEF PostSend, Return, PostSendFails, CallDisconnect
<1>7. ASSUME NEW w \in Worker, SendFailed(w)
      PROVE  Buffers'
  <2>1. /\ UNCHANGED <<accepted, queue>> /\ inFlight' = <<>> /\ ended' = ended \o inFlight
    BY <1>7 DEF SendFailed
  <2>2. ended' \in Seq(Msg) /\ ended' \o <<>> = ended'
    BY <2>1, ConcatProperties, ConcatEmptySeq
  <2>. QED
    BY <2>1, <2>2
<1>8. ASSUME NEW w \in Worker, SendNext(w)
      PROVE  Buffers'
  BY <1>8 DEF SendNext
<1>9. ASSUME NEW w \in Worker,
             SetRecvOwner(w) \/ PostRecv(w)
             \/ (\E e \in SendErrors : PostRecvFails(w, e)) \/ RecvFailed(w)
      PROVE  Buffers'
  BY <1>9 DEF SetRecvOwner, PostRecv, PostRecvFails, CallDisconnect, RecvFailed
<1>10. ASSUME NEW w \in Worker,
              (\E valid \in BOOLEAN : FinishRecv(w, valid)) \/ HeartbeatFails(w)
       PROVE  Buffers'
  BY <1>10 DEF FinishRecv, CallDisconnect, HeartbeatFails
<1>11. ASSUME NEW w \in Worker,
              ExchangeConnected(w) \/ PostDisconnect(w)
       PROVE  Buffers'
  BY <1>11 DEF ExchangeConnected, PostDisconnect
<1>12. ASSUME NEW w \in Worker,
              UnregisterSession(w) \/ RemoveFromSessionManager(w)
       PROVE  Buffers'
  BY <1>12 DEF UnregisterSession, RemoveFromSessionManager
<1>13. ASSUME NEW w \in Worker, \E sent \in BOOLEAN : CompleteSend(w, sent)
       PROVE  Buffers'
  <2>1. /\ UNCHANGED <<accepted, queue>> /\ inFlight' = <<>> /\ ended' = ended \o inFlight
    BY <1>13 DEF CompleteSend
  <2>2. ended' \in Seq(Msg) /\ ended' \o <<>> = ended'
    BY <2>1, ConcatProperties, ConcatEmptySeq
  <2>. QED
    BY <2>1, <2>2
<1>14. ASSUME NEW w \in Worker, \E got \in BOOLEAN : CompleteRecv(w, got)
       PROVE  Buffers'
  BY <1>14 DEF CompleteRecv, CallDisconnect
<1>15. ASSUME NEW w \in Worker, CompleteDisconnect(w)
       PROVE  Buffers'
  BY <1>15 DEF CompleteDisconnect
<1>16. CASE UNCHANGED vars
  BY <1>16 DEF vars
<1>. QED
  BY <1>1, <1>2, <1>3, <1>4, <1>5, <1>6, <1>7, <1>8, <1>9, <1>10, <1>11, <1>12, <1>13, <1>14, <1>15, <1>16 DEF Next, Advance, Connecting, Complete

\* The locals and the flags keep their types.
LEMMA LocalKept ==
  ASSUME Local, Buffers, [Next]_vars
  PROVE  Local'
<1>. USE DEF Local, Label, Event, Goto, flags, sendVars, places, history
<1>1. ASSUME NEW w \in Worker, Connecting(w)
      PROVE  Local'
  BY <1>1 DEF Connecting, Establish, RegisterSession, AddToSessionManager
<1>2. ASSUME NEW w \in Worker, OnConnectCompleted(w)
      PROVE  Local'
  BY <1>2, HelloAssumption DEF OnConnectCompleted, CallSend
<1>3. ASSUME NEW w \in Worker, \E m \in Msg : Send(w, m)
      PROVE  Local'
  BY <1>3 DEF Send, CallSend
<1>4. ASSUME NEW w \in Worker,
             PushBuffer(w) \/ Exchange(w) \/ SetSendOwner(w)
      PROVE  Local'
  <2>1. pc' \in [Worker -> Label]
    BY <1>4 DEF PushBuffer, Exchange, Return, SetSendOwner
  <2>2. dret' \in [Worker -> {"idle", "sendFailed", "recvFailed"}] /\ ret' = ret
    BY <1>4 DEF PushBuffer, Exchange, Return, SetSendOwner
  <2>3. arg' \in [Worker -> Msg \cup {None}]
    BY <1>4 DEF PushBuffer, Exchange, Return, SetSendOwner
  <2>. HIDE DEF Label
  <2>. QED
    BY <1>4, <2>1, <2>2, <2>3 DEF PushBuffer, Exchange, Return, SetSendOwner
<1>5. ASSUME NEW w \in Worker, Drain(w)
      PROVE  Local'
  BY <1>5 DEF Drain, Return
<1>6. ASSUME NEW w \in Worker,
             PostSend(w) \/ (\E e \in SendErrors : PostSendFails(w, e))
      PROVE  Local'
  <2>1. pc' \in [Worker -> Label]
    BY <1>6 DEF PostSend, Return, PostSendFails, CallDisconnect
  <2>2. dret' \in [Worker -> {"idle", "sendFailed", "recvFailed"}] /\ ret' = ret
    BY <1>6 DEF PostSend, Return, PostSendFails, CallDisconnect
  <2>3. arg' \in [Worker -> Msg \cup {None}]
    BY <1>6 DEF PostSend, Return, PostSendFails, CallDisconnect
  <2>. HIDE DEF Label
  <2>. QED
    BY <1>6, <2>1, <2>2, <2>3 DEF PostSend, Return, PostSendFails, CallDisconnect
<1>7. ASSUME NEW w \in Worker,
             SendFailed(w) \/ SendNext(w)
      PROVE  Local'
  <2>1. pc' \in [Worker -> Label]
    BY <1>7 DEF SendFailed, Return, SendNext
  <2>2. dret' \in [Worker -> {"idle", "sendFailed", "recvFailed"}] /\ ret' = ret
    BY <1>7 DEF SendFailed, Return, SendNext
  <2>3. arg' \in [Worker -> Msg \cup {None}]
    BY <1>7 DEF SendFailed, Return, SendNext
  <2>. HIDE DEF Label
  <2>. QED
    BY <1>7, <2>1, <2>2, <2>3 DEF SendFailed, Return, SendNext
<1>8. ASSUME NEW w \in Worker,
             SetRecvOwner(w) \/ PostRecv(w)
             \/ (\E e \in SendErrors : PostRecvFails(w, e)) \/ RecvFailed(w)
      PROVE  Local'
  <2>1. pc' \in [Worker -> Label]
    BY <1>8 DEF SetRecvOwner, PostRecv, PostRecvFails, CallDisconnect, RecvFailed
  <2>2. dret' \in [Worker -> {"idle", "sendFailed", "recvFailed"}] /\ ret' = ret
    BY <1>8 DEF SetRecvOwner, PostRecv, PostRecvFails, CallDisconnect, RecvFailed
  <2>3. arg' \in [Worker -> Msg \cup {None}]
    BY <1>8 DEF SetRecvOwner, PostRecv, PostRecvFails, CallDisconnect, RecvFailed
  <2>. HIDE DEF Label
  <2>. QED
    BY <1>8, <2>1, <2>2, <2>3 DEF SetRecvOwner, PostRecv, PostRecvFails, CallDisconnect, RecvFailed
<1>9. ASSUME NEW w \in Worker,
             (\E valid \in BOOLEAN : FinishRecv(w, valid)) \/ HeartbeatFails(w)
      PROVE  Local'
  <2>1. pc' \in [Worker -> Label]
    BY <1>9 DEF FinishRecv, CallDisconnect, HeartbeatFails
  <2>2. dret' \in [Worker -> {"idle", "sendFailed", "recvFailed"}] /\ ret' = ret
    BY <1>9 DEF FinishRecv, CallDisconnect, HeartbeatFails
  <2>3. arg' \in [Worker -> Msg \cup {None}]
    BY <1>9 DEF FinishRecv, CallDisconnect, HeartbeatFails
  <2>. HIDE DEF Label
  <2>. QED
    BY <1>9, <2>1, <2>2, <2>3 DEF FinishRecv, CallDisconnect, HeartbeatFails
<1>10. ASSUME NEW w \in Worker,
              ExchangeConnected(w) \/ PostDisconnect(w)
       PROVE  Local'
  <2>1. pc' \in [Worker -> Label]
    BY <1>10 DEF ExchangeConnected, PostDisconnect
  <2>2. dret' \in [Worker -> {"idle", "sendFailed", "recvFailed"}] /\ ret' = ret
    BY <1>10 DEF ExchangeConnected, PostDisconnect
  <2>3. arg' \in [Worker -> Msg \cup {None}]
    BY <1>10 DEF ExchangeConnected, PostDisconnect
  <2>. HIDE DEF Label
  <2>. QED
    BY <1>10, <2>1, <2>2, <2>3 DEF ExchangeConnected, PostDisconnect
<1>11. ASSUME NEW w \in Worker,
              UnregisterSession(w) \/ RemoveFromSessionManager(w)
       PROVE  Local'
  BY <1>11 DEF UnregisterSession, RemoveFromSessionManager
<1>12. ASSUME NEW w \in Worker, \E sent \in BOOLEAN : CompleteSend(w, sent)
       PROVE  Local'
  <2>1. ToSet(inFlight) \subseteq Msg
    BY DEF ToSet, Buffers
  <2>2. /\ UNCHANGED <<connected, registered, inService, inManager, recvOwner, arg>>
        /\ sendOwner' = FALSE /\ io' = io \ {"send"}
        /\ ret' = [ret EXCEPT ![w] = "idle"]
        /\ delivered' \in {delivered, delivered \cup ToSet(inFlight)}
        /\ \/ pc' = [pc EXCEPT ![w] = "sendNext"] /\ dret' = dret
           \/ /\ pc' = [pc EXCEPT ![w] = "disconnect"]
              /\ dret' = [dret EXCEPT ![w] = "idle"]
    BY <1>12 DEF CompleteSend, CallDisconnect
  <2>. QED
    BY <2>1, <2>2
<1>13. ASSUME NEW w \in Worker, \E got \in BOOLEAN : CompleteRecv(w, got)
       PROVE  Local'
  BY <1>13 DEF CompleteRecv, CallDisconnect
<1>14. ASSUME NEW w \in Worker, CompleteDisconnect(w)
       PROVE  Local'
  BY <1>14 DEF CompleteDisconnect
<1>15. CASE UNCHANGED vars
  BY <1>15 DEF vars
<1>. QED
  BY <1>1, <1>2, <1>3, <1>4, <1>5, <1>6, <1>7, <1>8, <1>9, <1>10, <1>11, <1>12, <1>13, <1>14, <1>15 DEF Next, Advance, Connecting, Complete

-----------------------------------------------------------------------------
(* The invariant                                                           *)

\* The three tokens are where they belong in a session that is being accepted
\* (Session.cpp:155-163).
THEOREM InitInv == Init => IInv
<1>. SUFFICES ASSUME Init PROVE IInv
  OBVIOUS
<1>. USE DEF Init
<1>1. Local
  BY AcceptorAssumption DEF Local, Label, Event
<1>2. Buffers
  <2>1. <<>> \in Seq(Msg) /\ <<>> = (<<>> \o <<>>) \o <<>>
    OBVIOUS
  <2>. QED
    BY <2>1 DEF Buffers, InOrderOnce, IsInjective
<1>3. Call /\ SetUpAlone /\ CloseToken
  BY DEF Call, SetUpAlone, Setup, CloseToken, Closing
<1>4. SendToken /\ RecvToken
  BY DEF SendToken, Sending, RecvToken, Receiving, InSend
<1>5. Fresh
  BY HelloAssumption, NoneAssumption DEF Fresh, ToSet
<1>. QED
  BY <1>1, <1>2, <1>3, <1>4, <1>5 DEF IInv

\* Every access to a flag, the queue or an event, and every completion or failure
\* of the kernel, moves a token or leaves it (Session.cpp:18-328).
THEOREM NextInv == IInv /\ [Next]_vars => IInv'
  BY LocalKept, BuffersKept, CallKept, SetUpKept, SendTokenKept, RecvTokenKept,
     CloseTokenKept, FreshKept DEF IInv, Buffers

\* Whatever the workers and the kernel do, the tokens are where IInv says.
THEOREM Invariance == Spec => []IInv
  BY InitInv, NextInv, PTL DEF Spec

-----------------------------------------------------------------------------
(* What the invariant gives                                                *)

\* Every variable of a session keeps its type, and no buffer is pushed or
\* handed to the kernel twice (Session.cpp:19-33, 244-251).
THEOREM TypeCorrect == Spec => []TypeOK
<1>1. IInv => TypeOK
  <2>. SUFFICES ASSUME IInv PROVE TypeOK
    OBVIOUS
  <2>. USE DEF IInv, Local, Buffers, InOrderOnce
  <2>1. ended \o inFlight \in Seq(Msg)
    BY ConcatProperties
  <2>2. IsInjective(ended)
    BY <2>1, FirstPartInjective
  <2>. QED
    BY <2>2 DEF TypeOK
<1>. QED
  BY <1>1, Invariance, PTL

\* _send_registered is held by exactly one worker or pending WSASend while the
\* session lives, and by none when it is clear (Session.cpp:29, 236-282): the
\* one _send_event is never given to two sends.
THEOREM SendTokenUnique == Spec => []OneSendToken
<1>1. ASSUME IInv
      PROVE  OneSendToken
  <2>. DEFINE W == {w \in Worker : Sending(w)}
  <2>. USE <1>1 DEF IInv, SendToken
  <2>1. Tokens = Cardinality(W) + (IF "send" \in io THEN 1 ELSE 0)
    BY DEF Tokens
  <2>2. CASE W = {}
    <3>1. Cardinality(W) = 0
      BY <2>2, FS_EmptySet
    <3>. HIDE DEF W
    <3>2. Tokens = IF "send" \in io THEN 1 ELSE 0
      BY <2>1, <3>1
    <3>3. \A w \in Worker : ~Sending(w)
      BY <2>2 DEF W
    <3>. QED
      BY <3>2, <3>3 DEF OneSendToken
  <2>3. CASE W # {}
    <3>1. PICK w \in Worker : Sending(w)
      BY <2>3
    <3>2. W = {w} /\ registered /\ "send" \notin io
      BY <3>1
    <3>3. Cardinality(W) = 1
      BY <3>2, FS_Singleton
    <3>. HIDE DEF W
    <3>. QED
      BY <2>1, <3>2, <3>3 DEF OneSendToken
  <2>. QED
    BY <2>2, <2>3
<1>. QED
  BY <1>1, Invariance, PTL

\* Dispatch finds an owner in every event that completes (IocpCore.cpp:32),
\* although several workers clear owners on their own.
THEOREM OwnerWhilePending == Spec => []OwnedWhilePending
<1>1. IInv => OwnedWhilePending
  BY DEF IInv, OwnedWhilePending, SendToken, RecvToken
<1>. QED
  BY <1>1, Invariance, PTL

\* Buffers go out in the order in which Send pushed them, each in one WSASend.
THEOREM SentInOrderOnce == Spec => []InOrderOnce
<1>1. IInv => InOrderOnce
  BY DEF IInv, Buffers
<1>. QED
  BY <1>1, Invariance, PTL

\* UnregisterSession finds the session it asserts (Service.cpp:48), and runs once.
THEOREM UnregisteredOnce == Spec => []UnregistersOnce
<1>1. IInv => UnregistersOnce
  BY DEF IInv, UnregistersOnce, CloseToken, Closing
<1>. QED
  BY <1>1, Invariance, PTL

-----------------------------------------------------------------------------
(* The receive buffer                                                      *)

LEMMA SetInduction ==
  ASSUME NEW S, 0 \in S, \A n \in Nat : n \in S => n + 1 \in S
  PROVE  Nat \subseteq S
<1> SUFFICES ASSUME NEW x \in Nat, x \notin S
             PROVE  FALSE
  OBVIOUS
<1> DEFINE Missing == {n \in 0..x : n \notin S}
           pred == [n \in Missing |-> n - 1]
<1>1. \A n \in Missing : n - 1 \in Missing
  <2> SUFFICES ASSUME NEW n \in Missing
               PROVE  n - 1 \in Missing
    OBVIOUS
  <2>1. n \in Nat /\ n # 0 /\ n <= x
    OBVIOUS
  <2>2. n - 1 \in Nat /\ (n - 1) + 1 = n /\ n - 1 \in 0..x
    BY <2>1
  <2> QED BY <2>2
<1>2. pred \in Injection(Missing, Missing)
  <2>1. pred \in [Missing -> Missing]
    BY <1>1
  <2>2. \A m, n \in Missing : pred[m] = pred[n] => m = n
    OBVIOUS
  <2> QED BY <2>1, <2>2 DEF Injection, IsInjective
<1>3. IsFiniteSet(Missing)
  <2>1. IsFiniteSet(0..x) /\ Missing \subseteq 0..x
    BY FS_Interval
  <2> QED BY <2>1, FS_Subset
<1>4. pred \in Surjection(Missing, Missing)
  BY <1>2, <1>3, FS_Injection
<1>5. PICK n \in Missing : pred[n] = x
  <2>1. x \in Missing
    OBVIOUS
  <2> HIDE DEF Missing
  <2>2. \A a \in Missing : \E n \in Missing : pred[n] = a
    BY <1>4 DEF Surjection
  <2> QED BY <2>1, <2>2
<1> QED BY <1>5

-----------------------------------------------------------------------------
(* The stream                                                              *)

Stream == sizes \in [Packet -> Sizes]

LEMMA SizesAreSizes ==
  ASSUME Stream
  PROVE  \A k \in Packet : sizes[k] \in Nat /\ sizes[k] >= HeaderSize /\ sizes[k] > 0
BY SizesAssumption DEF Stream

LEMMA StartExists ==
  ASSUME Stream
  PROVE  \E f : f = [k \in 1..PacketCount + 1 |-> IF k = 1 THEN 1 ELSE f[k - 1] + sizes[k - 1]]
<1> DEFINE First(f, n) == f = [k \in 1..n + 1 |-> IF k = 1 THEN 1 ELSE f[k - 1] + sizes[k - 1]]
           S == {n \in Nat : \E f : First(f, n)}
<1>1. 0 \in S
  <2>1. First([k \in {1} |-> 1], 0)
    OBVIOUS
  <2> QED BY <2>1
<1>2. ASSUME NEW n \in Nat, n \in S
      PROVE  n + 1 \in S
  <2>1. PICK f : First(f, n)
    BY <1>2
  <2> DEFINE g == [k \in 1..n + 2 |-> IF k = 1 THEN 1 ELSE f[k - 1] + sizes[k - 1]]
  <2>2. \A k \in 1..n + 1 : g[k] = f[k]
    BY <2>1
  <2>3. \A k \in 1..n + 2 : k # 1 => g[k] = g[k - 1] + sizes[k - 1]
    <3> SUFFICES ASSUME NEW k \in 1..n + 2, k # 1
                 PROVE  g[k] = g[k - 1] + sizes[k - 1]
      OBVIOUS
    <3>1. k - 1 \in 1..n + 1 /\ g[k] = f[k - 1] + sizes[k - 1]
      OBVIOUS
    <3> HIDE DEF g
    <3> QED BY <2>2, <3>1
  <2>4. First(g, n + 1)
    <3>1. (n + 1) + 1 = n + 2
      OBVIOUS
    <3>2. g = [k \in 1..n + 2 |-> IF k = 1 THEN 1 ELSE g[k - 1] + sizes[k - 1]]
      BY <2>3
    <3> HIDE DEF g
    <3> QED BY <3>1, <3>2
  <2> HIDE DEF g
  <2> QED BY <2>4
<1> HIDE DEF First
<1>3. PacketCount \in S
  <2>1. \A n \in Nat : n \in S => n + 1 \in S
    BY <1>2
  <2> HIDE DEF S
  <2> QED BY <1>1, <2>1, SetInduction, CountAssumption
<1>4. PICK f : First(f, PacketCount)
  BY <1>3
<1> QED BY <1>4 DEF First

LEMMA StartRule ==
  ASSUME Stream
  PROVE  StartOf = [k \in 1..PacketCount + 1 |-> IF k = 1 THEN 1 ELSE StartOf[k - 1] + sizes[k - 1]]
<1> DEFINE Rule(f) == f = [k \in 1..PacketCount + 1 |-> IF k = 1 THEN 1 ELSE f[k - 1] + sizes[k - 1]]
<1>1. \E f : Rule(f)
  BY StartExists
<1>2. StartOf = CHOOSE f : Rule(f)
  BY DEF StartOf
<1> HIDE DEF Rule
<1>3. Rule(StartOf)
  BY <1>1, <1>2
<1> QED BY <1>3 DEF Rule

LEMMA StartTypes ==
  ASSUME Stream
  PROVE  /\ StartOf[1] = 1
         /\ \A k \in 1..PacketCount + 1 : StartOf[k] \in Nat
         /\ \A k \in Packet : StartOf[k + 1] = StartOf[k] + sizes[k]
<1>1. PacketCount \in Nat
  BY CountAssumption
<1>2. StartOf[1] = 1
  BY <1>1, StartRule
<1>3. \A k \in Packet : StartOf[k + 1] = StartOf[k] + sizes[k]
  <2> SUFFICES ASSUME NEW k \in Packet
               PROVE  StartOf[k + 1] = StartOf[k] + sizes[k]
    OBVIOUS
  <2>1. k \in Nat /\ k + 1 \in 1..PacketCount + 1 /\ k + 1 # 1 /\ (k + 1) - 1 = k
    BY <1>1 DEF Packet
  <2> QED BY <2>1, StartRule
<1>4. \A k \in 1..PacketCount + 1 : StartOf[k] \in Nat
  <2> DEFINE S == {n \in Nat : n <= PacketCount => StartOf[n + 1] \in Nat}
  <2>1. 0 \in S
    BY <1>2
  <2>2. ASSUME NEW n \in Nat, n \in S
        PROVE  n + 1 \in S
    <3> SUFFICES ASSUME n + 1 <= PacketCount
                 PROVE  StartOf[(n + 1) + 1] \in Nat
      OBVIOUS
    <3>1. n + 1 \in Packet /\ n <= PacketCount
      BY <1>1 DEF Packet
    <3>2. StartOf[n + 1] \in Nat
      BY <2>2, <3>1
    <3>3. sizes[n + 1] \in Nat
      BY <3>1, SizesAreSizes
    <3> QED BY <1>3, <3>1, <3>2, <3>3
  <2>3. Nat \subseteq S
    <3>1. \A n \in Nat : n \in S => n + 1 \in S
      BY <2>2
    <3> HIDE DEF S
    <3> QED BY <2>1, <3>1, SetInduction
  <2> SUFFICES ASSUME NEW k \in 1..PacketCount + 1
               PROVE  StartOf[k] \in Nat
    OBVIOUS
  <2>4. k - 1 \in Nat /\ k - 1 <= PacketCount /\ (k - 1) + 1 = k
    BY <1>1
  <2> QED BY <2>3, <2>4
<1> QED BY <1>2, <1>3, <1>4

LEMMA StartIncreases ==
  ASSUME Stream
  PROVE  \A j, k \in 1..PacketCount + 1 : j < k => StartOf[j] < StartOf[k]
<1>1. PacketCount \in Nat
  BY CountAssumption
<1> SUFFICES ASSUME NEW j \in 1..PacketCount + 1
             PROVE  \A k \in 1..PacketCount + 1 : j < k => StartOf[j] < StartOf[k]
  OBVIOUS
<1> DEFINE S == {n \in Nat : j + n + 1 <= PacketCount + 1 => StartOf[j] < StartOf[j + n + 1]}
<1>2. \A k \in Packet : StartOf[k] \in Nat /\ StartOf[k + 1] \in Nat /\ StartOf[k] < StartOf[k + 1]
  <2> SUFFICES ASSUME NEW k \in Packet
               PROVE  StartOf[k] \in Nat /\ StartOf[k + 1] \in Nat /\ StartOf[k] < StartOf[k + 1]
    OBVIOUS
  <2>1. k \in 1..PacketCount + 1 /\ k + 1 \in 1..PacketCount + 1
    BY <1>1 DEF Packet
  <2>2. sizes[k] \in Nat /\ sizes[k] > 0
    BY SizesAreSizes
  <2>3. StartOf[k] \in Nat /\ StartOf[k + 1] \in Nat /\ StartOf[k + 1] = StartOf[k] + sizes[k]
    BY <2>1, StartTypes
  <2> QED BY <2>2, <2>3
<1>3. 0 \in S
  <2> SUFFICES ASSUME j + 1 <= PacketCount + 1
               PROVE  StartOf[j] < StartOf[j + 0 + 1]
    OBVIOUS
  <2>1. j \in Packet /\ j + 0 + 1 = j + 1
    BY <1>1 DEF Packet
  <2> QED BY <1>2, <2>1
<1>4. ASSUME NEW n \in Nat, n \in S
      PROVE  n + 1 \in S
  <2> SUFFICES ASSUME j + (n + 1) + 1 <= PacketCount + 1
               PROVE  StartOf[j] < StartOf[j + (n + 1) + 1]
    OBVIOUS
  <2>1. j + n + 1 \in Packet /\ j + (n + 1) + 1 = (j + n + 1) + 1 /\ j + n + 1 <= PacketCount + 1
    BY <1>1 DEF Packet
  <2>2. StartOf[j] < StartOf[j + n + 1]
    BY <1>4, <2>1
  <2>3. StartOf[j] \in Nat
    BY StartTypes
  <2>4. /\ StartOf[j + n + 1] \in Nat /\ StartOf[(j + n + 1) + 1] \in Nat
        /\ StartOf[j + n + 1] < StartOf[(j + n + 1) + 1]
    BY <1>2, <2>1
  <2> QED BY <2>1, <2>2, <2>3, <2>4
<1>5. Nat \subseteq S
  <2>1. \A n \in Nat : n \in S => n + 1 \in S
    BY <1>4
  <2> HIDE DEF S
  <2> QED BY <1>3, <2>1, SetInduction
<1> SUFFICES ASSUME NEW k \in 1..PacketCount + 1, j < k
             PROVE  StartOf[j] < StartOf[k]
  OBVIOUS
<1>6. k - j - 1 \in Nat /\ j + (k - j - 1) + 1 = k
  OBVIOUS
<1>7. k - j - 1 \in S
  BY <1>5, <1>6
<1> QED BY <1>1, <1>6, <1>7

LEMMA StreamEnd ==
  ASSUME Stream
  PROVE  StreamSize \in Nat /\ StartOf[PacketCount + 1] = StreamSize + 1
<1>1. PacketCount + 1 \in 1..PacketCount + 1 /\ 1 \in 1..PacketCount + 1
  BY CountAssumption
<1>2. StartOf[PacketCount + 1] \in Nat /\ StartOf[1] = 1
  BY <1>1, StartTypes
<1>3. PacketCount + 1 = 1 \/ StartOf[1] < StartOf[PacketCount + 1]
  BY <1>1, StartIncreases, CountAssumption
<1> QED BY <1>2, <1>3 DEF StreamSize

-----------------------------------------------------------------------------
(* The parser                                                              *)

LEMMA HeaderFound ==
  ASSUME Stream, NEW k \in Packet, NEW b, NEW i \in Nat,
         \A d \in 0..HeaderSize - 1 : b[i + d] = StartOf[k] + d
  PROVE  PacketAt(b, i) = k /\ SizeAt(b, i) = sizes[k]
<1>1. PacketCount \in Nat /\ HeaderSize \in Nat /\ HeaderSize > 0
  BY CountAssumption, SizesAssumption
<1>2. b[i] = StartOf[k]
  <2>1. 0 \in 0..HeaderSize - 1 /\ i + 0 = i
    BY <1>1
  <2>2. StartOf[k] \in Nat
    BY <1>1, StartTypes DEF Packet
  <2> QED BY <2>1, <2>2
<1>3. \A j \in Packet : b[i] = StartOf[j] => j = k
  <2> SUFFICES ASSUME NEW j \in Packet, StartOf[j] = StartOf[k]
               PROVE  j = k
    BY <1>2
  <2>1. j \in 1..PacketCount + 1 /\ k \in 1..PacketCount + 1
    BY <1>1 DEF Packet
  <2>2. StartOf[j] \in Nat /\ StartOf[k] \in Nat
    BY <2>1, StartTypes
  <2>3. (j < k => StartOf[j] < StartOf[k]) /\ (k < j => StartOf[k] < StartOf[j])
    BY <2>1, StartIncreases
  <2> QED BY <1>1, <2>1, <2>2, <2>3
<1>4. PacketAt(b, i) = CHOOSE j \in Packet : b[i] = StartOf[j]
  BY DEF PacketAt
<1>5. PacketAt(b, i) = k
  BY <1>2, <1>3, <1>4
<1>6. k # 0
  BY <1>1 DEF Packet
<1> QED BY <1>5, <1>6 DEF SizeAt

LEMMA SizeIsPositive ==
  ASSUME Stream, NEW b, NEW i \in Nat
  PROVE  SizeAt(b, i) \in Nat /\ SizeAt(b, i) > 0
<1>1. PacketAt(b, i) = 0 \/ PacketAt(b, i) \in Packet
  <2>1. CASE \E k \in Packet : \A d \in 0..HeaderSize - 1 : b[i + d] = StartOf[k] + d
    <3> PICK k \in Packet : \A d \in 0..HeaderSize - 1 : b[i + d] = StartOf[k] + d
      BY <2>1
    <3> QED BY HeaderFound
  <2> QED BY <2>1 DEF PacketAt
<1> QED BY <1>1, SizesAreSizes, SizesAssumption DEF SizeAt

LoopStops(b, at, length, p) == length - p < HeaderSize \/ length - p < SizeAt(b, at + p)
LoopFrom(b, at, length, f, p) ==
  IF LoopStops(b, at, length, p)
    THEN [packets |-> <<>>, length |-> p]
    ELSE LET rest == f[p + SizeAt(b, at + p)]
         IN  [packets |-> <<PacketAt(b, at + p)>> \o rest.packets, length |-> rest.length]

LEMMA LoopExists ==
  ASSUME Stream, NEW b, NEW at \in Nat, NEW length \in Nat
  PROVE  \E f : f = [p \in 0..length |-> LoopFrom(b, at, length, f, p)]
<1> DEFINE Ends(f, n) == f = [p \in length - n..length |-> LoopFrom(b, at, length, f, p)]
           S == {n \in Nat : n <= length => \E f : Ends(f, n)}
<1>1. ASSUME NEW p \in 0..length, ~ LoopStops(b, at, length, p)
      PROVE  p + SizeAt(b, at + p) \in p + 1..length
  <2>1. at + p \in Nat
    OBVIOUS
  <2>2. SizeAt(b, at + p) \in Nat /\ SizeAt(b, at + p) > 0
    BY <2>1, SizeIsPositive
  <2>3. ~ (length - p < SizeAt(b, at + p))
    BY <1>1 DEF LoopStops
  <2> QED BY <2>2, <2>3
<1>2. 0 \in S
  <2>1. LoopStops(b, at, length, length)
    BY SizesAssumption DEF LoopStops
  <2> DEFINE f == [p \in length..length |-> [packets |-> <<>>, length |-> length]]
  <2>2. \A p \in length..length : p = length /\ LoopFrom(b, at, length, f, p) = [packets |-> <<>>, length |-> length]
    BY <2>1 DEF LoopFrom
  <2>3. f = [p \in length..length |-> LoopFrom(b, at, length, f, p)]
    BY <2>2
  <2>4. length - 0 = length
    OBVIOUS
  <2> HIDE DEF f
  <2>5. Ends(f, 0)
    BY <2>3, <2>4
  <2> QED BY <2>5
<1>3. ASSUME NEW n \in Nat, n \in S
      PROVE  n + 1 \in S
  <2> SUFFICES ASSUME n + 1 <= length
               PROVE  \E f : Ends(f, n + 1)
    OBVIOUS
  <2>1. PICK f : Ends(f, n)
    BY <1>3
  <2> DEFINE g == [p \in length - (n + 1)..length |-> LoopFrom(b, at, length, f, p)]
  <2>2. \A p \in length - n..length : g[p] = f[p]
    <3> SUFFICES ASSUME NEW p \in length - n..length
                 PROVE  g[p] = f[p]
      OBVIOUS
    <3>1. p \in length - (n + 1)..length
      OBVIOUS
    <3>2. g[p] = LoopFrom(b, at, length, f, p)
      BY <3>1
    <3> QED BY <2>1, <3>2
  <2>3. \A p \in length - (n + 1)..length : LoopFrom(b, at, length, f, p) = LoopFrom(b, at, length, g, p)
    <3> SUFFICES ASSUME NEW p \in length - (n + 1)..length
                 PROVE  LoopFrom(b, at, length, f, p) = LoopFrom(b, at, length, g, p)
      OBVIOUS
    <3> HIDE DEF g
    <3>1. CASE LoopStops(b, at, length, p)
      BY <3>1 DEF LoopFrom
    <3>2. CASE ~ LoopStops(b, at, length, p)
      <4>1. p \in 0..length
        OBVIOUS
      <4>2. p + SizeAt(b, at + p) \in p + 1..length
        BY <1>1, <3>2, <4>1
      <4>3. p + SizeAt(b, at + p) \in length - n..length
        BY <4>1, <4>2
      <4>4. g[p + SizeAt(b, at + p)] = f[p + SizeAt(b, at + p)]
        BY <2>2, <4>3
      <4> QED BY <3>2, <4>4 DEF LoopFrom
    <3> QED BY <3>1, <3>2
  <2>4. g = [p \in length - (n + 1)..length |-> LoopFrom(b, at, length, g, p)]
    BY <2>3
  <2> HIDE DEF g
  <2>5. Ends(g, n + 1)
    BY <2>4
  <2> QED BY <2>5
<1>4. length \in S
  <2>1. \A n \in Nat : n \in S => n + 1 \in S
    BY <1>3
  <2> HIDE DEF S
  <2> QED BY <1>2, <2>1, SetInduction
<1> HIDE DEF Ends
<1>5. PICK f : Ends(f, length)
  BY <1>4
<1>6. length - length = 0
  OBVIOUS
<1> QED BY <1>5, <1>6 DEF Ends

LEMMA LoopRule ==
  ASSUME Stream, NEW b, NEW at \in Nat, NEW length \in Nat
  PROVE  \E f : /\ OnRecvCompleted(b, at, length) = f[0]
                /\ f = [p \in 0..length |-> LoopFrom(b, at, length, f, p)]
<1> DEFINE Rule(f) == f = [p \in 0..length |-> LoopFrom(b, at, length, f, p)]
<1>1. \E f : Rule(f)
  BY LoopExists
<1>2. OnRecvCompleted(b, at, length) = (CHOOSE f : Rule(f))[0]
  BY DEF OnRecvCompleted, LoopFrom, LoopStops
<1> HIDE DEF Rule
<1>3. Rule(CHOOSE f : Rule(f))
  BY <1>1
<1> QED BY <1>2, <1>3 DEF Rule

\* The packets from k to m.
Run(k, m) == [i \in 1..m - k + 1 |-> k - 1 + i]

LEMMA RunEmpty ==
  ASSUME NEW k \in Nat
  PROVE  Run(k + 1, k) = <<>>
<1>1. 1..k - (k + 1) + 1 = {}
  OBVIOUS
<1> QED BY <1>1 DEF Run

LEMMA RunJoins ==
  ASSUME NEW h \in Nat, NEW k \in Nat, NEW m \in Nat, h <= k, k <= m
  PROVE  Run(h + 1, k) \o Run(k + 1, m) = Run(h + 1, m)
<1>1. /\ Run(h + 1, k) = [i \in 1..k - h |-> h + i]
      /\ Run(k + 1, m) = [i \in 1..m - k |-> k + i]
      /\ Run(h + 1, m) = [i \in 1..m - h |-> h + i]
  <2>1. k - (h + 1) + 1 = k - h /\ m - (k + 1) + 1 = m - k /\ m - (h + 1) + 1 = m - h
    OBVIOUS
  <2>2. (h + 1) - 1 = h /\ (k + 1) - 1 = k
    OBVIOUS
  <2> QED BY <2>1, <2>2 DEF Run
<1> DEFINE s == [i \in 1..k - h |-> h + i]
           u == [i \in 1..m - k |-> k + i]
           w == [i \in 1..m - h |-> h + i]
<1>2. /\ s \in Seq(Nat) /\ Len(s) = k - h
      /\ u \in Seq(Nat) /\ Len(u) = m - k
      /\ w \in Seq(Nat) /\ Len(w) = m - h
  <2>1. k - h \in Nat /\ m - k \in Nat /\ m - h \in Nat
    OBVIOUS
  <2> QED BY <2>1
<1>3. Len(s \o u) = m - h /\ s \o u \in Seq(Nat)
  <2> HIDE DEF s, u
  <2> QED BY <1>2
<1>4. \A i \in 1..m - h : (s \o u)[i] = w[i]
  <2> SUFFICES ASSUME NEW i \in 1..m - h
               PROVE  (s \o u)[i] = h + i
    OBVIOUS
  <2>1. CASE i <= k - h
    <3>1. i \in 1..Len(s) /\ s[i] = h + i
      BY <1>2, <2>1
    <3> HIDE DEF s, u
    <3> QED BY <1>2, <3>1
  <2>2. CASE i > k - h
    <3>1. i - (k - h) \in 1..m - k /\ k + (i - (k - h)) = h + i
      BY <2>2
    <3>2. u[i - (k - h)] = h + i
      BY <3>1
    <3> HIDE DEF s, u
    <3>3. i \in 1..Len(s) + Len(u) /\ ~ (i <= Len(s)) /\ i - Len(s) = i - (k - h)
      BY <1>2, <2>2
    <3>4. (s \o u)[i] = IF i <= Len(s) THEN s[i] ELSE u[i - Len(s)]
      BY <1>2, <3>3, ConcatProperties
    <3> QED BY <3>2, <3>3, <3>4
  <2> QED BY <2>1, <2>2
<1>5. s \o u = w
  <2> HIDE DEF s, u, w
  <2> QED BY <1>2, <1>3, <1>4, SeqEqual
<1> QED BY <1>1, <1>5

\* What the loop must return when it looks for packet k.
Parsed(f, h, k, length) ==
  \E m \in k - 1..PacketCount :
    /\ f[StartOf[k] - StartOf[h + 1]]
         = [packets |-> Run(k, m), length |-> StartOf[m + 1] - StartOf[h + 1]]
    /\ StartOf[m + 1] - StartOf[h + 1] <= length
    /\ m < PacketCount => StartOf[m + 2] - StartOf[h + 1] > length

LEMMA PacketsParsed ==
  ASSUME Stream, NEW b, NEW at \in Nat, NEW length \in Nat, NEW h \in 0..PacketCount,
         \A p \in 0..length - 1 : b[at + p] = StartOf[h + 1] + p,
         StartOf[h + 1] + length <= StartOf[PacketCount + 1]
  PROVE  \E m \in h..PacketCount :
           /\ OnRecvCompleted(b, at, length)
                = [packets |-> Run(h + 1, m), length |-> StartOf[m + 1] - StartOf[h + 1]]
           /\ StartOf[m + 1] - StartOf[h + 1] <= length
           /\ m < PacketCount => StartOf[m + 2] - StartOf[h + 1] > length
<1>1. PacketCount \in Nat /\ HeaderSize \in Nat /\ HeaderSize > 0 /\ h \in Nat
  BY CountAssumption, SizesAssumption
<1>2. \A k \in h + 1..PacketCount + 1 : StartOf[k] \in Nat /\ StartOf[h + 1] <= StartOf[k]
  <2> SUFFICES ASSUME NEW k \in h + 1..PacketCount + 1
               PROVE  StartOf[k] \in Nat /\ StartOf[h + 1] <= StartOf[k]
    OBVIOUS
  <2>1. k \in 1..PacketCount + 1 /\ h + 1 \in 1..PacketCount + 1 /\ (k = h + 1 \/ h + 1 < k)
    BY <1>1
  <2> QED BY <2>1, StartTypes, StartIncreases
<1>3. StartOf[h + 1] \in Nat
  BY <1>1, <1>2
<1>4. PICK f : /\ OnRecvCompleted(b, at, length) = f[0]
               /\ f = [p \in 0..length |-> LoopFrom(b, at, length, f, p)]
  BY LoopRule
<1>5. \A p \in 0..length : f[p] = LoopFrom(b, at, length, f, p)
  BY <1>4
<1> DEFINE S == {n \in Nat : n <= PacketCount - h =>
                   LET k == PacketCount + 1 - n
                   IN  StartOf[k] - StartOf[h + 1] <= length => Parsed(f, h, k, length)}
<1>6. 0 \in S
  <2> SUFFICES ASSUME StartOf[PacketCount + 1] - StartOf[h + 1] <= length
               PROVE  Parsed(f, h, PacketCount + 1, length)
    BY <1>1
  <2> DEFINE p == StartOf[PacketCount + 1] - StartOf[h + 1]
  <2>1. StartOf[PacketCount + 1] \in Nat
    BY <1>1, <1>2
  <2>2. p = length
    BY <1>3, <2>1
  <2>3. f[p] = [packets |-> <<>>, length |-> p]
    <3>1. LoopStops(b, at, length, length) /\ length \in 0..length
      BY <1>1 DEF LoopStops
    <3> HIDE DEF p
    <3> QED BY <1>5, <2>2, <3>1 DEF LoopFrom
  <2>4. PacketCount \in (PacketCount + 1) - 1..PacketCount
    BY <1>1
  <2>5. Run(PacketCount + 1, PacketCount) = <<>> /\ ~ (PacketCount < PacketCount)
    BY <1>1, RunEmpty
  <2>6. StartOf[PacketCount + 1] - StartOf[h + 1] <= length
    OBVIOUS
  <2> QED BY <2>3, <2>4, <2>5, <2>6 DEF Parsed
<1>7. ASSUME NEW n \in Nat, n \in S
      PROVE  n + 1 \in S
  <2> SUFFICES ASSUME n + 1 <= PacketCount - h,
                      NEW k, k = PacketCount + 1 - (n + 1),
                      StartOf[k] - StartOf[h + 1] <= length
               PROVE  Parsed(f, h, k, length)
    OBVIOUS
  <2>1. k \in Packet /\ k \in Nat /\ k \in h + 1..PacketCount /\ k + 1 = PacketCount + 1 - n /\ n <= PacketCount - h
    BY <1>1 DEF Packet
  <2>2. PICK p \in 0..length : p = StartOf[k] - StartOf[h + 1]
    <3>1. StartOf[k] \in Nat /\ StartOf[h + 1] <= StartOf[k]
      BY <1>1, <1>2, <2>1
    <3> QED BY <1>3, <3>1
  <2>3. sizes[k] \in Nat /\ sizes[k] >= HeaderSize /\ sizes[k] > 0
    BY <2>1, SizesAreSizes
  <2>4. StartOf[k] \in Nat /\ StartOf[k + 1] = StartOf[k] + sizes[k]
    BY <1>1, <1>2, <2>1, StartTypes
  <2>5. length - p >= HeaderSize => SizeAt(b, at + p) = sizes[k] /\ PacketAt(b, at + p) = k
    <3> SUFFICES ASSUME length - p >= HeaderSize
                 PROVE  \A d \in 0..HeaderSize - 1 : b[(at + p) + d] = StartOf[k] + d
      <4>1. at + p \in Nat
        OBVIOUS
      <4> QED BY <2>1, <4>1, HeaderFound
    <3> SUFFICES ASSUME NEW d \in 0..HeaderSize - 1
                 PROVE  b[(at + p) + d] = StartOf[k] + d
      OBVIOUS
    <3>1. p + d \in 0..length - 1 /\ (at + p) + d = at + (p + d)
      BY <1>1
    <3>2. b[at + (p + d)] = StartOf[h + 1] + (p + d)
      BY <3>1
    <3>3. StartOf[h + 1] + (p + d) = StartOf[k] + d
      BY <1>1, <1>3, <2>2, <2>4
    <3> QED BY <3>1, <3>2, <3>3
  <2>6. CASE LoopStops(b, at, length, p)
    <3>1. f[p] = [packets |-> <<>>, length |-> p]
      BY <1>5, <2>6 DEF LoopFrom
    <3>2. length - p < sizes[k]
      BY <1>1, <2>3, <2>5, <2>6 DEF LoopStops
    <3>3. PICK m \in k - 1..PacketCount : m = k - 1
      BY <1>1, <2>1
    <3>4. Run(k, m) = <<>> /\ m + 1 = k /\ m + 2 = k + 1
      <4>1. m \in Nat /\ m + 1 = k /\ m + 2 = k + 1
        BY <1>1, <2>1, <3>3
      <4> QED BY <4>1, RunEmpty
    <3>5. StartOf[m + 2] - StartOf[h + 1] > length
      <4>1. StartOf[k + 1] - StartOf[h + 1] > length
        BY <1>3, <2>2, <2>3, <2>4, <3>2
      <4> QED BY <3>4, <4>1
    <3>6. f[StartOf[k] - StartOf[h + 1]] = [packets |-> Run(k, m), length |-> StartOf[m + 1] - StartOf[h + 1]]
      BY <2>2, <3>1, <3>4
    <3>7. StartOf[m + 1] - StartOf[h + 1] <= length
      BY <3>4
    <3> QED BY <3>5, <3>6, <3>7 DEF Parsed
  <2>7. CASE ~ LoopStops(b, at, length, p)
    <3>1. length - p >= HeaderSize
      BY <1>1, <2>7 DEF LoopStops
    <3>2. SizeAt(b, at + p) = sizes[k] /\ PacketAt(b, at + p) = k
      BY <2>5, <3>1
    <3>3. length - p >= sizes[k]
      BY <2>3, <2>7, <3>2 DEF LoopStops
    <3>4. p + sizes[k] = StartOf[k + 1] - StartOf[h + 1] /\ StartOf[k + 1] - StartOf[h + 1] <= length
      BY <1>3, <2>2, <2>3, <2>4, <3>3
    <3>5. Parsed(f, h, k + 1, length)
      BY <1>7, <2>1, <3>4
    <3>6. PICK m \in (k + 1) - 1..PacketCount :
            /\ f[StartOf[k + 1] - StartOf[h + 1]]
                 = [packets |-> Run(k + 1, m), length |-> StartOf[m + 1] - StartOf[h + 1]]
            /\ StartOf[m + 1] - StartOf[h + 1] <= length
            /\ m < PacketCount => StartOf[m + 2] - StartOf[h + 1] > length
      BY <3>5 DEF Parsed
    <3>7. m \in Nat /\ k <= m /\ m \in k - 1..PacketCount
      BY <1>1, <2>1
    <3>8. f[p] = [packets |-> <<k>> \o f[p + sizes[k]].packets, length |-> f[p + sizes[k]].length]
      BY <1>5, <2>7, <3>2 DEF LoopFrom
    <3>9. <<k>> \o Run(k + 1, m) = Run(k, m)
      <4>1. PICK j \in Nat : j + 1 = k /\ j <= k
        BY <1>1, <2>1
      <4>2. Run(k, k) = <<k>>
        <5>1. k - k + 1 = 1 /\ \A i \in 1..1 : k - 1 + i = k
          BY <2>1
        <5>2. Run(k, k) = [i \in 1..1 |-> k]
          BY <5>1 DEF Run
        <5>3. <<k>> = [i \in 1..1 |-> k]
          OBVIOUS
        <5> QED BY <5>2, <5>3
      <4>3. Run(j + 1, k) \o Run(k + 1, m) = Run(j + 1, m)
        BY <2>1, <3>7, <4>1, RunJoins
      <4> QED BY <4>1, <4>2, <4>3
    <3>10. f[p] = [packets |-> Run(k, m), length |-> StartOf[m + 1] - StartOf[h + 1]]
      <4>1. /\ f[p + sizes[k]].packets = Run(k + 1, m)
            /\ f[p + sizes[k]].length = StartOf[m + 1] - StartOf[h + 1]
        BY <3>4, <3>6
      <4> QED BY <3>8, <3>9, <4>1
    <3> QED BY <2>2, <3>6, <3>7, <3>10 DEF Parsed
  <2> QED BY <2>6, <2>7
<1>8. PacketCount - h \in S
  <2>1. \A n \in Nat : n \in S => n + 1 \in S
    BY <1>7
  <2>2. PacketCount - h \in Nat
    BY <1>1
  <2> HIDE DEF S
  <2> QED BY <1>6, <2>1, <2>2, SetInduction
<1>9. Parsed(f, h, h + 1, length)
  <2>1. PacketCount + 1 - (PacketCount - h) = h + 1 /\ PacketCount - h <= PacketCount - h
    BY <1>1
  <2>2. StartOf[h + 1] - StartOf[h + 1] <= length
    BY <1>3
  <2> QED BY <1>8, <2>1, <2>2
<1>10. StartOf[h + 1] - StartOf[h + 1] = 0 /\ (h + 1) - 1 = h
  BY <1>1, <1>3
<1> QED BY <1>4, <1>9, <1>10 DEF Parsed

-----------------------------------------------------------------------------
(* The invariant                                                           *)

RecvInv == RecvTypeOK /\ HandledInOrder /\ RoomForNext

LEMMA CapacityFits ==
  Capacity \in Nat /\ BufferSize \in Nat /\ BufferSize > 0 /\ BufferSize <= Capacity
<1>1. BufferSize \in Nat /\ BufferSize > 0 /\ BufferCount \in Nat /\ BufferCount >= 1
  BY SizesAssumption, CountAssumption
<1>2. PICK c \in Nat : BufferCount = c + 1
  <2>1. BufferCount - 1 \in Nat /\ BufferCount = (BufferCount - 1) + 1
    BY <1>1
  <2> QED BY <2>1
<1>3. BufferSize * (c + 1) = BufferSize * c + BufferSize /\ BufferSize * c \in Nat
  BY <1>1
<1> QED BY <1>1, <1>2, <1>3 DEF Capacity

LEMMA HandledSoFar ==
  ASSUME RecvInv
  PROVE  /\ Len(handled) \in 0..PacketCount
         /\ handled = Run(1, Len(handled))
         /\ StartOf[Len(handled) + 1] \in Nat
<1>1. handled \in Seq(0..PacketCount) /\ PacketCount \in Nat
  BY CountAssumption DEF RecvInv, RecvTypeOK
<1>2. Len(handled) \in Nat
  BY <1>1
<1>3. handled = [i \in 1..Len(handled) |-> i]
  BY DEF RecvInv, HandledInOrder
<1>4. Len(handled) <= PacketCount
  <2>1. CASE Len(handled) > 0
    <3>1. Len(handled) \in 1..Len(handled)
      BY <1>2, <2>1
    <3>2. handled[Len(handled)] \in 0..PacketCount
      BY <1>1, <3>1
    <3>3. handled[Len(handled)] = Len(handled)
      BY <1>3, <3>1
    <3> QED BY <1>1, <1>2, <3>2, <3>3
  <2> QED BY <1>1, <1>2, <2>1
<1>5. Run(1, Len(handled)) = [i \in 1..Len(handled) |-> i]
  <2>1. Len(handled) - 1 + 1 = Len(handled) /\ \A i \in 1..Len(handled) : 1 - 1 + i = i
    BY <1>2
  <2> QED BY <2>1 DEF Run
<1>6. StartOf[Len(handled) + 1] \in Nat
  <2>1. Len(handled) + 1 \in 1..PacketCount + 1
    BY <1>1, <1>2, <1>4
  <2> QED BY <2>1, StartTypes DEF RecvInv, RecvTypeOK, Stream
<1> QED BY <1>1, <1>2, <1>3, <1>4, <1>5, <1>6

\* The bytes that are unread after n more have arrived.
LEMMA FilledBehind ==
  ASSUME RecvInv, NEW n \in Nat, n <= FreeSize, received + n <= StreamSize
  PROVE  /\ Filled(n) \in [0..Capacity - 1 -> 0..StreamSize]
         /\ \A i \in readAt..writeAt + n - 1 :
              Filled(n)[i] = StartOf[Len(handled) + 1] + (i - readAt)
<1> DEFINE first == StartOf[Len(handled) + 1]
<1>1. /\ first \in Nat /\ readAt \in Nat /\ writeAt \in Nat /\ received \in Nat
      /\ readAt <= writeAt /\ writeAt + n <= Capacity /\ Capacity \in Nat
  BY HandledSoFar, CapacityFits DEF RecvInv, RecvTypeOK, FreeSize
<1>2. first + (writeAt - readAt) = received + 1
  BY DEF RecvInv, HandledInOrder, DataSizeToRead
<1>3. \A i \in readAt..writeAt - 1 : buffer[i] = first + (i - readAt)
  BY DEF RecvInv, HandledInOrder
<1>4. buffer \in [0..Capacity - 1 -> 0..StreamSize] /\ received \in 0..StreamSize
  BY DEF RecvInv, RecvTypeOK
<1>5. StreamSize \in Nat
  BY StreamEnd DEF RecvInv, RecvTypeOK, Stream
<1> HIDE DEF first
<1>6. Filled(n) \in [0..Capacity - 1 -> 0..StreamSize]
  <2>1. \A i \in 0..Capacity - 1 :
          i \in writeAt..writeAt + n - 1 => received + 1 + (i - writeAt) \in 0..StreamSize
    BY <1>1, <1>5
  <2>2. DOMAIN buffer = 0..Capacity - 1
    BY <1>4
  <2> QED BY <1>4, <2>1, <2>2 DEF Filled
<1>7. ASSUME NEW i \in readAt..writeAt + n - 1
      PROVE  Filled(n)[i] = first + (i - readAt)
  <2>1. i \in DOMAIN buffer
    BY <1>1, <1>4
  <2>2. CASE i \in writeAt..writeAt + n - 1
    <3>1. Filled(n)[i] = received + 1 + (i - writeAt)
      BY <2>1, <2>2 DEF Filled
    <3> QED BY <1>1, <1>2, <3>1
  <2>3. CASE i \notin writeAt..writeAt + n - 1
    <3>1. Filled(n)[i] = buffer[i]
      BY <2>1, <2>3 DEF Filled
    <3>2. i \in readAt..writeAt - 1
      BY <1>1, <2>3
    <3> QED BY <1>3, <3>1, <3>2
  <2> QED BY <2>2, <2>3
<1> QED BY <1>6, <1>7 DEF first

\* What one receive does: it handles the packets up to some m, those that are
\* complete in the first n unread bytes.
Received(n, m) ==
  LET used == StartOf[m + 1] - StartOf[Len(handled) + 1]
      cleared == Clear(Filled(n), readAt + used, writeAt + n)
  IN  /\ used <= n /\ used \in Nat
      /\ m < PacketCount => StartOf[m + 2] - StartOf[Len(handled) + 1] > n
      /\ handled' = Run(1, m)
      /\ buffer' = cleared[1] /\ readAt' = cleared[2] /\ writeAt' = cleared[3]
      /\ received' = received + n
      /\ sizes' = sizes /\ cause' = "none"

LEMMA ReceiveStep ==
  ASSUME RecvInv, NEW n \in 1..Capacity, ProcessRecv(n)
  PROVE  \E m \in Len(handled)..PacketCount : Received(n, m)
<1> DEFINE h == Len(handled)
           parsed == OnRecvCompleted(Filled(n), readAt, n)
<1>1. h \in 0..PacketCount /\ handled = Run(1, h) /\ StartOf[h + 1] \in Nat
  BY HandledSoFar
<1>2. n \in Nat /\ n <= FreeSize /\ n \in 1..StreamSize - received
  BY CapacityFits DEF ProcessRecv, Pieces
<1>3. /\ readAt \in Nat /\ writeAt \in Nat /\ readAt <= writeAt
      /\ received \in Nat /\ received + n <= StreamSize /\ StreamSize \in Int
  <2>1. StreamSize \in Nat
    BY StreamEnd DEF RecvInv, RecvTypeOK, Stream
  <2>2. received \in Nat /\ readAt \in Nat /\ writeAt \in Nat /\ readAt <= writeAt
    BY CapacityFits DEF RecvInv, RecvTypeOK
  <2> QED BY <1>2, <2>1, <2>2
<1>4. \A p \in 0..n - 1 : Filled(n)[readAt + p] = StartOf[h + 1] + p
  <2> SUFFICES ASSUME NEW p \in 0..n - 1
               PROVE  Filled(n)[readAt + p] = StartOf[h + 1] + p
    OBVIOUS
  <2>1. readAt + p \in readAt..writeAt + n - 1 /\ (readAt + p) - readAt = p
    BY <1>2, <1>3
  <2> QED BY <1>2, <1>3, <2>1, FilledBehind
<1>5. StartOf[h + 1] + n <= StartOf[PacketCount + 1]
  <2>1. StartOf[h + 1] + (writeAt - readAt) = received + 1
    BY DEF RecvInv, HandledInOrder, DataSizeToRead
  <2>2. StartOf[PacketCount + 1] = StreamSize + 1
    BY StreamEnd DEF RecvInv, RecvTypeOK, Stream
  <2> QED BY <1>1, <1>2, <1>3, <2>1, <2>2
<1>6. PICK m \in h..PacketCount :
        /\ parsed = [packets |-> Run(h + 1, m), length |-> StartOf[m + 1] - StartOf[h + 1]]
        /\ StartOf[m + 1] - StartOf[h + 1] <= n
        /\ m < PacketCount => StartOf[m + 2] - StartOf[h + 1] > n
  <2>1. Stream
    BY DEF RecvInv, RecvTypeOK, Stream
  <2>2. PICK b, at : b = Filled(n) /\ at = readAt
    OBVIOUS
  <2>3. at \in Nat /\ \A p \in 0..n - 1 : b[at + p] = StartOf[h + 1] + p
    BY <1>3, <1>4, <2>2
  <2>4. parsed = OnRecvCompleted(b, at, n)
    BY <2>2
  <2> HIDE DEF h, parsed
  <2>5. \E m \in h..PacketCount :
          /\ OnRecvCompleted(b, at, n)
               = [packets |-> Run(h + 1, m), length |-> StartOf[m + 1] - StartOf[h + 1]]
          /\ StartOf[m + 1] - StartOf[h + 1] <= n
          /\ m < PacketCount => StartOf[m + 2] - StartOf[h + 1] > n
    <3>1. h \in 0..PacketCount /\ n \in Nat
      BY <1>1, <1>2
    <3> QED BY <1>5, <2>1, <2>3, <3>1, PacketsParsed
  <2> QED BY <2>4, <2>5
<1> DEFINE used == StartOf[m + 1] - StartOf[h + 1]
<1>7. used \in Nat /\ used <= n
  <2>1. m \in Nat /\ PacketCount \in Nat /\ h \in Nat /\ h <= m
    BY <1>1, CountAssumption
  <2>2. m + 1 \in 1..PacketCount + 1 /\ h + 1 \in 1..PacketCount + 1 /\ (h = m \/ h + 1 < m + 1)
    BY <2>1, <1>1
  <2>3. StartOf[m + 1] \in Nat /\ StartOf[h + 1] <= StartOf[m + 1]
    BY <1>1, <2>2, StartTypes, StartIncreases DEF RecvInv, RecvTypeOK, Stream
  <2> QED BY <1>1, <1>6, <2>3
<1>8. parsed.length = used /\ parsed.packets = Run(h + 1, m)
  BY <1>6
<1>9. handled' = Run(1, m)
  <2>1. handled' = handled \o parsed.packets
    BY DEF ProcessRecv
  <2>2. 0 \in Nat /\ h \in Nat /\ m \in Nat /\ 0 <= h /\ h <= m /\ 0 + 1 = 1
    BY <1>1, CountAssumption
  <2>3. Run(0 + 1, h) \o Run(h + 1, m) = Run(0 + 1, m)
    BY <2>2, RunJoins
  <2> QED BY <1>1, <1>8, <2>1, <2>2, <2>3
<1>10. parsed.length <= n /\ parsed.length <= DataSizeToRead + n
  BY <1>2, <1>3, <1>7, <1>8 DEF DataSizeToRead
<1>11. /\ LET cleared == Clear(Filled(n), readAt + used, writeAt + n)
          IN  buffer' = cleared[1] /\ readAt' = cleared[2] /\ writeAt' = cleared[3]
       /\ received' = received + n /\ sizes' = sizes /\ cause' = "none"
  <2>1. /\ LET valid == parsed.length <= n /\ parsed.length <= DataSizeToRead + n
               cleared == IF valid THEN Clear(Filled(n), readAt + parsed.length, writeAt + n)
                                   ELSE <<Filled(n), readAt, writeAt + n>>
           IN  /\ buffer' = cleared[1] /\ readAt' = cleared[2] /\ writeAt' = cleared[3]
               /\ cause' = IF valid THEN "none" ELSE "onRecv"
        /\ received' = received + n /\ sizes' = sizes
    BY DEF ProcessRecv
  <2> HIDE DEF parsed, used
  <2> QED BY <1>8, <1>10, <2>1
<1> QED BY <1>6, <1>7, <1>9, <1>11 DEF Received

LEMMA StreamStays ==
  ASSUME sizes' = sizes
  PROVE  StartOf' = StartOf /\ StreamSize' = StreamSize
<1>1. StartOf' = StartOf
  BY DEF StartOf
<1> QED BY <1>1 DEF StreamSize

\* What Clear leaves: the bytes from r to w are still those, and there is room.
LEMMA ClearKeeps ==
  ASSUME NEW b \in [0..Capacity - 1 -> 0..StreamSize], NEW first \in Nat,
         NEW r \in Nat, NEW w \in Nat, r <= w, w <= Capacity,
         \A i \in r..w - 1 : b[i] = first + (i - r)
  PROVE  LET c == Clear(b, r, w)
         IN  /\ c[1] \in [0..Capacity - 1 -> 0..StreamSize]
             /\ c[2] \in 0..Capacity /\ c[3] \in c[2]..Capacity
             /\ c[3] - c[2] = w - r
             /\ \A i \in c[2]..c[3] - 1 : c[1][i] = first + (i - c[2])
             /\ c[3] - c[2] <= Capacity - BufferSize => Capacity - c[3] >= BufferSize
<1>1. Capacity \in Nat /\ BufferSize \in Nat /\ BufferSize > 0 /\ BufferSize <= Capacity
  BY CapacityFits
<1>2. CASE r = w
  <2>1. Clear(b, r, w) = <<b, 0, 0>>
    BY <1>2 DEF Clear
  <2> QED BY <1>1, <1>2, <2>1
<1>3. CASE r # w /\ Capacity - w < BufferSize
  <2> DEFINE moved == [i \in DOMAIN b |-> IF i < w - r THEN b[r + i] ELSE b[i]]
  <2>1. Clear(b, r, w) = <<moved, 0, w - r>>
    BY <1>3 DEF Clear
  <2>2. moved \in [0..Capacity - 1 -> 0..StreamSize]
    <3> SUFFICES ASSUME NEW i \in 0..Capacity - 1
                 PROVE  (IF i < w - r THEN b[r + i] ELSE b[i]) \in 0..StreamSize
      OBVIOUS
    <3>1. i < w - r => r + i \in 0..Capacity - 1
      BY <1>1
    <3> QED BY <3>1
  <2>3. ASSUME NEW i \in 0..(w - r) - 1
        PROVE  moved[i] = first + (i - 0)
    <3>1. i \in DOMAIN b /\ i < w - r /\ r + i \in r..w - 1 /\ (r + i) - r = i
      BY <1>1
    <3>2. moved[i] = b[r + i]
      BY <3>1
    <3> QED BY <3>1, <3>2
  <2>4. w - r \in Nat /\ w - r <= Capacity /\ (w - r) - 0 = w - r
    BY <1>1
  <2>5. w - r <= Capacity - BufferSize => Capacity - (w - r) >= BufferSize
    BY <1>1, <2>4
  <2> HIDE DEF moved
  <2> QED BY <1>1, <2>1, <2>2, <2>3, <2>4, <2>5
<1>4. CASE r # w /\ ~ (Capacity - w < BufferSize)
  <2>1. Clear(b, r, w) = <<b, r, w>>
    BY <1>4 DEF Clear
  <2> QED BY <1>1, <1>4, <2>1
<1> QED BY <1>2, <1>3, <1>4

\* An empty buffer is where the first packet is looked for (RecvBuffer.h:17-25).
THEOREM RecvInitInv == RecvInit => RecvInv
<1> SUFFICES ASSUME RecvInit
             PROVE  RecvInv
  OBVIOUS
<1>1. Stream /\ PacketCount \in Nat
  BY CountAssumption DEF RecvInit, Stream
<1>2. StreamSize \in Nat
  BY <1>1, StreamEnd
<1>3. RecvTypeOK
  <2>1. buffer \in [0..Capacity - 1 -> 0..StreamSize]
    BY <1>2 DEF RecvInit
  <2> QED BY <1>2, <2>1, CapacityFits DEF RecvInit, RecvTypeOK
<1>4. HandledInOrder
  <2>1. StartOf[1] = 1
    BY <1>1, StartTypes
  <2>2. Len(handled) = 0 /\ handled = [i \in 1..0 |-> i]
    BY DEF RecvInit
  <2> QED BY <2>1, <2>2 DEF RecvInit, HandledInOrder, DataSizeToRead
<1>5. RoomForNext
  BY CapacityFits DEF RecvInit, RoomForNext, FreeSize
<1> QED BY <1>3, <1>4, <1>5 DEF RecvInv

LEMMA ReceiveInv ==
  ASSUME RecvInv, NEW n \in 1..Capacity, ProcessRecv(n)
  PROVE  RecvInv'
<1> DEFINE h == Len(handled)
<1>1. PICK m \in h..PacketCount : Received(n, m)
  BY ReceiveStep
<1>2. h \in 0..PacketCount /\ StartOf[h + 1] \in Nat /\ PacketCount \in Nat
  BY HandledSoFar, CountAssumption
<1>3. PICK first, next, used :
        /\ first = StartOf[h + 1] /\ next = StartOf[m + 1]
        /\ used = StartOf[m + 1] - StartOf[h + 1]
  OBVIOUS
<1>4. /\ m \in Nat /\ m \in 0..PacketCount /\ first \in Nat /\ next \in Nat
      /\ used \in Nat /\ used <= n /\ used = next - first
  <2>1. m \in 0..PacketCount /\ m + 1 \in 1..PacketCount + 1
    BY <1>2
  <2>2. StartOf[m + 1] \in Nat
    BY <2>1, StartTypes DEF RecvInv, RecvTypeOK, Stream
  <2> QED BY <1>1, <1>2, <1>3, <2>1, <2>2 DEF Received
<1>5. /\ readAt \in Nat /\ writeAt \in Nat /\ readAt <= writeAt /\ received \in Nat
      /\ n \in Nat /\ writeAt + n <= Capacity /\ received + n <= StreamSize
      /\ n <= FreeSize
  <2>1. StreamSize \in Nat
    BY StreamEnd DEF RecvInv, RecvTypeOK, Stream
  <2>2. readAt \in Nat /\ writeAt \in Nat /\ readAt <= writeAt /\ received \in Nat
    BY CapacityFits DEF RecvInv, RecvTypeOK
  <2>3. n \in Nat /\ n <= FreeSize /\ n \in 1..StreamSize - received
    BY CapacityFits DEF ProcessRecv, Pieces
  <2> QED BY <2>1, <2>2, <2>3, CapacityFits DEF FreeSize
<1>6. PICK b, r, w : b = Filled(n) /\ r = readAt + used /\ w = writeAt + n
  OBVIOUS
<1> HIDE DEF h
<1>7. r \in Nat /\ w \in Nat /\ r <= w /\ w <= Capacity /\ w - r = (writeAt - readAt) + n - used
  BY <1>4, <1>5, <1>6
<1>8. b \in [0..Capacity - 1 -> 0..StreamSize]
  BY <1>5, <1>6, FilledBehind
<1>9. \A i \in r..w - 1 : b[i] = next + (i - r)
  <2> SUFFICES ASSUME NEW i \in r..w - 1
               PROVE  b[i] = next + (i - r)
    OBVIOUS
  <2>1. i \in readAt..writeAt + n - 1
    BY <1>4, <1>5, <1>6, <1>7
  <2>2. b[i] = first + (i - readAt)
    BY <1>3, <1>5, <1>6, <2>1, FilledBehind DEF h
  <2>3. first + (i - readAt) = next + (i - r)
    BY <1>4, <1>5, <1>6, <1>7
  <2> QED BY <2>2, <2>3
<1>10. buffer' = Clear(b, r, w)[1] /\ readAt' = Clear(b, r, w)[2] /\ writeAt' = Clear(b, r, w)[3]
  BY <1>1, <1>3, <1>6 DEF Received, h
<1>11. /\ buffer' \in [0..Capacity - 1 -> 0..StreamSize]
       /\ readAt' \in 0..Capacity /\ writeAt' \in readAt'..Capacity
       /\ writeAt' - readAt' = w - r
       /\ \A i \in readAt'..writeAt' - 1 : buffer'[i] = next + (i - readAt')
       /\ writeAt' - readAt' <= Capacity - BufferSize => Capacity - writeAt' >= BufferSize
  <2> DEFINE c == Clear(b, r, w)
  <2>1. /\ c[1] \in [0..Capacity - 1 -> 0..StreamSize]
        /\ c[2] \in 0..Capacity /\ c[3] \in c[2]..Capacity
        /\ c[3] - c[2] = w - r
        /\ \A i \in c[2]..c[3] - 1 : c[1][i] = next + (i - c[2])
        /\ c[3] - c[2] <= Capacity - BufferSize => Capacity - c[3] >= BufferSize
    BY <1>4, <1>7, <1>8, <1>9, ClearKeeps
  <2> HIDE DEF c
  <2>2. buffer' = c[1] /\ readAt' = c[2] /\ writeAt' = c[3]
    BY <1>10 DEF c
  <2> QED BY <2>1, <2>2
<1>12. handled' = Run(1, m) /\ received' = received + n /\ sizes' = sizes /\ cause' = "none"
  BY <1>1 DEF Received
<1>13. StartOf' = StartOf /\ StreamSize' = StreamSize
  BY <1>12, StreamStays
<1>14. handled' = [i \in 1..m |-> i] /\ Len(handled') = m /\ handled' \in Seq(0..PacketCount)
  <2>1. m - 1 + 1 = m /\ \A i \in 1..m : 1 - 1 + i = i
    BY <1>4
  <2>2. Run(1, m) = [i \in 1..m |-> i]
    BY <2>1 DEF Run
  <2> DEFINE s == [i \in 1..m |-> i]
  <2>3. s \in [1..m -> 0..PacketCount]
    BY <1>2, <1>4
  <2>4. Len(s) = m /\ s \in Seq(0..PacketCount)
    BY <1>4, <2>3
  <2> HIDE DEF s
  <2>5. handled' = s
    BY <1>12, <2>2 DEF s
  <2> QED BY <2>4, <2>5 DEF s
<1>15. RecvTypeOK'
  <2>1. received' \in 0..StreamSize'
    <3>1. StreamSize \in Nat
      BY StreamEnd DEF RecvInv, RecvTypeOK, Stream
    <3> QED BY <1>5, <1>12, <1>13, <3>1
  <2>2. sizes' \in [Packet -> Sizes] /\ cause' \in {"none", "zero", "onRecv"}
    BY <1>12 DEF RecvInv, RecvTypeOK
  <2> QED BY <1>11, <1>13, <1>14, <2>1, <2>2 DEF RecvTypeOK, Capacity
<1>16. HandledInOrder'
  <2>1. StartOf'[Len(handled') + 1] = next
    BY <1>3, <1>13, <1>14
  <2>2. first + (writeAt - readAt) = received + 1
    BY <1>3 DEF RecvInv, HandledInOrder, DataSizeToRead, h
  <2>3. next + (writeAt' - readAt') = received' + 1
    <3>1. next + (w - r) = (received + n) + 1
      BY <1>4, <1>5, <1>7, <2>2
    <3> QED BY <1>11, <1>12, <3>1
  <2>4. handled' = [i \in 1..Len(handled') |-> i]
    BY <1>14
  <2> QED BY <1>11, <1>12, <2>1, <2>3, <2>4 DEF HandledInOrder, DataSizeToRead
<1>17. RoomForNext'
  BY <1>11 DEF RoomForNext, DataSizeToRead, FreeSize, Capacity
<1> QED BY <1>15, <1>16, <1>17 DEF RecvInv

\* Every receive, of any length, leaves the next packet where the parser looks for it
\* (Session.cpp:202-229).
THEOREM RecvNextInv == RecvInv /\ [RecvNext]_recvVars => RecvInv'
<1> SUFFICES ASSUME RecvInv, [RecvNext]_recvVars
             PROVE  RecvInv'
  OBVIOUS
<1>1. ASSUME NEW n \in 1..Capacity, ProcessRecv(n)
      PROVE  RecvInv'
  BY <1>1, ReceiveInv
<1>2. ASSUME sizes' = sizes, received' = received, buffer' = buffer, readAt' = readAt,
             writeAt' = writeAt, handled' = handled, cause' \in {cause, "zero"}
      PROVE  RecvInv'
  <2>1. StartOf' = StartOf /\ StreamSize' = StreamSize
    BY <1>2, StreamStays
  <2>2. RecvTypeOK'
    BY <1>2, <2>1 DEF RecvInv, RecvTypeOK, Capacity
  <2>3. HandledInOrder'
    BY <1>2, <2>1 DEF RecvInv, HandledInOrder, DataSizeToRead
  <2>4. RoomForNext'
    BY <1>2 DEF RecvInv, RoomForNext, DataSizeToRead, FreeSize, Capacity
  <2> QED BY <2>2, <2>3, <2>4 DEF RecvInv
<1>3. CASE ProcessRecvZero
  BY <1>2, <1>3 DEF ProcessRecvZero
<1>4. CASE UNCHANGED recvVars
  BY <1>2, <1>4 DEF recvVars
<1> QED BY <1>1, <1>3, <1>4 DEF RecvNext

\* After any number of receives the unread bytes are those that come next.
THEOREM RecvInvariance == RecvSpec => []RecvInv
BY RecvInitInv, RecvNextInv, PTL DEF RecvSpec

-----------------------------------------------------------------------------
(* The properties                                                          *)

\* Every variable keeps its type: nothing is read or written outside _buffer, and
\* _read_at never passes _write_at (RecvBuffer.cpp:14-47).
THEOREM RecvTypeCorrect == RecvSpec => []RecvTypeOK
<1>1. RecvInv => RecvTypeOK
  BY DEF RecvInv
<1> QED BY <1>1, RecvInvariance, PTL

\* For packets of any sizes, received in pieces of any size through a buffer of any
\* capacity: the handlers get the packets of the peer, each once and in order, and a
\* well-formed stream is never the cause of an "OnRecv error" (Session.cpp:202-229,
\* 339-361).
THEOREM PacketsInOrder == RecvSpec => []HandledInOrder
<1>1. RecvInv => HandledInOrder
  BY DEF RecvInv
<1> QED BY <1>1, RecvInvariance, PTL

\* Clear makes room for one receive of the largest size unless the backlog itself
\* takes it (RecvBuffer.cpp:14-29).
THEOREM RoomIsMade == RecvSpec => []RoomForNext
<1>1. RecvInv => RoomForNext
  BY DEF RecvInv
<1> QED BY <1>1, RecvInvariance, PTL

\* A packet that is complete waits for no more bytes than were unread when the receive
\* began: the parser is told recv_bytes and not what is unread (Session.cpp:217).
THEOREM BacklogBoundsDelay == RecvSpec => DelayBounded
<1> DEFINE Step == cause' = "none" =>
                     \A k \in Packet :
                       StartOf[k + 1] - 1 <= received' - DataSizeToRead => k <= Len(handled')
<1>1. ASSUME RecvInv, NEW n \in 1..Capacity, ProcessRecv(n), NEW k \in Packet,
             StartOf[k + 1] - 1 <= received' - DataSizeToRead
      PROVE  k <= Len(handled')
  <2> DEFINE h == Len(handled)
  <2>1. PICK m \in h..PacketCount : Received(n, m)
    BY <1>1, ReceiveStep
  <2>2. h \in 0..PacketCount /\ PacketCount \in Nat /\ m \in 0..PacketCount /\ k \in 1..PacketCount
    BY <1>1, HandledSoFar, CountAssumption DEF Packet
  <2>3. PICK first, last : first = StartOf[h + 1] /\ last = StartOf[k + 1]
    OBVIOUS
  <2>4. first \in Nat /\ last \in Nat
    <3>1. h + 1 \in 1..PacketCount + 1 /\ k + 1 \in 1..PacketCount + 1
      BY <2>2
    <3> QED BY <1>1, <2>3, <3>1, StartTypes DEF RecvInv, RecvTypeOK, Stream
  <2>5. first + (writeAt - readAt) = received + 1 /\ received' = received + n
    BY <1>1, <2>1, <2>3 DEF RecvInv, HandledInOrder, DataSizeToRead, Received
  <2>6. readAt \in Nat /\ writeAt \in Nat /\ received \in Nat /\ n \in Nat
    BY <1>1, CapacityFits DEF RecvInv, RecvTypeOK
  <2>7. last - first <= n
    <3>1. last - 1 <= received' - (writeAt - readAt)
      BY <1>1, <2>3 DEF DataSizeToRead
    <3> QED BY <2>4, <2>5, <2>6, <3>1
  <2>8. Len(handled') = m
    <3>1. handled' = Run(1, m)
      BY <2>1 DEF Received
    <3>2. m \in Nat /\ m - 1 + 1 = m
      BY <2>2
    <3> QED BY <3>1, <3>2 DEF Run
  <2> SUFFICES ASSUME m < k
               PROVE  FALSE
    BY <2>2, <2>8
  <2>9. StartOf[m + 2] - first > n
    BY <2>1, <2>2, <2>3 DEF Received
  <2>10. StartOf[m + 2] \in Nat /\ StartOf[m + 2] <= last
    <3>1. m + 2 \in 1..PacketCount + 1 /\ k + 1 \in 1..PacketCount + 1 /\ (m + 2 = k + 1 \/ m + 2 < k + 1)
      BY <2>2
    <3>2. Stream
      BY <1>1 DEF RecvInv, RecvTypeOK, Stream
    <3>3. StartOf[m + 2] \in Nat /\ (StartOf[m + 2] = StartOf[k + 1] \/ StartOf[m + 2] < StartOf[k + 1])
      BY <3>1, <3>2, StartTypes, StartIncreases
    <3> QED BY <2>3, <2>4, <3>3
  <2> QED BY <2>4, <2>6, <2>7, <2>9, <2>10
<1>2. RecvInv /\ [RecvNext]_recvVars => [Step]_recvVars
  <2> SUFFICES ASSUME RecvInv, RecvNext, cause' = "none"
               PROVE  \A k \in Packet :
                        StartOf[k + 1] - 1 <= received' - DataSizeToRead => k <= Len(handled')
    OBVIOUS
  <2>1. ~ ProcessRecvZero
    BY DEF ProcessRecvZero
  <2>2. PICK n \in 1..Capacity : ProcessRecv(n)
    BY <2>1 DEF RecvNext
  <2> QED BY <1>1, <2>2
<1>3. RecvSpec => [][Step]_recvVars
  BY <1>2, RecvInvariance, PTL DEF RecvSpec
<1> QED BY <1>3 DEF DelayBounded
=============================================================================
