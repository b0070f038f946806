-------------------------- MODULE GameSessionProofs --------------------------
(***************************************************************************)
(* What the handlers of a GameSession do to the tables and to the player,  *)
(* and how long it lives: the lobby, with the pool of connections it       *)
(* shares with DBSerializer; the heartbeat; and the items of an account.   *)
(* The lobby and the heartbeat have no run beside these proofs.            *)
(*                                                                         *)
(* Lobby.  PoolInv counts: the workers that hold a connection and the pool *)
(* share all connections, so when the pool is empty every connection is    *)
(* with a worker of its own, and the one that calls Pop would be one too   *)
(* many.  PacketInv and SessionInv say what is known of a session at each  *)
(* place of the handler of its packet.  Rivals and Causes say of a failure *)
(* that is to come, and of the one that ended the process, what it is for. *)
(*                                                                         *)
(* Heartbeat.  Both invariants bound the time the reserved Ping is due by  *)
(* the tick of the last answer, place by place of the job: the tick only   *)
(* grows, so what the job has read of it is a lower bound of what it is    *)
(* now.                                                                    *)
(*                                                                         *)
(* Items.  Books balances the life that logged in last: what it holds,     *)
(* what was displaced, the rows, and the items for which a job waits.      *)
(* Every action moves an item from one side to the other, or pushes or     *)
(* runs the job that accounts for it.  That it does so once needs that an  *)
(* item is added and deleted once (Once) and that the jobs of DBSerializer *)
(* are of that life (Own), which is what an overlap of lives breaks.       *)
(* Ordered is about groups: two that were worn at once are the one dropped *)
(* and the one put on in its place, whose jobs wait in this order.  So     *)
(* when no update waits there are no two, and when the process dies there  *)
(* are none in the rows (AtRest), which the next login reads.              *)
(***************************************************************************)
EXTENDS Lobby, Heartbeat, Items, FiniteSetTheorems, TLAPS

ConstantsFit ==
  /\ IsFiniteSet(Worker) /\ IsFiniteSet(Connection)
  /\ Cardinality(Worker) <= Cardinality(Connection)
  /\ Nothing \notin Session /\ Nothing \notin Account /\ Nothing \notin Connection /\ Nothing \notin Nat
  /\ OldAccounts \subseteq Account
  /\ OldPlayers \in Seq(OldAccounts)
  /\ Length \in [Account -> Nat]

PoolInv ==
  /\ PoolSuffices
  /\ \A w \in Worker : conn[w] # Nothing <=> pc[w] # "idle"

\* Where the handler of a packet of s is; one worker at most runs it.
PacketInv ==
  /\ \A w \in Worker : serves[w] # Nothing <=> pc[w] \notin {"idle", "job"}
  /\ \A v, w \in Worker : serves[v] = serves[w] /\ serves[v] # Nothing => v = w
  /\ \A w \in Worker :
       /\ pc[w] \in {"select", "insert", "loggedIn"} => serverState[serves[w]] = "LOGIN"
       /\ pc[w] \in {"player", "stats", "items"} => serverState[serves[w]] = "LOBBY"

Fresh(s) == account[s] = Nothing /\ lobbyPlayers[s] = {}

SessionInv ==
  /\ \A w \in Worker :
       /\ pc[w] \in {"select", "insert"} => Fresh(serves[w]) /\ asked[serves[w]] \in Account
       /\ pc[w] = "loggedIn" => account[serves[w]] \in Account
       /\ pc[w] = "stats" => newPlayer[w] \in PlayersOf(account[serves[w]])
       /\ pc[w] = "items" => current[serves[w]] \in lobbyPlayers[serves[w]]
  /\ \A s \in Session :
       /\ serverState[s] = "LOGIN" /\ (\A w \in Worker : serves[w] # s) => Fresh(s)
       /\ serverState[s] # "LOGIN" => account[s] \in Account
       /\ deleted[s] => serverState[s] = "GAME"

\* Who will find his name taken has a rival; who ended the process is one of these, or
\* had a name that does not fit.
Taken(w) == pc[w] = "insert" /\ asked[serves[w]] \in accounts
Rivals == \A w \in Worker : Taken(w) => RivalInserted(w)
Causes == fault \notin {"none", "null"} => \E w \in Worker : Taken(w) \/ Overlong(w)

LobbyInv == LobbyTypeOK /\ PoolInv /\ PacketInv /\ SessionInv /\ Rivals /\ Causes /\ ListIsOwn

-----------------------------------------------------------------------------
(* The pool                                                                *)

\* A worker without a connection finds one in the pool.
LEMMA PopFindsOne ==
  ASSUME ConstantsFit, LobbyTypeOK, PoolInv, NEW w \in Worker, pc[w] = "idle"
  PROVE  free # {}
<1>. SUFFICES ASSUME free = {}
              PROVE  FALSE
  OBVIOUS
<1>. DEFINE S == Worker \ {w}
            T == Holders
            f == [v \in T |-> conn[v]]
<1>1. T \subseteq S /\ T \subseteq Worker
  BY DEF PoolInv, Holders
<1>2. \A c \in Connection : \E v \in T : conn[v] = c
  BY DEF PoolInv, PoolSuffices
<1>3. f \in Surjection(T, Connection)
  BY <1>2 DEF Surjection, LobbyTypeOK, Holders
<1>4. IsFiniteSet(S) /\ Cardinality(S) = Cardinality(Worker) - 1
  BY FS_RemoveElement DEF ConstantsFit
<1>5. IsFiniteSet(T) /\ Cardinality(T) <= Cardinality(S)
  BY <1>1, <1>4, FS_Subset
<1>6. Cardinality(Connection) <= Cardinality(T)
  BY <1>3, <1>5, FS_Surjection
<1>7. Cardinality(Worker) \in Nat /\ Cardinality(T) \in Nat /\ Cardinality(Connection) \in Nat
  BY <1>5, FS_CardinalityType DEF ConstantsFit
<1>. QED
  BY <1>4, <1>5, <1>6, <1>7 DEF ConstantsFit

\* What a handler does to the pool: it takes a connection, gives it back, or neither.
Takes(w) ==
  /\ pc[w] = "idle"
  /\ \E l \in Label \ {"idle"} : Pop(w, l)
Gives(w) ==
  /\ pc[w] \in Label \ {"idle"}
  /\ Push(w)
  /\ fault' = fault
Works(w) ==
  /\ UNCHANGED pool
  /\ pc[w] \in Label \ {"idle"}
  /\ UNCHANGED pc \/ \E l \in Label \ {"idle"} : Goto(w, l)
  /\ fault' \in {fault, "unique", "name"}

LEMMA PoolUse ==
  ASSUME LobbyTypeOK, [LobbyNext]_lobbyVars
  PROVE  \/ \E w \in Worker : Takes(w) \/ Gives(w) \/ Works(w)
         \/ UNCHANGED <<pool, pc, fault>>
<1>. USE DEF Takes, Gives, Works, Label, At, Goto, pool
<1>1. ASSUME NEW w \in Worker, BeginJob(w) PROVE Takes(w)
  BY <1>1 DEF BeginJob
<1>2. ASSUME NEW w \in Worker, EndJob(w) PROVE Gives(w)
  BY <1>2 DEF EndJob
<1>3. ASSUME NEW w \in Worker, NEW s \in Session, NEW a \in Account, BeginLogin(w, s, a)
      PROVE  Takes(w)
  BY <1>3 DEF BeginLogin, BeginPacket
<1>4. ASSUME NEW w \in Worker, NEW s \in Session, BeginCreate(w, s) PROVE Takes(w)
  BY <1>4 DEF BeginCreate, BeginPacket
<1>5. ASSUME NEW w \in Worker, NEW s \in Session, BeginEnterGame(w, s) PROVE Takes(w)
  BY <1>5 DEF BeginEnterGame, BeginPacket
<1>6. ASSUME NEW w \in Worker, SelectAccount(w) PROVE Works(w)
  BY <1>6 DEF SelectAccount
<1>7. ASSUME NEW w \in Worker, InsertAccount(w) PROVE Works(w)
  BY <1>7 DEF InsertAccount
<1>8. ASSUME NEW w \in Worker, EnterLobby(w) PROVE Gives(w)
  BY <1>8 DEF EnterLobby, EndPacket
<1>9. ASSUME NEW w \in Worker, InsertPlayer(w) PROVE Works(w)
  BY <1>9 DEF InsertPlayer
<1>10. ASSUME NEW w \in Worker, InsertStats(w) PROVE Gives(w)
  BY <1>10 DEF InsertStats, EndPacket
<1>11. ASSUME NEW w \in Worker, EnterGame(w) PROVE Gives(w)
  BY <1>11 DEF EnterGame, EndPacket
<1>13. ASSUME NEW w \in Worker, LongName(w) PROVE Works(w)
  BY <1>13 DEF LongName, Overlong
<1>. QED
  BY <1>1, <1>2, <1>3, <1>4, <1>5, <1>6, <1>7, <1>8, <1>9, <1>10, <1>11, <1>13, [LobbyNext]_lobbyVars
  DEF LobbyNext, lobbyVars

LEMMA PoolStep ==
  ASSUME ConstantsFit, LobbyTypeOK, PoolInv, [LobbyNext]_lobbyVars
  PROVE  PoolInv'
<1>. USE DEF LobbyTypeOK, Label
<1>1. CASE \E w \in Worker : Takes(w)
  <2>1. PICK w \in Worker : Takes(w)
    BY <1>1
  <2>2. pc[w] = "idle" /\ conn[w] = Nothing
    BY <2>1 DEF Takes, PoolInv
  <2>3. PICK l \in Label \ {"idle"}, c \in free :
          /\ free' = free \ {c}
          /\ conn' = [conn EXCEPT ![w] = c]
          /\ pc' = [pc EXCEPT ![w] = l]
          /\ fault' = fault
    <3>1. free # {}
      BY <2>2, PopFindsOne
    <3>. QED
      BY <2>1, <3>1 DEF Takes, Pop, Goto
  <2>4. Holders' = Holders \cup {w} /\ w \notin Holders
    BY <2>2, <2>3 DEF Holders, ConstantsFit
  <2>5. \A v \in Holders : conn'[v] = conn[v]
    BY <2>2, <2>3 DEF Holders
  <2>6. conn'[w] = c
    BY <2>3
  <2>7. PoolSuffices'
    <3>1. (\A d \in Connection : d \in free \/ \E v \in Holders : conn[v] = d)'
      BY <2>3, <2>4, <2>5, <2>6 DEF PoolInv, PoolSuffices
    <3>2. (\A v \in Holders : conn[v] \notin free)'
      BY <2>3, <2>4, <2>5, <2>6 DEF PoolInv, PoolSuffices
    <3>3. (\A u, v \in Holders : conn[u] = conn[v] => u = v)'
      BY <2>3, <2>4, <2>5, <2>6 DEF PoolInv, PoolSuffices
    <3>. QED
      BY <2>3, <3>1, <3>2, <3>3 DEF PoolInv, PoolSuffices
  <2>8. \A v \in Worker : conn'[v] # Nothing <=> pc'[v] # "idle"
    BY <2>3 DEF PoolInv, ConstantsFit
  <2>. QED
    BY <2>7, <2>8 DEF PoolInv
<1>2. CASE \E w \in Worker : Gives(w)
  <2>1. PICK w \in Worker : Gives(w)
    BY <1>2
  <2>2. /\ w \in Holders
        /\ free' = free \cup {conn[w]}
        /\ conn' = [conn EXCEPT ![w] = Nothing]
        /\ pc' = [pc EXCEPT ![w] = "idle"]
        /\ fault' = fault
    BY <2>1 DEF Gives, Push, Goto, PoolInv, Holders
  <2>3. Holders' = Holders \ {w}
    BY <2>2 DEF Holders
  <2>4. \A v \in Holders \ {w} : conn'[v] = conn[v]
    BY <2>2 DEF Holders
  <2>5. PoolSuffices'
    <3>1. (\A d \in Connection : d \in free \/ \E v \in Holders : conn[v] = d)'
      BY <2>2, <2>3, <2>4 DEF PoolInv, PoolSuffices
    <3>2. (\A v \in Holders : conn[v] \notin free)'
      BY <2>2, <2>3, <2>4 DEF PoolInv, PoolSuffices
    <3>3. (\A u, v \in Holders : conn[u] = conn[v] => u = v)'
      BY <2>2, <2>3, <2>4 DEF PoolInv, PoolSuffices
    <3>. QED
      BY <2>2, <3>1, <3>2, <3>3 DEF PoolInv, PoolSuffices
  <2>6. \A v \in Worker : conn'[v] # Nothing <=> pc'[v] # "idle"
    BY <2>2 DEF PoolInv
  <2>. QED
    BY <2>5, <2>6 DEF PoolInv
<1>3. CASE \E w \in Worker : Works(w)
  <2>1. PICK w \in Worker : Works(w)
    BY <1>3
  <2>2. PoolSuffices'
    BY <2>1 DEF Works, pool, PoolInv, PoolSuffices, Holders
  <2>3. \A v \in Worker : conn'[v] # Nothing <=> pc'[v] # "idle"
    BY <2>1 DEF Works, pool, Goto, PoolInv
  <2>. QED
    BY <2>2, <2>3 DEF PoolInv
<1>4. CASE UNCHANGED <<pool, pc, fault>>
  BY <1>4 DEF PoolInv, PoolSuffices, Holders, pool
<1>. QED
  BY <1>1, <1>2, <1>3, <1>4, PoolUse

-----------------------------------------------------------------------------
(* Types                                                                   *)

LEMMA PopMoves ==
  ASSUME ConstantsFit, LobbyTypeOK, PoolInv,
         NEW w \in Worker, pc[w] = "idle", NEW l \in Label \ {"idle"}, Pop(w, l)
  PROVE  /\ pc' = [pc EXCEPT ![w] = l]
         /\ fault' = fault
         /\ free' \subseteq Connection
         /\ conn' \in [Worker -> Connection \cup {Nothing}]
<1>1. free # {}
  BY PopFindsOne
<1>. QED
  BY <1>1 DEF Pop, Goto, LobbyTypeOK

LEMMA LobbyTypeInit ==
  ASSUME ConstantsFit, LobbyInit
  PROVE  LobbyTypeOK
<1>1. OldPlayers \in Seq(Account) /\ DOMAIN OldPlayers \subseteq Nat
  BY DEF ConstantsFit
<1>. QED
  BY <1>1 DEF LobbyInit, LobbyTypeOK, ConstantsFit, Label

LEMMA LobbyTypeStep ==
  ASSUME ConstantsFit, LobbyTypeOK, PoolInv, PacketInv, SessionInv, [LobbyNext]_lobbyVars
  PROVE  LobbyTypeOK'
<1>. USE DEF LobbyTypeOK, At, Goto, pool, lobby, tables
<1>1. ASSUME NEW w \in Worker, BeginJob(w) PROVE LobbyTypeOK'
  <2>1. /\ pc' = [pc EXCEPT ![w] = "job"] /\ fault' = fault /\ free' \subseteq Connection
        /\ conn' \in [Worker -> Connection \cup {Nothing}]
    BY <1>1, PopMoves DEF BeginJob, Label
  <2>. QED
    BY <1>1, <2>1 DEF BeginJob, Label
<1>2. ASSUME NEW w \in Worker, EndJob(w) PROVE LobbyTypeOK'
  <2>1. conn[w] \in Connection
    BY <1>2 DEF EndJob, PoolInv
  <2>. QED
    BY <1>2, <2>1 DEF EndJob, Push, Label
<1>3. ASSUME NEW w \in Worker, NEW s \in Session, NEW a \in Account, BeginLogin(w, s, a)
      PROVE  LobbyTypeOK'
  <2>1. /\ pc' = [pc EXCEPT ![w] = "select"] /\ fault' = fault /\ free' \subseteq Connection
        /\ conn' \in [Worker -> Connection \cup {Nothing}]
    BY <1>3, PopMoves DEF BeginLogin, BeginPacket, Label
  <2>2. Length[a] \in Nat
    BY DEF ConstantsFit
  <2>. QED
    BY <1>3, <2>1, <2>2 DEF BeginLogin, BeginPacket, Label
<1>4. ASSUME NEW w \in Worker, NEW s \in Session, BeginCreate(w, s) PROVE LobbyTypeOK'
  <2>1. /\ pc' = [pc EXCEPT ![w] = "player"] /\ fault' = fault /\ free' \subseteq Connection
        /\ conn' \in [Worker -> Connection \cup {Nothing}]
    BY <1>4, PopMoves DEF BeginCreate, BeginPacket, Label
  <2>. QED
    BY <1>4, <2>1 DEF BeginCreate, BeginPacket, Label
<1>5. ASSUME NEW w \in Worker, NEW s \in Session, BeginEnterGame(w, s) PROVE LobbyTypeOK'
  <2>1. /\ pc' = [pc EXCEPT ![w] = "items"] /\ fault' = fault /\ free' \subseteq Connection
        /\ conn' \in [Worker -> Connection \cup {Nothing}]
    BY <1>5, PopMoves DEF BeginEnterGame, BeginPacket, Label
  <2>. QED
    BY <1>5, <2>1 DEF BeginEnterGame, BeginPacket, Label
<1>6. ASSUME NEW w \in Worker, SelectAccount(w) PROVE LobbyTypeOK'
  <2>1. serves[w] \in Session /\ asked[serves[w]] \in Account
    BY <1>6 DEF SelectAccount, PacketInv, SessionInv
  <2>2. RowsOf(asked[serves[w]]) \subseteq Nat
    BY DEF RowsOf, PlayersOf, NoPlayer
  <2>. QED
    BY <1>6, <2>1, <2>2 DEF SelectAccount, Label
<1>7. ASSUME NEW w \in Worker, InsertAccount(w) PROVE LobbyTypeOK'
  <2>1. serves[w] \in Session /\ asked[serves[w]] \in Account
    BY <1>7 DEF InsertAccount, PacketInv, SessionInv
  <2>2. CASE asked[serves[w]] \in accounts
    BY <1>7, <2>2 DEF InsertAccount, Label
  <2>3. CASE asked[serves[w]] \notin accounts
    <3>0. /\ accounts' = accounts \cup {asked[serves[w]]}
          /\ account' = [account EXCEPT ![serves[w]] = asked[serves[w]]]
      BY <1>7, <2>3 DEF InsertAccount
    <3>1. accounts' \subseteq Account /\ account' \in [Session -> Account \cup {Nothing}]
      BY <2>1, <3>0
    <3>2. pc' \in [Worker -> Label] /\ fault' = fault
      BY <1>7, <2>3 DEF InsertAccount, Label
    <3>. QED
      BY <1>7, <3>1, <3>2 DEF InsertAccount
  <2>. QED
    BY <2>2, <2>3
<1>8. ASSUME NEW w \in Worker, EnterLobby(w) PROVE LobbyTypeOK'
  <2>1. conn[w] \in Connection
    BY <1>8 DEF EnterLobby, PoolInv
  <2>. QED
    BY <1>8, <2>1 DEF EnterLobby, EndPacket, Push, Label
<1>9. ASSUME NEW w \in Worker, InsertPlayer(w) PROVE LobbyTypeOK'
  <2>1. serves[w] \in Session /\ account[serves[w]] \in Account
    BY <1>9 DEF InsertPlayer, PacketInv, SessionInv
  <2>2. owner' \in Seq(Account) /\ Len(owner') \in Nat
    <3>1. owner' = Append(owner, account[serves[w]])
      BY <1>9 DEF InsertPlayer
    <3>2. owner \in Seq(Account)
      OBVIOUS
    <3>. HIDE DEF LobbyTypeOK
    <3>. QED
      BY <2>1, <3>1, <3>2
  <2>. QED
    BY <1>9, <2>2 DEF InsertPlayer, Label
<1>10. ASSUME NEW w \in Worker, InsertStats(w) PROVE LobbyTypeOK'
  <2>1. conn[w] \in Connection /\ serves[w] \in Session
    BY <1>10 DEF InsertStats, PoolInv, PacketInv
  <2>. QED
    BY <1>10, <2>1 DEF InsertStats, EndPacket, Push, Label
<1>11. ASSUME NEW w \in Worker, EnterGame(w) PROVE LobbyTypeOK'
  <2>1. conn[w] \in Connection
    BY <1>11 DEF EnterGame, PoolInv
  <2>. QED
    BY <1>11, <2>1 DEF EnterGame, EndPacket, Push, Label
<1>12. CASE UNCHANGED lobbyVars
  BY <1>12 DEF lobbyVars
<1>13. ASSUME NEW w \in Worker, LongName(w) PROVE LobbyTypeOK'
  BY <1>13 DEF LongName
<1>. QED
  BY <1>1, <1>2, <1>3, <1>4, <1>5, <1>6, <1>7, <1>8, <1>9, <1>10, <1>11, <1>12, <1>13, [LobbyNext]_lobbyVars
  DEF LobbyNext

-----------------------------------------------------------------------------
(* The handlers of packets                                                 *)

LEMMA PacketStep ==
  ASSUME ConstantsFit, LobbyTypeOK, PoolInv, PacketInv, [LobbyNext]_lobbyVars
  PROVE  PacketInv'
<1>. USE DEF LobbyTypeOK, PacketInv, At, Goto, pool, lobby, tables
<1>1. ASSUME NEW w \in Worker, BeginJob(w) PROVE PacketInv'
  <2>1. pc' = [pc EXCEPT ![w] = "job"]
    BY <1>1, PopMoves DEF BeginJob, Label
  <2>. QED
    BY <1>1, <2>1 DEF BeginJob
<1>2. ASSUME NEW w \in Worker, EndJob(w) PROVE PacketInv'
  BY <1>2 DEF EndJob, Push
<1>3. ASSUME NEW w \in Worker, NEW s \in Session, NEW a \in Account, BeginLogin(w, s, a)
      PROVE  PacketInv'
  <2>1. pc' = [pc EXCEPT ![w] = "select"]
    BY <1>3, PopMoves DEF BeginLogin, BeginPacket, Label
  <2>. QED
    BY <1>3, <2>1 DEF BeginLogin, BeginPacket, ConstantsFit
<1>4. ASSUME NEW w \in Worker, NEW s \in Session, BeginCreate(w, s) PROVE PacketInv'
  <2>1. pc' = [pc EXCEPT ![w] = "player"]
    BY <1>4, PopMoves DEF BeginCreate, BeginPacket, Label
  <2>. QED
    BY <1>4, <2>1 DEF BeginCreate, BeginPacket, ConstantsFit
<1>5. ASSUME NEW w \in Worker, NEW s \in Session, BeginEnterGame(w, s) PROVE PacketInv'
  <2>1. pc' = [pc EXCEPT ![w] = "items"]
    BY <1>5, PopMoves DEF BeginEnterGame, BeginPacket, Label
  <2>. QED
    BY <1>5, <2>1 DEF BeginEnterGame, BeginPacket, ConstantsFit
<1>6. ASSUME NEW w \in Worker, SelectAccount(w) PROVE PacketInv'
  <2>1. pc' = [pc EXCEPT ![w] = "loggedIn"] \/ pc' = [pc EXCEPT ![w] = "insert"]
    BY <1>6 DEF SelectAccount
  <2>. QED
    BY <1>6, <2>1 DEF SelectAccount
<1>7. ASSUME NEW w \in Worker, InsertAccount(w) PROVE PacketInv'
  <2>1. pc' = [pc EXCEPT ![w] = "loggedIn"] \/ pc' = pc
    BY <1>7 DEF InsertAccount
  <2>. QED
    BY <1>7, <2>1 DEF InsertAccount
<1>8. ASSUME NEW w \in Worker, EnterLobby(w) PROVE PacketInv'
  BY <1>8 DEF EnterLobby, EndPacket, Push
<1>9. ASSUME NEW w \in Worker, InsertPlayer(w) PROVE PacketInv'
  BY <1>9 DEF InsertPlayer
<1>10. ASSUME NEW w \in Worker, InsertStats(w) PROVE PacketInv'
  BY <1>10 DEF InsertStats, EndPacket, Push
<1>11. ASSUME NEW w \in Worker, EnterGame(w) PROVE PacketInv'
  BY <1>11 DEF EnterGame, EndPacket, Push
<1>12. CASE UNCHANGED lobbyVars
  BY <1>12 DEF lobbyVars
<1>13. ASSUME NEW w \in Worker, LongName(w) PROVE PacketInv'
  BY <1>13 DEF LongName
<1>. QED
  BY <1>1, <1>2, <1>3, <1>4, <1>5, <1>6, <1>7, <1>8, <1>9, <1>10, <1>11, <1>12, <1>13, [LobbyNext]_lobbyVars
  DEF LobbyNext

LEMMA RaceStep ==
  ASSUME ConstantsFit, LobbyTypeOK, PoolInv, PacketInv, SessionInv, Rivals, [LobbyNext]_lobbyVars
  PROVE  Rivals'
<1>a. \A v \in Worker : serves[v] # Nothing => serves[v] \in Session
  BY DEF LobbyTypeOK
<1>b. \A v \in Worker :
        pc[v] \in {"select", "insert"} => serves[v] \in Session /\ account[serves[v]] = Nothing
  BY <1>a DEF PacketInv, SessionInv, Fresh
<1>. USE DEF LobbyTypeOK, Rivals, Taken, RivalInserted, At, Goto, pool, lobby, tables
<1>1. ASSUME NEW w \in Worker, BeginJob(w) PROVE Rivals'
  <2>1. pc' = [pc EXCEPT ![w] = "job"]
    BY <1>1, PopMoves DEF BeginJob, Label
  <2>. QED
    BY <1>1, <2>1 DEF BeginJob
<1>2. ASSUME NEW w \in Worker, EndJob(w) PROVE Rivals'
  BY <1>2 DEF EndJob, Push
<1>3. ASSUME NEW w \in Worker, NEW s \in Session, NEW a \in Account, BeginLogin(w, s, a)
      PROVE  Rivals'
  <2>1. pc' = [pc EXCEPT ![w] = "select"]
    BY <1>3, PopMoves DEF BeginLogin, BeginPacket, Label
  <2>2. \A v \in Worker \ {w} : serves'[v] = serves[v] /\ serves[v] # s
    BY <1>3 DEF BeginLogin, BeginPacket
  <2>3. \A r \in Session \ {s} : asked'[r] = asked[r]
    BY <1>3 DEF BeginLogin
  <2>4. \A v \in Worker : pc[v] = "insert" => serves[v] \in Session
    BY <1>b
  <2>. QED
    BY <1>3, <2>1, <2>2, <2>3, <2>4 DEF BeginLogin
<1>4. ASSUME NEW w \in Worker, NEW s \in Session, BeginCreate(w, s) PROVE Rivals'
  <2>1. pc' = [pc EXCEPT ![w] = "player"]
    BY <1>4, PopMoves DEF BeginCreate, BeginPacket, Label
  <2>. QED
    BY <1>4, <2>1 DEF BeginCreate, BeginPacket
<1>5. ASSUME NEW w \in Worker, NEW s \in Session, BeginEnterGame(w, s) PROVE Rivals'
  <2>1. pc' = [pc EXCEPT ![w] = "items"]
    BY <1>5, PopMoves DEF BeginEnterGame, BeginPacket, Label
  <2>. QED
    BY <1>5, <2>1 DEF BeginEnterGame, BeginPacket
<1>6. ASSUME NEW w \in Worker, SelectAccount(w) PROVE Rivals'
  <2>1. serves[w] \in Session /\ account[serves[w]] = Nothing
    BY <1>6, <1>b DEF SelectAccount
  <2>2. \A s \in Session : account[s] # Nothing => account'[s] = account[s]
    BY <1>6, <2>1 DEF SelectAccount
  <2>3. \A v \in Worker : pc'[v] = "insert" /\ v # w => pc[v] = "insert"
    BY <1>6 DEF SelectAccount
  <2>4. pc'[w] = "insert" => asked[serves[w]] \notin accounts
    BY <1>6 DEF SelectAccount
  <2>5. \A v \in Worker : pc[v] = "insert" => asked[serves[v]] # Nothing
    BY DEF SessionInv, ConstantsFit
  <2>6. serves' = serves /\ asked' = asked /\ accounts' = accounts
    BY <1>6 DEF SelectAccount
  <2>. SUFFICES ASSUME NEW v \in Worker, pc'[v] = "insert", asked[serves[v]] \in accounts
                PROVE  \E s \in Session \ {serves[v]} : account'[s] = asked[serves[v]]
    BY <2>6
  <2>7. v # w /\ pc[v] = "insert"
    BY <2>3, <2>4
  <2>8. PICK s \in Session \ {serves[v]} : account[s] = asked[serves[v]]
    BY <2>7
  <2>9. account'[s] = account[s]
    BY <2>2, <2>5, <2>7, <2>8
  <2>. QED
    BY <2>8, <2>9
<1>7. ASSUME NEW w \in Worker, InsertAccount(w) PROVE Rivals'
  <2>1. serves[w] \in Session /\ account[serves[w]] = Nothing
    BY <1>7, <1>b DEF InsertAccount
  <2>2. \A v \in Worker : pc[v] = "insert" => asked[serves[v]] # Nothing
    BY DEF SessionInv, ConstantsFit
  <2>3. CASE asked[serves[w]] \in accounts
    BY <1>7, <2>3 DEF InsertAccount
  <2>4. CASE asked[serves[w]] \notin accounts
    <3>1. /\ accounts' = accounts \cup {asked[serves[w]]}
          /\ account' = [account EXCEPT ![serves[w]] = asked[serves[w]]]
          /\ pc' = [pc EXCEPT ![w] = "loggedIn"]
          /\ serves' = serves /\ asked' = asked
      BY <1>7, <2>4 DEF InsertAccount
    <3>2. \A s \in Session : account[s] # Nothing => account'[s] = account[s]
      BY <2>1, <3>1
    <3>3. \A v \in Worker : pc'[v] = "insert" => pc[v] = "insert" /\ v # w /\ serves[v] # serves[w]
      BY <2>1, <3>1 DEF PacketInv, ConstantsFit
    <3>4. account'[serves[w]] = asked[serves[w]]
      BY <2>1, <3>1
    <3>. QED
      BY <2>1, <2>2, <3>1, <3>2, <3>3, <3>4
  <2>. QED
    BY <2>3, <2>4
<1>8. ASSUME NEW w \in Worker, EnterLobby(w) PROVE Rivals'
  BY <1>8 DEF EnterLobby, EndPacket, Push
<1>9. ASSUME NEW w \in Worker, InsertPlayer(w) PROVE Rivals'
  BY <1>9 DEF InsertPlayer
<1>10. ASSUME NEW w \in Worker, InsertStats(w) PROVE Rivals'
  BY <1>10 DEF InsertStats, EndPacket, Push
<1>11. ASSUME NEW w \in Worker, EnterGame(w) PROVE Rivals'
  BY <1>11 DEF EnterGame, EndPacket, Push
<1>12. CASE UNCHANGED lobbyVars
  BY <1>12 DEF lobbyVars
<1>13. ASSUME NEW w \in Worker, LongName(w) PROVE Rivals'
  BY <1>13 DEF LongName
<1>. QED
  BY <1>1, <1>2, <1>3, <1>4, <1>5, <1>6, <1>7, <1>8, <1>9, <1>10, <1>11, <1>12, <1>13, [LobbyNext]_lobbyVars
  DEF LobbyNext


\* What ended the process has a cause, and nothing happens after it.
LEMMA CauseStep ==
  ASSUME ConstantsFit, LobbyTypeOK, PoolInv, Causes, [LobbyNext]_lobbyVars
  PROVE  Causes'
<1>. USE DEF At, Taken, Overlong
<1>1. fault' = fault \/ \E w \in Worker : InsertAccount(w) \/ LongName(w)
  BY PopMoves DEF LobbyNext, lobbyVars, BeginJob, EndJob, BeginLogin, BeginCreate, BeginEnterGame,
                  BeginPacket, EndPacket, SelectAccount, EnterLobby, InsertPlayer, InsertStats, EnterGame,
                  Label
<1>2. CASE fault \in {"none", "null"} /\ fault' = fault
  BY <1>2 DEF Causes
<1>3. CASE fault \notin {"none", "null"}
  <2>1. UNCHANGED lobbyVars
    BY <1>3 DEF LobbyNext, BeginJob, EndJob, BeginLogin, BeginCreate, BeginEnterGame, BeginPacket,
                SelectAccount, InsertAccount, EnterLobby, InsertPlayer, InsertStats, EnterGame, LongName
  <2>. QED
    BY <2>1 DEF Causes, lobbyVars
<1>4. ASSUME NEW w \in Worker, InsertAccount(w), fault' # fault PROVE Causes'
  BY <1>4 DEF InsertAccount, Causes
<1>5. ASSUME NEW w \in Worker, LongName(w) PROVE Causes'
  BY <1>5 DEF LongName, Causes, lobby
<1>. QED
  BY <1>1, <1>2, <1>3, <1>4, <1>5

-----------------------------------------------------------------------------
(* The sessions                                                            *)

\* A row of players stays.
OwnersStay == \A p \in DOMAIN owner : p \in DOMAIN owner' /\ owner'[p] = owner[p]

LEMMA InsertPlayerAdds ==
  ASSUME LobbyTypeOK, NEW w \in Worker, InsertPlayer(w)
  PROVE  /\ OwnersStay
         /\ newPlayer'[w] \in DOMAIN owner'
         /\ owner'[newPlayer'[w]] = account[serves[w]]
<1>1. owner' = Append(owner, account[serves[w]]) /\ newPlayer'[w] = Len(owner')
  BY DEF InsertPlayer, LobbyTypeOK
<1>2. owner \in Seq(Account)
  BY DEF LobbyTypeOK
<1>3. /\ Len(owner') = Len(owner) + 1
      /\ DOMAIN owner' = 1 .. Len(owner')
      /\ DOMAIN owner = 1 .. Len(owner)
      /\ Len(owner) \in Nat
      /\ \A p \in DOMAIN owner : owner'[p] = owner[p]
      /\ owner'[Len(owner')] = account[serves[w]]
  BY <1>1, <1>2
<1>. QED
  BY <1>1, <1>3 DEF OwnersStay

\* The statements about one worker and those about one session, of SessionInv.
Handles(w) ==
  /\ pc[w] \in {"select", "insert"} => Fresh(serves[w]) /\ asked[serves[w]] \in Account
  /\ pc[w] = "loggedIn" => account[serves[w]] \in Account
  /\ pc[w] = "stats" => newPlayer[w] \in PlayersOf(account[serves[w]])
  /\ pc[w] = "items" => current[serves[w]] \in lobbyPlayers[serves[w]]

Keeps(s) ==
  /\ serverState[s] = "LOGIN" /\ (\A w \in Worker : serves[w] # s) => Fresh(s)
  /\ serverState[s] # "LOGIN" => account[s] \in Account
  /\ deleted[s] => serverState[s] = "GAME"

\* A step in which only the handler of worker w and the session it serves change.
Aside(w) ==
  /\ OwnersStay
  /\ \A v \in Worker \ {w} :
       /\ pc'[v] = pc[v] /\ serves'[v] = serves[v] /\ newPlayer'[v] = newPlayer[v]
       /\ serves[v] # Nothing => serves[v] # serves[w] /\ serves[v] # serves'[w]
  /\ \A s \in Session \ {serves[w], serves'[w]} :
       /\ serverState'[s] = serverState[s] /\ asked'[s] = asked[s] /\ account'[s] = account[s]
       /\ lobbyPlayers'[s] = lobbyPlayers[s] /\ deleted'[s] = deleted[s]
       /\ current'[s] = current[s]

LEMMA AsideKeeps ==
  ASSUME ConstantsFit, LobbyTypeOK, PacketInv, SessionInv, NEW w \in Worker, Aside(w)
  PROVE  /\ \A v \in Worker \ {w} : Handles(v)'
         /\ \A s \in Session \ {serves[w], serves'[w]} : Keeps(s)'
<1>1. ASSUME NEW v \in Worker \ {w} PROVE Handles(v)'
  <2>1. CASE serves[v] = Nothing
    <3>1. pc'[v] \in {"idle", "job"}
      BY <2>1 DEF PacketInv, Aside
    <3>. QED
      BY <3>1 DEF Handles
  <2>2. CASE serves[v] # Nothing
    <3>1. serves[v] \in Session \ {serves[w], serves'[w]} /\ Handles(v)
      BY <2>2 DEF Aside, LobbyTypeOK, SessionInv, Handles
    <3>. QED
      BY <3>1 DEF Aside, OwnersStay, Handles, Fresh, PlayersOf
  <2>. QED
    BY <2>1, <2>2
<1>2. ASSUME NEW s \in Session \ {serves[w], serves'[w]} PROVE Keeps(s)'
  <2>1. Keeps(s)
    BY DEF SessionInv, Keeps
  <2>2. (\A v \in Worker : serves[v] # s)' => \A v \in Worker : serves[v] # s
    BY DEF Aside
  <2>. QED
    BY <2>1, <2>2 DEF Aside, Keeps, Fresh
<1>. QED
  BY <1>1, <1>2

\* What is left to show for a step of w.
LEMMA AsideStep ==
  ASSUME ConstantsFit, LobbyTypeOK, PacketInv, SessionInv, NEW w \in Worker, Aside(w), Handles(w)',
         \A s \in Session : s \in {serves[w], serves'[w]} => Keeps(s)'
  PROVE  SessionInv'
<1>1. \A v \in Worker : Handles(v)'
  BY AsideKeeps
<1>2. \A s \in Session : Keeps(s)'
  BY AsideKeeps
<1>. QED
  BY <1>1, <1>2 DEF SessionInv, Handles, Keeps, Fresh, PlayersOf

LEMMA SessionStep ==
  ASSUME ConstantsFit, LobbyTypeOK, PoolInv, PacketInv, SessionInv, [LobbyNext]_lobbyVars
  PROVE  SessionInv'
<1>. USE DEF LobbyTypeOK, At, Goto, pool, lobby, tables
<1>a. \A v \in Worker : serves[v] # Nothing => serves[v] \in Session
  OBVIOUS
<1>b. \A v \in Worker : Handles(v)
  BY DEF SessionInv, Handles
<1>c. \A s \in Session : Keeps(s)
  BY DEF SessionInv, Keeps
<1>1. ASSUME NEW w \in Worker, BeginJob(w) PROVE SessionInv'
  <2>1. pc' = [pc EXCEPT ![w] = "job"]
    BY <1>1, PopMoves DEF BeginJob, Label
  <2>2. serves[w] = Nothing
    BY <1>1 DEF BeginJob, PacketInv
  <2>3. Aside(w)
    BY <1>1, <2>1, <2>2 DEF BeginJob, Aside, OwnersStay
  <2>4. Handles(w)'
    BY <2>1 DEF Handles
  <2>. QED
    BY <1>1, <2>2, <2>3, <2>4, AsideStep DEF BeginJob, ConstantsFit
<1>2. ASSUME NEW w \in Worker, EndJob(w) PROVE SessionInv'
  <2>1. pc' = [pc EXCEPT ![w] = "idle"]
    BY <1>2 DEF EndJob, Push
  <2>2. serves[w] = Nothing
    BY <1>2 DEF EndJob, PacketInv
  <2>3. Aside(w)
    BY <1>2, <2>1, <2>2 DEF EndJob, Aside, OwnersStay
  <2>4. Handles(w)'
    BY <2>1 DEF Handles
  <2>. QED
    BY <1>2, <2>2, <2>3, <2>4, AsideStep DEF EndJob, ConstantsFit
<1>3. ASSUME NEW w \in Worker, NEW s \in Session, NEW a \in Account, BeginLogin(w, s, a)
      PROVE  SessionInv'
  <2>1. pc' = [pc EXCEPT ![w] = "select"]
    BY <1>3, PopMoves DEF BeginLogin, BeginPacket, Label
  <2>2. serves[w] = Nothing /\ serves'[w] = s /\ serverState[s] = "LOGIN"
    BY <1>3 DEF BeginLogin, BeginPacket, PacketInv
  <2>3. Aside(w)
    BY <1>3, <2>1, <2>2 DEF BeginLogin, BeginPacket, Aside, OwnersStay, ConstantsFit
  <2>4. Fresh(s)
    BY <1>3, <1>c, <2>2 DEF BeginLogin, BeginPacket, Keeps
  <2>5. Handles(w)'
    BY <1>3, <2>1, <2>2, <2>4 DEF BeginLogin, Handles, Fresh
  <2>6. Keeps(s)'
    BY <1>3, <1>c, <2>2, <2>4 DEF BeginLogin, Keeps, Fresh
  <2>. QED
    BY <2>2, <2>3, <2>5, <2>6, AsideStep DEF ConstantsFit
<1>4. ASSUME NEW w \in Worker, NEW s \in Session, BeginCreate(w, s) PROVE SessionInv'
  <2>1. pc' = [pc EXCEPT ![w] = "player"]
    BY <1>4, PopMoves DEF BeginCreate, BeginPacket, Label
  <2>2. serves[w] = Nothing /\ serves'[w] = s /\ serverState[s] = "LOBBY"
    BY <1>4 DEF BeginCreate, BeginPacket, PacketInv
  <2>3. Aside(w)
    BY <1>4, <2>1, <2>2 DEF BeginCreate, BeginPacket, Aside, OwnersStay, ConstantsFit
  <2>4. Handles(w)'
    BY <2>1 DEF Handles
  <2>5. Keeps(s)'
    BY <1>4, <1>c, <2>2 DEF BeginCreate, Keeps
  <2>. QED
    BY <2>2, <2>3, <2>4, <2>5, AsideStep DEF ConstantsFit
<1>5. ASSUME NEW w \in Worker, NEW s \in Session, BeginEnterGame(w, s) PROVE SessionInv'
  <2>1. pc' = [pc EXCEPT ![w] = "items"]
    BY <1>5, PopMoves DEF BeginEnterGame, BeginPacket, Label
  <2>2. serves[w] = Nothing /\ serves'[w] = s /\ serverState[s] = "LOBBY"
    BY <1>5 DEF BeginEnterGame, BeginPacket, PacketInv
  <2>3. Aside(w)
    BY <1>5, <2>1, <2>2 DEF BeginEnterGame, BeginPacket, Aside, OwnersStay, ConstantsFit
  <2>4. Handles(w)'
    BY <1>5, <2>1, <2>2 DEF BeginEnterGame, Handles
  <2>5. Keeps(s)'
    BY <1>5, <1>c, <2>2 DEF BeginEnterGame, Keeps
  <2>. QED
    BY <2>2, <2>3, <2>4, <2>5, AsideStep DEF ConstantsFit
<1>6. ASSUME NEW w \in Worker, SelectAccount(w) PROVE SessionInv'
  <2>1. /\ serves[w] \in Session /\ asked[serves[w]] \in Account
        /\ Fresh(serves[w]) /\ serverState[serves[w]] = "LOGIN"
    BY <1>6, <1>b DEF SelectAccount, PacketInv, Handles
  <2>2. serves' = serves
    BY <1>6 DEF SelectAccount
  <2>3. Aside(w)
    BY <1>6, <2>1, <2>2 DEF SelectAccount, Aside, OwnersStay, PacketInv
  <2>4. Handles(w)'
    BY <1>6, <2>1, <2>2 DEF SelectAccount, Handles, Fresh
  <2>5. \A s \in Session : s = serves[w] => Keeps(s)'
    BY <1>6, <1>c, <2>1, <2>2 DEF SelectAccount, Keeps
  <2>. QED
    BY <2>2, <2>3, <2>4, <2>5, AsideStep
<1>7. ASSUME NEW w \in Worker, InsertAccount(w) PROVE SessionInv'
  <2>1. /\ serves[w] \in Session /\ asked[serves[w]] \in Account
        /\ Fresh(serves[w]) /\ serverState[serves[w]] = "LOGIN" /\ pc[w] = "insert"
    BY <1>7, <1>b DEF InsertAccount, PacketInv, Handles
  <2>2. serves' = serves
    BY <1>7 DEF InsertAccount
  <2>3. Aside(w)
    BY <1>7, <2>1, <2>2 DEF InsertAccount, Aside, OwnersStay, PacketInv
  <2>4. Handles(w)'
    BY <1>7, <1>b, <2>1, <2>2 DEF InsertAccount, Handles, Fresh
  <2>5. \A s \in Session : s = serves[w] => Keeps(s)'
    BY <1>7, <1>c, <2>1, <2>2 DEF InsertAccount, Keeps
  <2>. QED
    BY <2>2, <2>3, <2>4, <2>5, AsideStep
<1>8. ASSUME NEW w \in Worker, EnterLobby(w) PROVE SessionInv'
  <2>1. /\ serves[w] \in Session /\ account[serves[w]] \in Account
        /\ serverState[serves[w]] = "LOGIN" /\ ~ deleted[serves[w]]
    BY <1>8, <1>b, <1>c DEF EnterLobby, PacketInv, Handles, Keeps
  <2>2. pc' = [pc EXCEPT ![w] = "idle"] /\ serves' = [serves EXCEPT ![w] = Nothing]
    BY <1>8 DEF EnterLobby, EndPacket, Push
  <2>3. Aside(w)
    BY <1>8, <2>1, <2>2 DEF EnterLobby, Aside, OwnersStay, PacketInv
  <2>4. Handles(w)'
    BY <2>2 DEF Handles
  <2>5. \A s \in Session : s = serves[w] => Keeps(s)'
    BY <1>8, <2>1, <2>2 DEF EnterLobby, Keeps
  <2>. QED
    BY <2>2, <2>3, <2>4, <2>5, AsideStep DEF ConstantsFit
<1>9. ASSUME NEW w \in Worker, InsertPlayer(w) PROVE SessionInv'
  <2>1. serves[w] \in Session /\ serverState[serves[w]] = "LOBBY"
    <3>1. pc[w] \in {"player", "stats", "items"} /\ serves[w] # Nothing
      BY <1>9 DEF InsertPlayer, PacketInv
    <3>. QED
      BY <1>a, <3>1 DEF PacketInv
  <2>2. serves' = serves /\ pc' = [pc EXCEPT ![w] = "stats"] /\ account' = account
    BY <1>9 DEF InsertPlayer
  <2>3. /\ OwnersStay /\ newPlayer'[w] \in DOMAIN owner'
        /\ owner'[newPlayer'[w]] = account[serves[w]]
    BY <1>9, InsertPlayerAdds
  <2>4. Aside(w)
    BY <1>9, <2>1, <2>2, <2>3 DEF InsertPlayer, Aside, PacketInv
  <2>5. Handles(w)'
    BY <2>2, <2>3 DEF Handles, PlayersOf
  <2>6. \A s \in Session : s = serves[w] => Keeps(s)'
    BY <1>9, <1>c, <2>1, <2>2 DEF InsertPlayer, Keeps
  <2>. QED
    BY <2>2, <2>4, <2>5, <2>6, AsideStep
<1>10. ASSUME NEW w \in Worker, InsertStats(w) PROVE SessionInv'
  <2>1. serves[w] \in Session /\ serverState[serves[w]] = "LOBBY"
    <3>1. pc[w] \in {"player", "stats", "items"} /\ serves[w] # Nothing
      BY <1>10 DEF InsertStats, PacketInv
    <3>. QED
      BY <1>a, <3>1 DEF PacketInv
  <2>2. pc' = [pc EXCEPT ![w] = "idle"] /\ serves' = [serves EXCEPT ![w] = Nothing]
    BY <1>10 DEF InsertStats, EndPacket, Push
  <2>3. Aside(w)
    BY <1>10, <2>1, <2>2 DEF InsertStats, Aside, OwnersStay, PacketInv
  <2>4. Handles(w)'
    BY <2>2 DEF Handles
  <2>5. \A s \in Session : s = serves[w] => Keeps(s)'
    BY <1>10, <1>c, <2>1 DEF InsertStats, Keeps
  <2>. QED
    BY <2>2, <2>3, <2>4, <2>5, AsideStep DEF ConstantsFit
<1>11. ASSUME NEW w \in Worker, EnterGame(w) PROVE SessionInv'
  <2>1. serves[w] \in Session /\ serverState[serves[w]] = "LOBBY"
    <3>1. pc[w] \in {"player", "stats", "items"} /\ serves[w] # Nothing
      BY <1>11 DEF EnterGame, PacketInv
    <3>. QED
      BY <1>a, <3>1 DEF PacketInv
  <2>2. pc' = [pc EXCEPT ![w] = "idle"] /\ serves' = [serves EXCEPT ![w] = Nothing]
    BY <1>11 DEF EnterGame, EndPacket, Push
  <2>3. Aside(w)
    BY <1>11, <2>1, <2>2 DEF EnterGame, Aside, OwnersStay, PacketInv
  <2>4. Handles(w)'
    BY <2>2 DEF Handles
  <2>5. \A s \in Session : s = serves[w] => Keeps(s)'
    BY <1>11, <1>c, <2>1 DEF EnterGame, Keeps
  <2>. QED
    BY <2>2, <2>3, <2>4, <2>5, AsideStep DEF ConstantsFit
<1>12. CASE UNCHANGED lobbyVars
  BY <1>12 DEF lobbyVars, SessionInv, Fresh, PlayersOf
<1>13. ASSUME NEW w \in Worker, LongName(w) PROVE SessionInv'
  BY <1>13 DEF LongName, SessionInv, Fresh, PlayersOf
<1>. QED
  BY <1>1, <1>2, <1>3, <1>4, <1>5, <1>6, <1>7, <1>8, <1>9, <1>10, <1>11, <1>12, <1>13, [LobbyNext]_lobbyVars
  DEF LobbyNext

LEMMA ListStep ==
  ASSUME ConstantsFit, LobbyTypeOK, PoolInv, PacketInv, SessionInv, ListIsOwn, [LobbyNext]_lobbyVars
  PROVE  ListIsOwn'
<1>. USE DEF LobbyTypeOK, At, Goto, pool, lobby, tables, ListIsOwn, PlayersOf
<1>a. \A v \in Worker : serves[v] # Nothing => serves[v] \in Session
  OBVIOUS
<1>b. \A v \in Worker : Handles(v)
  BY DEF SessionInv, Handles
<1>c. \A s \in Session : Keeps(s)
  BY DEF SessionInv, Keeps
<1>1. ASSUME NEW w \in Worker, BeginJob(w) PROVE ListIsOwn'
  BY <1>1 DEF BeginJob
<1>2. ASSUME NEW w \in Worker, EndJob(w) PROVE ListIsOwn'
  BY <1>2 DEF EndJob
<1>3. ASSUME NEW w \in Worker, NEW s \in Session, NEW a \in Account, BeginLogin(w, s, a)
      PROVE  ListIsOwn'
  BY <1>3 DEF BeginLogin
<1>4. ASSUME NEW w \in Worker, NEW s \in Session, BeginCreate(w, s) PROVE ListIsOwn'
  BY <1>4 DEF BeginCreate
<1>5. ASSUME NEW w \in Worker, NEW s \in Session, BeginEnterGame(w, s) PROVE ListIsOwn'
  BY <1>5 DEF BeginEnterGame, BeginPacket
<1>6. ASSUME NEW w \in Worker, SelectAccount(w) PROVE ListIsOwn'
  <2>1. /\ serves[w] \in Session
        /\ serverState[serves[w]] = "LOGIN"
    BY <1>6, <1>a DEF SelectAccount, PacketInv
  <2>2. CASE asked[serves[w]] \in accounts
    <3>1. /\ account' = [account EXCEPT ![serves[w]] = asked[serves[w]]]
          /\ lobbyPlayers' = [lobbyPlayers EXCEPT ![serves[w]] = RowsOf(asked[serves[w]])]
          /\ serverState' = serverState /\ deleted' = deleted
          /\ current' = current /\ owner' = owner
      BY <1>6, <2>2 DEF SelectAccount
    <3>2. \A p \in RowsOf(asked[serves[w]]) : p # NoPlayer => p \in PlayersOf(asked[serves[w]])
      BY DEF RowsOf
    <3>. QED
      BY <2>1, <3>1, <3>2
  <2>3. CASE asked[serves[w]] \notin accounts
    BY <1>6, <2>3 DEF SelectAccount
  <2>. QED
    BY <2>2, <2>3
<1>7. ASSUME NEW w \in Worker, InsertAccount(w) PROVE ListIsOwn'
  <2>1. serves[w] \in Session /\ lobbyPlayers[serves[w]] = {}
    BY <1>7, <1>a, <1>b DEF InsertAccount, PacketInv, Handles, Fresh
  <2>2. /\ \A s \in Session \ {serves[w]} : account'[s] = account[s]
        /\ lobbyPlayers' = lobbyPlayers
        /\ serverState' = serverState /\ deleted' = deleted
        /\ current' = current /\ owner' = owner
    BY <1>7 DEF InsertAccount
  <2>. QED
    BY <2>1, <2>2
<1>8. ASSUME NEW w \in Worker, EnterLobby(w) PROVE ListIsOwn'
  <2>1. serves[w] \in Session /\ serverState[serves[w]] = "LOGIN" /\ ~ deleted[serves[w]]
    BY <1>8, <1>a, <1>c DEF EnterLobby, PacketInv, Keeps
  <2>. QED
    BY <1>8, <2>1 DEF EnterLobby
<1>9. ASSUME NEW w \in Worker, InsertPlayer(w) PROVE ListIsOwn'
  <2>1. OwnersStay
    BY <1>9, InsertPlayerAdds
  <2>. QED
    BY <1>9, <2>1 DEF InsertPlayer, OwnersStay
<1>10. ASSUME NEW w \in Worker, InsertStats(w) PROVE ListIsOwn'
  <2>1. serves[w] \in Session /\ newPlayer[w] \in PlayersOf(account[serves[w]])
    BY <1>10, <1>a, <1>b DEF InsertStats, PacketInv, Handles
  <2>2. /\ lobbyPlayers' = [lobbyPlayers EXCEPT ![serves[w]] = @ \cup {newPlayer[w]}]
        /\ serverState' = serverState /\ deleted' = deleted /\ account' = account
        /\ current' = current /\ owner' = owner
    BY <1>10 DEF InsertStats
  <2>. QED
    BY <2>1, <2>2
<1>11. ASSUME NEW w \in Worker, EnterGame(w) PROVE ListIsOwn'
  <2>1. serves[w] \in Session /\ current[serves[w]] \in lobbyPlayers[serves[w]]
    BY <1>11, <1>a, <1>b DEF EnterGame, PacketInv, Handles
  <2>. QED
    BY <1>11, <2>1 DEF EnterGame
<1>12. CASE UNCHANGED lobbyVars
  BY <1>12 DEF lobbyVars
<1>13. ASSUME NEW w \in Worker, LongName(w) PROVE ListIsOwn'
  BY <1>13 DEF LongName
<1>. QED
  BY <1>1, <1>2, <1>3, <1>4, <1>5, <1>6, <1>7, <1>8, <1>9, <1>10, <1>11, <1>12, <1>13, [LobbyNext]_lobbyVars
  DEF LobbyNext

-----------------------------------------------------------------------------
(* The theorems                                                            *)

LEMMA LobbyInitHolds ==
  ASSUME ConstantsFit, LobbyInit
  PROVE  LobbyInv
<1>1. LobbyTypeOK
  BY LobbyTypeInit
<1>2. PoolInv
  BY DEF LobbyInit, PoolInv, PoolSuffices, Holders
<1>3. PacketInv
  BY DEF LobbyInit, PacketInv
<1>4. SessionInv
  BY DEF LobbyInit, SessionInv, Fresh
<1>5. Rivals /\ Causes /\ ListIsOwn
  BY DEF LobbyInit, Rivals, Taken, Causes, ListIsOwn
<1>. QED
  BY <1>1, <1>2, <1>3, <1>4, <1>5 DEF LobbyInv

LEMMA LobbyStepKeeps ==
  ASSUME ConstantsFit, LobbyInv, [LobbyNext]_lobbyVars
  PROVE  LobbyInv'
<1>1. LobbyTypeOK /\ PoolInv /\ PacketInv /\ SessionInv /\ Rivals /\ Causes /\ ListIsOwn
  BY DEF LobbyInv
<1>2. LobbyTypeOK' /\ PoolInv'
  BY <1>1, LobbyTypeStep, PoolStep
<1>3. PacketInv' /\ SessionInv'
  BY <1>1, PacketStep, SessionStep
<1>4. Rivals' /\ Causes' /\ ListIsOwn'
  BY <1>1, RaceStep, CauseStep, ListStep
<1>. QED
  BY <1>2, <1>3, <1>4 DEF LobbyInv

LEMMA LobbyInvHolds ==
  ASSUME ConstantsFit
  PROVE  LobbySpec => []LobbyInv
<1>1. LobbyInit => LobbyInv
  BY LobbyInitHolds
<1>2. LobbyInv /\ [LobbyNext]_lobbyVars => LobbyInv'
  BY LobbyStepKeeps
<1>. QED
  BY <1>1, <1>2, PTL DEF LobbySpec

\* With a connection for every worker Pop never returns nullptr, which its callers
\* dereference: none is lost, held by two, or both held and in the pool
\* (DBConnectionPool.cpp:49-67 and the handlers that pop and push).
THEOREM ConnectionsSuffice ==
  ASSUME ConstantsFit
  PROVE  LobbySpec => []PoolSuffices
<1>1. LobbyInv => PoolSuffices
  BY DEF LobbyInv, PoolInv
<1>. QED
  BY <1>1, LobbyInvHolds, PTL

\* With a connection for every worker (ConnectionsSuffice) the lobby ends the process for
\* two reasons only: a second session logs in with the same new name at the same time, or
\* the name of an account or of a player has 50 characters or more
\* (GameSession.cpp:163-204, 228-237, DBBind.h:58-69, 139, ServerDB.cpp:21).
THEOREM NameFailureIsRace ==
  ASSUME ConstantsFit
  PROVE  LobbySpec => []FailureIsRace
<1>1. LobbyInv => FailureIsRace
  BY DEF LobbyInv, Rivals, Causes, Taken, FailureIsRace
<1>. QED
  BY <1>1, LobbyInvHolds, PTL

\* Whoever else is in the lobby, also with the same account, a session lists only
\* players of its own account, enters the game with one it listed, and has not deleted
\* the list it still chooses from (GameSession.cpp:133-187, 256-268, 284-304, 351-364).
THEOREM ListsAreOwn ==
  ASSUME ConstantsFit
  PROVE  LobbySpec => []ListIsOwn
<1>1. LobbyInv => ListIsOwn
  BY DEF LobbyInv
<1>. QED
  BY <1>1, LobbyInvHolds, PTL
-----------------------------------------------------------------------------
(* The heartbeat                                                           *)

ConstantsAreTimes == Period \in Nat /\ Limit \in Nat /\ Late \in Nat /\ Word \in Nat

Timed ==
  /\ BeatTypeOK
  /\ tick <= now
  /\ handler = "store" => tick <= pong /\ pong <= now
  /\ ping # "over" => now <= due + Late
  /\ ping # "wait" => due <= now
  /\ due <= now + Period

SilentInv ==
  /\ Timed
  /\ ping \in {"wait", "tick", "clock"} => due <= tick + Limit + Period + Late
  /\ ping = "tick" => due <= read /\ read <= now
  /\ ping = "clock" => read <= tick
  /\ ping \in {"send", "reserve"} => due <= tick + Limit

Quiet == unanswered = 0 /\ handler = "idle"

PromptInv ==
  /\ Timed
  /\ ping # "over"
  /\ ping \in {"tick", "clock", "send"} => Quiet
  /\ Quiet /\ ping = "wait" => due <= tick + Period + Late
  /\ handler = "store" /\ ping = "wait" => due <= pong + Period + Late
  /\ ping \in {"tick", "clock"} => due <= tick + Period + Late
  /\ ping = "tick" => tick <= read /\ read <= now
  /\ ping = "clock" => read = tick
  /\ Quiet /\ ping = "reserve" => due <= tick
  /\ handler = "store" /\ ping = "reserve" => due <= pong
  /\ unanswered + (IF handler = "store" THEN 1 ELSE 0) <= 1

LEMMA TimedInit ==
  ASSUME ConstantsAreTimes, BeatInit
  PROVE  Timed
BY DEF ConstantsAreTimes, BeatInit, Timed, BeatTypeOK, PingLabel

LEMMA TimedStep ==
  ASSUME ConstantsAreTimes, Timed, [BeatNext]_beatVars
  PROVE  Timed'
<1>. USE DEF ConstantsAreTimes, Timed, BeatTypeOK, PingLabel
<1>1. CASE ReserveNext
  BY <1>1 DEF ReserveNext
<1>2. CASE ReadClock
  BY <1>2 DEF ReadClock
<1>3. CASE ReadTick
  BY <1>3 DEF ReadTick
<1>4. CASE JudgeByTick
  BY <1>4 DEF JudgeByTick, Judge
<1>5. CASE JudgeByClock
  BY <1>5 DEF JudgeByClock, Judge
<1>6. CASE SendPing
  BY <1>6 DEF SendPing
<1>7. CASE ReadPong
  BY <1>7 DEF ReadPong
<1>8. CASE StorePong
  BY <1>8 DEF StorePong
<1>9. CASE Tick
  BY <1>9 DEF Tick
<1>10. CASE UNCHANGED beatVars
  BY <1>10 DEF beatVars
<1>. QED
  BY <1>1, <1>2, <1>3, <1>4, <1>5, <1>6, <1>7, <1>8, <1>9, <1>10,
     [BeatNext]_beatVars DEF BeatNext

LEMMA SilentStep ==
  ASSUME ConstantsAreTimes, SilentInv, [BeatNext]_beatVars
  PROVE  SilentInv'
<1>1. Timed'
  BY TimedStep DEF SilentInv
<1>. USE DEF ConstantsAreTimes, SilentInv, Timed, BeatTypeOK, PingLabel
<1>2. CASE ReserveNext
  BY <1>1, <1>2 DEF ReserveNext
<1>3. CASE ReadClock
  BY <1>1, <1>3 DEF ReadClock
<1>4. CASE ReadTick
  BY <1>1, <1>4 DEF ReadTick
<1>5. CASE JudgeByTick
  <2>1. Diff(read, tick) <= Limit => read <= tick + Limit
    BY <1>5 DEF JudgeByTick, Diff
  <2>2. ping' = "send" => due <= tick + Limit
    BY <1>5, <2>1 DEF JudgeByTick, Judge, Diff
  <2>. QED
    BY <1>1, <1>5, <2>2 DEF JudgeByTick, Judge
<1>6. CASE JudgeByClock
  <2>1. ping' = "send" => due <= tick + Limit
    BY <1>6 DEF JudgeByClock, Judge, Diff
  <2>. QED
    BY <1>1, <1>6, <2>1 DEF JudgeByClock, Judge
<1>7. CASE SendPing
  BY <1>1, <1>7 DEF SendPing
<1>8. CASE ReadPong
  BY <1>1, <1>8 DEF ReadPong
<1>9. CASE StorePong
  BY <1>1, <1>9 DEF StorePong
<1>10. CASE Tick
  BY <1>1, <1>10 DEF Tick
<1>11. CASE UNCHANGED beatVars
  BY <1>1, <1>11 DEF beatVars
<1>. QED
  BY <1>2, <1>3, <1>4, <1>5, <1>6, <1>7, <1>8, <1>9, <1>10, <1>11, [BeatNext]_beatVars DEF BeatNext

\* A silent or closed session is let go of within the limit, a period and two
\* delays, although HeartbeatTick is read and written without a lock
\* (Heartbeat.cpp:6-24).
THEOREM SilentIsDropped ==
  ASSUME ConstantsAreTimes
  PROVE  BeatSpec => []SilentGoes
<1>1. BeatInit => SilentInv
  BY TimedInit DEF BeatInit, SilentInv, ConstantsAreTimes
<1>2. SilentInv /\ [BeatNext]_beatVars => SilentInv'
  BY SilentStep
<1>3. SilentInv => SilentGoes
  BY DEF SilentInv, SilentGoes, Failed, Timed, BeatTypeOK, PingLabel, ConstantsAreTimes
<1>. QED
  BY <1>1, <1>2, <1>3, PTL DEF BeatSpec

-----------------------------------------------------------------------------
LEMMA PromptStep ==
  ASSUME ConstantsAreTimes, Period + 2 * Late <= Limit,
         PromptInv,
     [BeatNext /\ Prompt]_beatVars
  PROVE  PromptInv'
<1>1. Timed'
  <2>1. [BeatNext]_beatVars
    OBVIOUS
  <2>. QED
    BY <2>1, TimedStep DEF PromptInv
<1>. USE DEF ConstantsAreTimes, PromptInv, Timed, BeatTypeOK, PingLabel, Quiet
<1>2. CASE ReserveNext
  BY <1>1, <1>2 DEF ReserveNext
<1>3. CASE ReadClock /\ Prompt
  BY <1>1, <1>3 DEF ReadClock, Prompt
<1>4. CASE ReadTick /\ Prompt
  BY <1>1, <1>4 DEF ReadTick, Prompt
<1>5. CASE JudgeByTick
  <2>1. Diff(read, tick) <= Limit
    BY <1>5 DEF JudgeByTick, Diff
  <2>2. ping' = "send"
    BY <1>5, <2>1 DEF JudgeByTick, Judge, Diff
  <2>. QED
    BY <1>1, <1>5, <2>2 DEF JudgeByTick, Judge
<1>6. CASE JudgeByClock
  <2>1. ping' = "send"
    BY <1>6 DEF JudgeByClock, Judge, Diff
  <2>. QED
    BY <1>1, <1>6, <2>1 DEF JudgeByClock, Judge
<1>7. CASE SendPing
  BY <1>1, <1>7 DEF SendPing
<1>8. CASE ReadPong
  BY <1>1, <1>8 DEF ReadPong
<1>9. CASE StorePong
  BY <1>1, <1>9 DEF StorePong
<1>10. CASE Tick
  BY <1>1, <1>10 DEF Tick
<1>11. CASE UNCHANGED beatVars
  BY <1>1, <1>11 DEF beatVars
<1>. QED
  BY <1>2, <1>3, <1>4, <1>5, <1>6, <1>7, <1>8, <1>9, <1>10, <1>11,
     [BeatNext /\ Prompt]_beatVars DEF BeatNext

\* A client that answers each ping before the next is due is never disconnected by
\* the heartbeat, if jobs are late by no more than half of what the limit leaves
\* beyond the period, in whichever order Ping reads its operands (Heartbeat.cpp:8).
THEOREM PromptClientStays ==
  ASSUME ConstantsAreTimes, Period + 2 * Late <= Limit
  PROVE  PromptSpec => []PromptStays
<1>1. BeatInit => PromptInv
  BY TimedInit DEF BeatInit, PromptInv, Quiet, ConstantsAreTimes
<1>2. PromptInv /\ [BeatNext /\ Prompt]_beatVars => PromptInv'
  BY PromptStep
<1>3. PromptInv => PromptStays
  BY DEF PromptInv, PromptStays, Failed
<1>. QED
  BY <1>1, <1>2, <1>3, PTL DEF PromptSpec

-----------------------------------------------------------------------------
(* The items: the invariant                                                *)

JobsOf(q) == {q[i] : i \in DOMAIN q}

\* What jobs name has been made, and the process has no job of a lost life.
ItemsKnown ==
  \A l \in Lives :
    /\ \A s \in Slot : inventory[l][s] # None =>
         inventory[l][s] \in DOMAIN made /\ made[inventory[l][s]].slot = s
    /\ equipped[l] \subseteq DOMAIN made
JobsKnown ==
  /\ \A job \in JobsOf(roomQueue) :
       life[job.life] = "made" /\ (job.op = "add" => job.id \in DOMAIN made)
  /\ \A job \in JobsOf(dbQueue) :
       life[job.life] = "made" /\ (job.op # "insert" => job.id \in DOMAIN made)
RoomForInserts == Len(made) + Count(dbQueue, "insert") <= MaxItems
LastKnown ==
  IF last = None
    THEN roomQueue = <<>> /\ dbQueue = <<>> /\ \A l \in Lives : life[l] # "made"
    ELSE life[last] = "made"
Known == ItemsKnown /\ JobsKnown /\ RoomForInserts /\ LastKnown

\* Each item is added once, and deleted once.
OnceIn(q, op) ==
  \A i, j \in DOMAIN q : (q[i].op = op /\ q[j].op = op /\ q[i].id = q[j].id) => i = j
Once == OnceIn(roomQueue, "add") /\ (~overlap => OnceIn(dbQueue, "delete"))

Own == ~overlap => \A job \in JobsOf(dbQueue) : job.life = last

\* The books of a life: what it holds and wears, what had its slot taken, the rows
\* and which of them are worn, and the items for which a job waits.
Balanced(hold, taken, wear, inRows, wornRows, deletes, updates, adds) ==
  /\ inRows \ deletes = hold \cup taken \cup adds
  /\ deletes \subseteq inRows
  /\ hold \cap taken = {}
  /\ adds \cap (hold \cup taken \cup wear \cup wornRows \cup updates) = {}
  /\ \A id \in (hold \cup deletes) \ updates : id \in wornRows <=> id \in wear

\* Waiting, for the jobs of life l.
WaitingOf(q, op, l) == {q[i].id : i \in {j \in DOMAIN q : q[j].op = op /\ q[j].life = l}}

Sole == last # None /\ ~overlap
BooksOf(l) ==
  Balanced(Held(l), shadow, equipped[l], rows, worn,
           WaitingOf(dbQueue, "delete", l), WaitingOf(dbQueue, "equip", l),
           WaitingOf(roomQueue, "add", l))
Books == Sole => BooksOf(last)

SlotsApart ==
  ~collided => /\ \A a, b \in rows : made[a].slot = made[b].slot => a = b
               /\ Sole => shadow = {}

\* Item a is deleted before b is put on.
Before(q, a, b) ==
  \E i, j \in DOMAIN q :
    i < j /\ q[i].op = "delete" /\ q[i].id = a /\ q[j].op = "equip" /\ q[j].id = b

\* What life l wears, or wore when it went.
Wore(l) == equipped[l] \cap (Held(l) \cup WaitingOf(dbQueue, "delete", l))
InOrder(l) ==
  \A a, b \in Wore(l) :
    SameGroup(a, b) /\ a # b => Before(dbQueue, a, b) \/ Before(dbQueue, b, a)
Ordered == Sole /\ ~collided /\ ~torn => InOrder(last)

AtRest == last = None /\ ~(overlap \/ collided \/ torn) => NoTwo(worn)

IInv == TypeOK /\ Known /\ Once /\ Own /\ Books /\ SlotsApart /\ Ordered /\ AtRest

-----------------------------------------------------------------------------
(* The books                                                               *)

LEMMA BalancedLogin ==
  ASSUME NEW inRows, NEW wornRows, NEW loaded \in SUBSET inRows
  PROVE  Balanced(loaded, inRows \ loaded, wornRows \cap loaded, inRows, wornRows, {}, {}, {})
BY DEF Balanced

\* The marks of some items change, and a job is pushed for each of them.
LEMMA BalancedEquip ==
  ASSUME NEW H, NEW S, NEW E, NEW R, NEW W, NEW D, NEW U, NEW A,
         Balanced(H, S, E, R, W, D, U, A),
         NEW C \in SUBSET H, NEW F, F \ C = E \ C
  PROVE  Balanced(H, S, F, R, W, D, U \cup C, A)
BY DEF Balanced

LEMMA BalancedErase ==
  ASSUME NEW H, NEW S, NEW E, NEW R, NEW W, NEW D, NEW U, NEW A,
         Balanced(H, S, E, R, W, D, U, A), NEW id \in H
  PROVE  Balanced(H \ {id}, S, E, R, W, D \cup {id}, U, A)
BY DEF Balanced

LEMMA BalancedAdd ==
  ASSUME NEW H, NEW S, NEW E, NEW R, NEW W, NEW D, NEW U, NEW A, NEW id,
         Balanced(H, S, E, R, W, D, U, A \cup {id}), id \notin A, NEW O \in SUBSET H
  PROVE  Balanced((H \ O) \cup {id}, S \cup O, E, R, W, D, U, A)
BY DEF Balanced

LEMMA BalancedInsert ==
  ASSUME NEW H, NEW S, NEW E, NEW R, NEW W, NEW D, NEW U, NEW A,
         Balanced(H, S, E, R, W, D, U, A),
         NEW id, id \notin R, id \notin E, id \notin W, id \notin U
  PROVE  Balanced(H, S, E, R \cup {id}, W, D, U, A \cup {id})
BY DEF Balanced

LEMMA BalancedUpdate ==
  ASSUME NEW H, NEW S, NEW E, NEW R, NEW W, NEW D, NEW U, NEW A, NEW id,
         Balanced(H, S, E, R, W, D, U \cup {id}, A)
  PROVE  Balanced(H, S, E, R, IF id \in E THEN W \cup (R \cap {id}) ELSE W \ {id}, D, U, A)
BY DEF Balanced

LEMMA BalancedDelete ==
  ASSUME NEW H, NEW S, NEW E, NEW R, NEW W, NEW D, NEW U, NEW A, NEW id,
         Balanced(H, S, E, R, W, D \cup {id}, U, A), id \notin D
  PROVE  Balanced(H, S, E, R \ {id}, W \ {id}, D, U, A)
BY DEF Balanced

-----------------------------------------------------------------------------
(* The queues                                                              *)

LEMMA WaitingIs ==
  ASSUME NEW q, NEW op, NEW l, NEW x
  PROVE  x \in WaitingOf(q, op, l) <=>
           \E i \in DOMAIN q : q[i].op = op /\ q[i].life = l /\ q[i].id = x
BY Zenon DEF WaitingOf

LEMMA Appended ==
  ASSUME NEW J, NEW q \in Seq(J), NEW job \in J
  PROVE  /\ Append(q, job) \in Seq(J)
         /\ Len(q) \in Nat
         /\ DOMAIN q = 1..Len(q) /\ DOMAIN Append(q, job) = 1..Len(q) + 1
         /\ \A i \in 1..Len(q) : Append(q, job)[i] = q[i]
         /\ Append(q, job)[Len(q) + 1] = job
OBVIOUS

LEMMA Dropped ==
  ASSUME NEW J, NEW q \in Seq(J), q # <<>>
  PROVE  /\ Tail(q) \in Seq(J) /\ q[1] \in J
         /\ Len(q) \in Nat \ {0}
         /\ DOMAIN q = 1..Len(q) /\ DOMAIN Tail(q) = 1..Len(q) - 1
         /\ \A i \in 1..Len(q) - 1 : Tail(q)[i] = q[i + 1]
OBVIOUS

LEMMA WaitingMore ==
  ASSUME NEW J, NEW q \in Seq(J), NEW job \in J, NEW op, NEW l
  PROVE  WaitingOf(Append(q, job), op, l) =
           WaitingOf(q, op, l) \cup (IF job.op = op /\ job.life = l THEN {job.id} ELSE {})
<1> DEFINE r == Append(q, job)
           new == IF job.op = op /\ job.life = l THEN {job.id} ELSE {}
<1>1. /\ Len(q) \in Nat
      /\ DOMAIN q = 1..Len(q) /\ DOMAIN r = 1..Len(q) + 1
      /\ \A i \in 1..Len(q) : r[i] = q[i]
      /\ r[Len(q) + 1] = job
  BY Appended
<1> HIDE DEF r
<1>2. ASSUME NEW x
      PROVE  x \in WaitingOf(r, op, l) <=> x \in WaitingOf(q, op, l) \cup new
  <2>1. ASSUME x \in WaitingOf(r, op, l)
        PROVE  x \in WaitingOf(q, op, l) \cup new
    <3>1. PICK i \in 1..Len(q) + 1 : r[i].op = op /\ r[i].life = l /\ r[i].id = x
      BY <1>1, <2>1, WaitingIs
    <3>2. CASE i \in 1..Len(q)
      BY <1>1, <3>1, <3>2, WaitingIs
    <3>3. CASE i = Len(q) + 1
      BY <1>1, <3>1, <3>3
    <3> QED BY <1>1, <3>2, <3>3
  <2>2. ASSUME x \in WaitingOf(q, op, l)
        PROVE  x \in WaitingOf(r, op, l)
    <3>1. PICK i \in 1..Len(q) : q[i].op = op /\ q[i].life = l /\ q[i].id = x
      BY <1>1, <2>2, WaitingIs
    <3>2. i \in DOMAIN r /\ r[i] = q[i]
      BY <1>1
    <3> QED BY <3>1, <3>2, WaitingIs
  <2>3. ASSUME x \in new
        PROVE  x \in WaitingOf(r, op, l)
    <3>1. Len(q) + 1 \in DOMAIN r
      BY <1>1
    <3> QED BY <1>1, <2>3, <3>1, WaitingIs
  <2> QED BY <2>1, <2>2, <2>3
<1> QED BY <1>2 DEF r

LEMMA WaitingSame ==
  ASSUME NEW J, NEW q \in Seq(J), NEW job \in J, NEW op, NEW l, job.op # op
  PROVE  WaitingOf(Append(q, job), op, l) = WaitingOf(q, op, l)
<1> DEFINE new == IF job.op = op /\ job.life = l THEN {job.id} ELSE {}
<1>1. WaitingOf(Append(q, job), op, l) = WaitingOf(q, op, l) \cup new
  BY WaitingMore
<1>2. new = {}
  OBVIOUS
<1> HIDE DEF new
<1>3. WaitingOf(q, op, l) \cup {} = WaitingOf(q, op, l)
  OBVIOUS
<1> QED BY <1>1, <1>2, <1>3

LEMMA WaitingLess ==
  ASSUME NEW J, NEW q \in Seq(J), q # <<>>, NEW op, NEW l
  PROVE  WaitingOf(q, op, l) =
           WaitingOf(Tail(q), op, l) \cup (IF q[1].op = op /\ q[1].life = l THEN {q[1].id} ELSE {})
<1> DEFINE r == Tail(q)
           old == IF q[1].op = op /\ q[1].life = l THEN {q[1].id} ELSE {}
<1>1. /\ Len(q) \in Nat \ {0}
      /\ DOMAIN q = 1..Len(q) /\ DOMAIN r = 1..Len(q) - 1
      /\ \A i \in 1..Len(q) - 1 : r[i] = q[i + 1]
  BY Dropped
<1> HIDE DEF r
<1>2. ASSUME NEW x
      PROVE  x \in WaitingOf(q, op, l) <=> x \in WaitingOf(r, op, l) \cup old
  <2>1. ASSUME x \in WaitingOf(q, op, l)
        PROVE  x \in WaitingOf(r, op, l) \cup old
    <3>1. PICK i \in 1..Len(q) : q[i].op = op /\ q[i].life = l /\ q[i].id = x
      BY <1>1, <2>1, WaitingIs
    <3>2. CASE i = 1
      BY <3>1, <3>2
    <3>3. CASE i # 1
      <4>1. i - 1 \in DOMAIN r /\ r[i - 1] = q[i]
        BY <1>1, <3>3
      <4> QED BY <3>1, <4>1, WaitingIs
    <3> QED BY <3>2, <3>3
  <2>2. ASSUME x \in WaitingOf(r, op, l)
        PROVE  x \in WaitingOf(q, op, l)
    <3>1. PICK i \in 1..Len(q) - 1 : r[i].op = op /\ r[i].life = l /\ r[i].id = x
      BY <1>1, <2>2, WaitingIs
    <3>2. i + 1 \in DOMAIN q /\ r[i] = q[i + 1]
      BY <1>1
    <3> QED BY <3>1, <3>2, WaitingIs
  <2>3. ASSUME x \in old
        PROVE  x \in WaitingOf(q, op, l)
    <3>1. 1 \in DOMAIN q
      BY <1>1
    <3> QED BY <2>3, <3>1, WaitingIs
  <2> QED BY <2>1, <2>2, <2>3
<1> QED BY <1>2 DEF r

LEMMA WaitingRest ==
  ASSUME NEW J, NEW q \in Seq(J), q # <<>>, NEW op, NEW l
  PROVE  /\ q[1].op # op => WaitingOf(Tail(q), op, l) = WaitingOf(q, op, l)
         /\ q[1].op = op /\ q[1].life = l =>
              WaitingOf(q, op, l) = WaitingOf(Tail(q), op, l) \cup {q[1].id}
<1> DEFINE old == IF q[1].op = op /\ q[1].life = l THEN {q[1].id} ELSE {}
<1>1. WaitingOf(q, op, l) = WaitingOf(Tail(q), op, l) \cup old
  BY WaitingLess
<1>2. /\ q[1].op # op => old = {}
      /\ q[1].op = op /\ q[1].life = l => old = {q[1].id}
  OBVIOUS
<1> HIDE DEF old
<1>3. WaitingOf(Tail(q), op, l) \cup {} = WaitingOf(Tail(q), op, l)
  OBVIOUS
<1> QED BY <1>1, <1>2, <1>3

Places(q, op) == {i \in DOMAIN q : q[i].op = op}

LEMMA CountIs ==
  ASSUME NEW J, NEW q \in Seq(J), NEW op
  PROVE  /\ Count(q, op) = Cardinality(Places(q, op))
         /\ IsFiniteSet(Places(q, op)) /\ Count(q, op) \in Nat
         /\ Count(q, op) = 0 <=> \A i \in DOMAIN q : q[i].op # op
<1>1. Count(q, op) = Cardinality(Places(q, op))
  BY DEF Count, Places
<1>2. Places(q, op) \subseteq 1..Len(q) /\ IsFiniteSet(1..Len(q))
  BY FS_Interval DEF Places
<1>3. IsFiniteSet(Places(q, op))
  BY <1>2, FS_Subset
<1>4. Count(q, op) \in Nat /\ (Count(q, op) = 0 <=> Places(q, op) = {})
  BY <1>1, <1>3, FS_CardinalityType, FS_EmptySet
<1> QED BY <1>1, <1>3, <1>4 DEF Places

LEMMA CountMore ==
  ASSUME NEW J, NEW q \in Seq(J), NEW job \in J, NEW op
  PROVE  Count(Append(q, job), op) = IF job.op = op THEN Count(q, op) + 1 ELSE Count(q, op)
<1> DEFINE r == Append(q, job)
<1>1. /\ Len(q) \in Nat /\ r \in Seq(J)
      /\ DOMAIN q = 1..Len(q) /\ DOMAIN r = 1..Len(q) + 1
      /\ \A i \in 1..Len(q) : r[i] = q[i]
      /\ r[Len(q) + 1] = job
  BY Appended
<1> HIDE DEF r
<1>2. /\ Count(r, op) = Cardinality(Places(r, op))
      /\ Count(q, op) = Cardinality(Places(q, op)) /\ IsFiniteSet(Places(q, op))
  BY <1>1, CountIs
<1>3. CASE job.op = op
  <2>1. Places(r, op) = Places(q, op) \cup {Len(q) + 1} /\ Len(q) + 1 \notin Places(q, op)
    BY <1>1, <1>3 DEF Places
  <2>2. Cardinality(Places(r, op)) = Cardinality(Places(q, op)) + 1
    BY <1>2, <2>1, FS_AddElement
  <2> QED BY <1>2, <1>3, <2>2 DEF r
<1>4. CASE job.op # op
  <2>1. Places(r, op) = Places(q, op)
    BY <1>1, <1>4 DEF Places
  <2> QED BY <1>2, <1>4, <2>1 DEF r
<1> QED BY <1>3, <1>4

LEMMA CountLess ==
  ASSUME NEW J, NEW q \in Seq(J), q # <<>>, NEW op
  PROVE  Count(q, op) = IF q[1].op = op THEN Count(Tail(q), op) + 1 ELSE Count(Tail(q), op)
<1> DEFINE r == Tail(q)
           rest == Places(q, op) \ {1}
           shift == [i \in Places(r, op) |-> i + 1]
<1>1. /\ Len(q) \in Nat \ {0} /\ r \in Seq(J)
      /\ DOMAIN q = 1..Len(q) /\ DOMAIN r = 1..Len(q) - 1
      /\ \A i \in 1..Len(q) - 1 : r[i] = q[i + 1]
  BY Dropped
<1> HIDE DEF r
<1>2. shift \in Bijection(Places(r, op), rest)
  <2>1. \A i \in Places(r, op) : i + 1 \in rest
    BY <1>1 DEF Places
  <2>2. shift \in [Places(r, op) -> rest]
    BY <2>1
  <2>3. \A i, j \in Places(r, op) : shift[i] = shift[j] => i = j
    BY <1>1 DEF Places
  <2>4. ASSUME NEW j \in rest
        PROVE  \E i \in Places(r, op) : shift[i] = j
    <3>1. j - 1 \in 1..Len(q) - 1 /\ (j - 1) + 1 = j /\ q[j].op = op
      BY <1>1 DEF Places
    <3>2. j - 1 \in Places(r, op)
      BY <1>1, <3>1 DEF Places
    <3> QED BY <3>1, <3>2
  <2> HIDE DEF shift, rest
  <2>5. shift \in Injection(Places(r, op), rest)
    BY <2>2, <2>3 DEF Injection, IsInjective
  <2>6. shift \in Surjection(Places(r, op), rest)
    BY <2>2, <2>4 DEF Surjection
  <2> QED BY <2>5, <2>6 DEF Bijection
<1>3. IsFiniteSet(rest) /\ IsFiniteSet(Places(r, op))
  BY <1>1, CountIs, FS_Subset
<1>4. Cardinality(rest) = Cardinality(Places(r, op))
  <2> HIDE DEF shift, rest
  <2> QED BY <1>2, <1>3, FS_Bijection DEF ExistsBijection
<1>5. /\ Count(r, op) = Cardinality(Places(r, op))
      /\ Count(q, op) = Cardinality(Places(q, op))
  BY <1>1, CountIs
<1>6. CASE q[1].op = op
  <2>1. Places(q, op) = rest \cup {1} /\ 1 \notin rest
    BY <1>1, <1>6 DEF Places
  <2> HIDE DEF rest
  <2>2. Cardinality(Places(q, op)) = Cardinality(rest) + 1
    BY <1>3, <2>1, FS_AddElement
  <2> QED BY <1>4, <1>5, <1>6, <2>2 DEF r
<1>7. CASE q[1].op # op
  <2>1. Places(q, op) = rest
    BY <1>7 DEF Places
  <2> QED BY <1>4, <1>5, <1>7, <2>1 DEF r
<1> QED BY <1>6, <1>7


LEMMA JobsMore ==
  ASSUME NEW J, NEW q \in Seq(J), NEW job \in J
  PROVE  JobsOf(Append(q, job)) = JobsOf(q) \cup {job}
<1> DEFINE r == Append(q, job)
<1>1. /\ Len(q) \in Nat
      /\ DOMAIN q = 1..Len(q) /\ DOMAIN r = 1..Len(q) + 1
      /\ \A i \in 1..Len(q) : r[i] = q[i]
      /\ r[Len(q) + 1] = job
  BY Appended
<1> HIDE DEF r
<1>2. DOMAIN r = DOMAIN q \cup {Len(q) + 1}
  BY <1>1
<1> QED BY <1>1, <1>2 DEF JobsOf, r

LEMMA JobsLess ==
  ASSUME NEW J, NEW q \in Seq(J), q # <<>>
  PROVE  JobsOf(Tail(q)) \subseteq JobsOf(q) /\ q[1] \in JobsOf(q)
<1> DEFINE r == Tail(q)
<1>1. /\ Len(q) \in Nat \ {0}
      /\ DOMAIN q = 1..Len(q) /\ DOMAIN r = 1..Len(q) - 1
      /\ \A i \in 1..Len(q) - 1 : r[i] = q[i + 1]
  BY Dropped
<1> HIDE DEF r
<1>2. \A i \in DOMAIN r : i + 1 \in DOMAIN q /\ r[i] = q[i + 1]
  BY <1>1
<1>3. 1 \in DOMAIN q
  BY <1>1
<1> QED BY <1>2, <1>3 DEF JobsOf, r

LEMMA OnceMore ==
  ASSUME NEW J, NEW q \in Seq(J), NEW job \in J, NEW op, OnceIn(q, op),
         job.op = op => \A x \in JobsOf(q) : x.op = op => x.id # job.id
  PROVE  OnceIn(Append(q, job), op)
<1> DEFINE r == Append(q, job)
<1>1. /\ Len(q) \in Nat
      /\ DOMAIN q = 1..Len(q) /\ DOMAIN r = 1..Len(q) + 1
      /\ \A i \in 1..Len(q) : r[i] = q[i]
      /\ r[Len(q) + 1] = job
  BY Appended
<1> HIDE DEF r
<1>2. \A i \in 1..Len(q) : job.op = op /\ r[i].op = op => r[i].id # job.id
  BY <1>1 DEF JobsOf
<1>3. \A i, j \in 1..Len(q) : (r[i].op = op /\ r[j].op = op /\ r[i].id = r[j].id) => i = j
  BY <1>1 DEF OnceIn
<1>4. \A i \in DOMAIN r : i \in 1..Len(q) \/ i = Len(q) + 1
  BY <1>1
<1> QED BY <1>1, <1>2, <1>3, <1>4 DEF OnceIn, r

LEMMA OnceLess ==
  ASSUME NEW J, NEW q \in Seq(J), q # <<>>, NEW op, OnceIn(q, op)
  PROVE  /\ OnceIn(Tail(q), op)
         /\ q[1].op = op => \A x \in JobsOf(Tail(q)) : x.op = op => x.id # q[1].id
<1> DEFINE r == Tail(q)
<1>1. /\ Len(q) \in Nat \ {0}
      /\ DOMAIN q = 1..Len(q) /\ DOMAIN r = 1..Len(q) - 1
      /\ \A i \in 1..Len(q) - 1 : r[i] = q[i + 1]
  BY Dropped
<1> HIDE DEF r
<1>2. \A i \in DOMAIN r : i + 1 \in DOMAIN q /\ r[i] = q[i + 1] /\ i + 1 # 1
  BY <1>1
<1>3. 1 \in DOMAIN q
  BY <1>1
<1>4. \A i, j \in DOMAIN r : i + 1 = j + 1 => i = j
  BY <1>1
<1>5. OnceIn(r, op)
  BY <1>2, <1>4 DEF OnceIn
<1>6. q[1].op = op => \A i \in DOMAIN r : r[i].op = op => r[i].id # q[1].id
  BY <1>2, <1>3 DEF OnceIn
<1> QED BY <1>5, <1>6 DEF JobsOf, r

LEMMA HeadNotWaiting ==
  ASSUME NEW J, NEW q \in Seq(J), q # <<>>, NEW op, OnceIn(q, op), q[1].op = op, NEW l
  PROVE  q[1].id \notin WaitingOf(Tail(q), op, l)
<1>1. PICK r : r = Tail(q)
  OBVIOUS
<1>2. \A x \in JobsOf(r) : x.op = op => x.id # q[1].id
  BY <1>1, OnceLess
<1>3. \A i \in DOMAIN r : r[i].op = op => r[i].id # q[1].id
  BY <1>2 DEF JobsOf
<1>4. q[1].id \notin WaitingOf(r, op, l)
  BY <1>3, WaitingIs
<1> QED BY <1>1, <1>4

LEMMA BeforeMore ==
  ASSUME NEW J, NEW q \in Seq(J), NEW job \in J, NEW a, NEW b,
         \/ Before(q, a, b)
         \/ /\ \E x \in JobsOf(q) : x.op = "delete" /\ x.id = a
            /\ job.op = "equip" /\ job.id = b
  PROVE  Before(Append(q, job), a, b)
<1> DEFINE r == Append(q, job)
<1>1. /\ Len(q) \in Nat
      /\ DOMAIN q = 1..Len(q) /\ DOMAIN r = 1..Len(q) + 1
      /\ \A i \in 1..Len(q) : r[i] = q[i]
      /\ r[Len(q) + 1] = job
  BY Appended
<1> HIDE DEF r
<1>2. \A i \in DOMAIN q : i \in DOMAIN r /\ r[i] = q[i] /\ i < Len(q) + 1
  BY <1>1
<1>3. CASE Before(q, a, b)
  BY <1>2, <1>3 DEF Before, r
<1>4. CASE /\ \E x \in JobsOf(q) : x.op = "delete" /\ x.id = a
           /\ job.op = "equip" /\ job.id = b
  <2>1. PICK i \in DOMAIN q : q[i].op = "delete" /\ q[i].id = a
    BY <1>4 DEF JobsOf
  <2>2. Len(q) + 1 \in DOMAIN r
    BY <1>1
  <2> QED BY <1>1, <1>2, <1>4, <2>1, <2>2 DEF Before, r
<1> QED BY <1>3, <1>4

LEMMA BeforeLess ==
  ASSUME NEW J, NEW q \in Seq(J), q # <<>>, NEW a, NEW b,
         Before(q, a, b), ~ (q[1].op = "delete" /\ q[1].id = a)
  PROVE  Before(Tail(q), a, b)
<1> DEFINE r == Tail(q)
<1>1. /\ Len(q) \in Nat \ {0}
      /\ DOMAIN q = 1..Len(q) /\ DOMAIN r = 1..Len(q) - 1
      /\ \A i \in 1..Len(q) - 1 : r[i] = q[i + 1]
  BY Dropped
<1> HIDE DEF r
<1>2. PICK i, j \in DOMAIN q :
        i < j /\ q[i].op = "delete" /\ q[i].id = a /\ q[j].op = "equip" /\ q[j].id = b
  BY DEF Before
<1>3. i # 1
  BY <1>2
<1>4. /\ i - 1 \in DOMAIN r /\ j - 1 \in DOMAIN r /\ i - 1 < j - 1
      /\ r[i - 1] = q[i] /\ r[j - 1] = q[j]
  BY <1>1, <1>2, <1>3
<1> QED BY <1>2, <1>4 DEF Before, r

-----------------------------------------------------------------------------
(* What is equipped in the place of an item                                *)

LEMMA SetInduction ==
  ASSUME NEW S, 0 \in S, \A n \in Nat : n \in S => n + 1 \in S
  PROVE  Nat \subseteq S
<1> SUFFICES ASSUME NEW x \in Nat, x \notin S
             PROVE  FALSE
  OBVIOUS
<1> DEFINE Missing == {n \in 0..x : n \notin S}
           pred == [n \in Missing |-> n - 1]
<1>1. \A n \in Missing : n - 1 \in Missing
  <2> SUFFICES ASSUME NEW n \in Missing
               PROVE  n - 1 \in Missing
    OBVIOUS
  <2>1. n \in Nat /\ n # 0 /\ n <= x
    OBVIOUS
  <2>2. n - 1 \in Nat /\ (n - 1) + 1 = n /\ n - 1 \in 0..x
    BY <2>1
  <2> QED BY <2>2
<1>2. pred \in Injection(Missing, Missing)
  <2>1. pred \in [Missing -> Missing]
    BY <1>1
  <2>2. \A m, n \in Missing : pred[m] = pred[n] => m = n
    OBVIOUS
  <2> QED BY <2>1, <2>2 DEF Injection, IsInjective
<1>3. IsFiniteSet(Missing)
  <2>1. IsFiniteSet(0..x) /\ Missing \subseteq 0..x
    BY FS_Interval
  <2> QED BY <2>1, FS_Subset
<1>4. pred \in Surjection(Missing, Missing)
  BY <1>2, <1>3, FS_Injection
<1>5. PICK n \in Missing : pred[n] = x
  <2>1. x \in Missing
    OBVIOUS
  <2> HIDE DEF Missing
  <2>2. \A a \in Missing : \E n \in Missing : pred[n] = a
    BY <1>4 DEF Surjection
  <2> QED BY <2>1, <2>2
<1> QED BY <1>5


LEMMA LeastExists ==
  ASSUME NEW T \in SUBSET Nat, T # {}
  PROVE  \E s \in T : \A u \in T : s <= u
<1> DEFINE S == {n \in Nat : (\E t \in T : t <= n) => \E s \in T : \A u \in T : s <= u}
<1>1. 0 \in S
  OBVIOUS
<1>2. ASSUME NEW n \in Nat, n \in S
      PROVE  n + 1 \in S
  <2>1. CASE \E t \in T : t <= n
    BY <1>2, <2>1
  <2>2. CASE ~ \E t \in T : t <= n
    <3>1. \A u \in T : n + 1 <= u
      BY <2>2
    <3>2. ASSUME NEW t \in T, t <= n + 1
          PROVE  t = n + 1
      BY <3>1, <3>2
    <3> QED BY <3>1, <3>2
  <2> QED BY <2>1, <2>2
<1>3. \A n \in Nat : n \in S => n + 1 \in S
  BY <1>2
<1> HIDE DEF S
<1>4. Nat \subseteq S
  BY <1>1, <1>3, SetInduction
<1>5. PICK t \in T : t \in Nat
  OBVIOUS
<1> QED BY <1>4, <1>5 DEF S

LEMMA ToUnequipIs ==
  ASSUME TypeOK, NEW l \in Lives, NEW id
  PROVE  \/ /\ ToUnequip(l, id) = {}
            /\ \A o \in Held(l) \cap equipped[l] : ~ SameGroup(o, id)
         \/ \E o \in Held(l) \cap equipped[l] : ToUnequip(l, id) = {o} /\ SameGroup(o, id)
<1> DEFINE on == {s \in Slot : /\ inventory[l][s] \in equipped[l]
                               /\ SameGroup(inventory[l][s], id)}
           first == {t \in on : \A u \in on : t <= u}
<1>1. ToUnequip(l, id) = {inventory[l][s] : s \in first}
  BY DEF ToUnequip
<1>2. Slot \subseteq Nat /\ None \notin equipped[l]
  BY SlotCountAssumption, MaxItemsAssumption DEF TypeOK, Slot
<1>3. \A s \in on : inventory[l][s] \in Held(l) \cap equipped[l] /\ SameGroup(inventory[l][s], id)
  BY <1>2 DEF Held
<1>4. on \in SUBSET Nat
  BY <1>2
<1>5. CASE on = {}
  <2>1. first = {}
    BY <1>5
  <2>2. \A o \in Held(l) \cap equipped[l] : ~ SameGroup(o, id)
    BY <1>5 DEF Held
  <2> QED BY <1>1, <2>1, <2>2
<1>6. CASE on # {}
  <2>1. PICK s \in on : \A u \in on : s <= u
    <3> HIDE DEF on
    <3> QED BY <1>4, <1>6, LeastExists
  <2>2. first = {s}
    <3>1. \A t \in first : t <= s /\ s <= t
      BY <2>1
    <3>2. \A t \in first : t \in Nat /\ s \in Nat
      BY <1>4
    <3>3. \A t \in first : t = s
      BY <3>1, <3>2
    <3> QED BY <2>1, <3>3
  <2>3. ToUnequip(l, id) = {inventory[l][s]}
    BY <1>1, <2>2
  <2> QED BY <1>3, <2>3
<1> QED BY <1>5, <1>6

-----------------------------------------------------------------------------
(* What the jobs do                                                        *)

EquipJob(l, id) == [op |-> "equip", life |-> l, id |-> id]
DeleteJob(l, id) == [op |-> "delete", life |-> l, id |-> id]

\* The head of the room's queue puts an item of life l on or off; off is what was
\* equipped in its place.
Equips(l, id, off) ==
  /\ id \in Held(l)
  /\ \/ /\ off = ToUnequip(l, id)
        /\ equipped' = [equipped EXCEPT ![l] = (@ \ off) \cup {id}]
     \/ /\ off = {}
        /\ equipped' = [equipped EXCEPT ![l] = @ \ {id}]
  /\ \/ off = {} /\ dbQueue' = Append(dbQueue, EquipJob(l, id))
     \/ \E o \in Held(l) \cap equipped[l] :
          /\ off = {o}
          /\ dbQueue' = Append(Append(dbQueue, EquipJob(l, o)), EquipJob(l, id))

Erases(l, s) ==
  /\ inventory[l][s] # None
  /\ inventory' = [inventory EXCEPT ![l][s] = None]
  /\ dbQueue' = Append(dbQueue, DeleteJob(l, inventory[l][s]))

LEMMA RoomHead ==
  ASSUME TypeOK, roomQueue # <<>>
  PROVE  /\ roomQueue[1] \in RoomJob /\ roomQueue[1].life \in Lives
         /\ roomQueue[1].op \in {"equip", "use", "drop"} => roomQueue[1].slot \in Slot
         /\ roomQueue[1].op = "equip" => roomQueue[1].on \in BOOLEAN
         /\ roomQueue[1].op = "add" => roomQueue[1].id \in Id
<1>1. roomQueue[1] \in RoomJob
  BY DEF TypeOK
<1> QED BY <1>1 DEF RoomJob

LEMMA DbHead ==
  ASSUME TypeOK, dbQueue # <<>>
  PROVE  /\ dbQueue[1] \in DbJob /\ dbQueue[1].life \in Lives
         /\ dbQueue[1].op = "insert" => dbQueue[1].slot \in Slot /\ dbQueue[1].kind \in Kinds
         /\ dbQueue[1].op \in {"equip", "delete"} => dbQueue[1].id \in Id
<1>1. dbQueue[1] \in DbJob
  BY DEF TypeOK
<1> QED BY <1>1 DEF DbJob

LEMMA MadeIs ==
  ASSUME TypeOK
  PROVE  /\ Len(made) \in Nat /\ DOMAIN made = 1..Len(made) /\ DOMAIN made \subseteq Id
         /\ \A id \in DOMAIN made : made[id].slot \in Slot /\ made[id].kind \in Kinds
<1>1. made \in Seq([kind : Kinds, slot : Slot]) /\ Len(made) <= MaxItems
  BY DEF TypeOK
<1>2. \A id \in DOMAIN made : made[id] \in [kind : Kinds, slot : Slot]
  <2> DEFINE T == [kind : Kinds, slot : Slot]
  <2>1. made \in Seq(T)
    BY <1>1
  <2> HIDE DEF T
  <2>2. \A id \in DOMAIN made : made[id] \in T
    BY <2>1
  <2> QED BY <2>2 DEF T
<1>3. \A id \in DOMAIN made : made[id].slot \in Slot /\ made[id].kind \in Kinds
  BY <1>2
<1>4. Len(made) \in Nat /\ DOMAIN made = 1..Len(made)
  BY <1>1
<1>5. DOMAIN made \subseteq Id
  BY <1>1, <1>4, MaxItemsAssumption DEF Id
<1> QED BY <1>3, <1>4, <1>5

LEMMA HeldIs ==
  ASSUME TypeOK, NEW l \in Lives
  PROVE  /\ Held(l) \subseteq Id
         /\ \A s \in Slot : inventory[l][s] # None => inventory[l][s] \in Held(l)
         /\ \A id \in Held(l) : \E s \in Slot : inventory[l][s] = id
         /\ None \notin Held(l)
BY DEF TypeOK, Held

LEMMA DbJobsAre ==
  ASSUME NEW l \in Lives, NEW id \in Id
  PROVE  EquipJob(l, id) \in DbJob /\ DeleteJob(l, id) \in DbJob
BY DEF EquipJob, DeleteJob, DbJob

LEMMA JoinIsAppend ==
  ASSUME NEW J, NEW q \in Seq(J), NEW x \in J, NEW y \in J
  PROVE  /\ q \o <<x>> = Append(q, x)
         /\ q \o <<>> \o <<x>> = Append(q, x)
         /\ q \o <<x>> \o <<y>> = Append(Append(q, x), y)
<1>1. q \o <<x>> = Append(q, x) /\ q \o <<>> = q
  OBVIOUS
<1>2. Append(q, x) \o <<y>> = Append(Append(q, x), y)
  OBVIOUS
<1> QED BY <1>1, <1>2

LEMMA PacketDoes ==
  ASSUME TypeOK, NEW l \in Lives, HandlePacket(l)
  PROVE  /\ UNCHANGED <<life, last, inventory, equipped>> /\ UNCHANGED <<made, rows, worn>>
         /\ UNCHANGED <<dbQueue, shadow, collided, torn, overlap>>
         /\ \E job \in RoomJob : roomQueue' = Append(roomQueue, job) /\ job.life = l /\ job.op # "add"
<1>1. /\ UNCHANGED <<life, last, inventory, equipped>> /\ UNCHANGED <<made, rows, worn>>
      /\ UNCHANGED <<dbQueue, shadow, collided, torn, overlap>>
  BY DEF HandlePacket, login, memory, table
<1>2. PICK s \in Slot, on \in BOOLEAN :
        \E job \in {[op |-> "equip", life |-> l, slot |-> s, on |-> on],
                    [op |-> "use", life |-> l, slot |-> s],
                    [op |-> "drop", life |-> l, slot |-> s]} : roomQueue' = Append(roomQueue, job)
  BY DEF HandlePacket
<1>3. /\ [op |-> "equip", life |-> l, slot |-> s, on |-> on] \in RoomJob
      /\ [op |-> "use", life |-> l, slot |-> s] \in RoomJob
      /\ [op |-> "drop", life |-> l, slot |-> s] \in RoomJob
  BY DEF RoomJob
<1> QED BY <1>1, <1>2, <1>3

LEMMA RewardDoes ==
  ASSUME TypeOK, NEW l \in Lives, SavePlayerReward(l)
  PROVE  /\ UNCHANGED <<life, last, inventory, equipped>> /\ UNCHANGED <<made, rows, worn>>
         /\ UNCHANGED <<roomQueue, shadow, collided, torn>> /\ NoteOverlap
         /\ \E job \in DbJob : dbQueue' = Append(dbQueue, job) /\ job.life = l /\ job.op = "insert"
<1>1. /\ UNCHANGED <<life, last, inventory, equipped>> /\ UNCHANGED <<made, rows, worn>>
      /\ UNCHANGED <<roomQueue, shadow, collided, torn>> /\ NoteOverlap
  BY DEF SavePlayerReward, login, memory, table
<1>2. PICK kind \in Kinds, s \in EmptySlot(l) :
        dbQueue' = Append(dbQueue, [op |-> "insert", life |-> l, slot |-> s, kind |-> kind])
  BY DEF SavePlayerReward
<1>3. s \in Slot
  BY <1>2 DEF EmptySlot
<1>4. [op |-> "insert", life |-> l, slot |-> s, kind |-> kind] \in DbJob
  BY <1>3 DEF DbJob
<1> QED BY <1>1, <1>2, <1>4

LEMMA EquipDoes ==
  ASSUME TypeOK, HandleEquipItem
  PROVE  /\ roomQueue # <<>> /\ roomQueue[1].op = "equip" /\ roomQueue' = Tail(roomQueue)
         /\ UNCHANGED <<life, last, inventory>> /\ UNCHANGED <<made, rows, worn>>
         /\ UNCHANGED <<shadow, collided, torn>> /\ NoteOverlap
         /\ \/ UNCHANGED <<equipped, dbQueue>>
            \/ \E id \in Id, off \in SUBSET Id : Equips(roomQueue[1].life, id, off)
<1>1. /\ roomQueue # <<>> /\ roomQueue[1].op = "equip" /\ roomQueue' = Tail(roomQueue)
      /\ UNCHANGED <<life, last, inventory>> /\ UNCHANGED <<made, rows, worn>>
      /\ UNCHANGED <<shadow, collided, torn>> /\ NoteOverlap
  BY DEF HandleEquipItem, Runs, NextRoomJob, login, table
<1>2. PICK l \in Lives, s \in Slot, on \in BOOLEAN :
        l = roomQueue[1].life /\ s = roomQueue[1].slot /\ on = roomQueue[1].on
  BY <1>1, RoomHead
<1>3. PICK id : id = inventory[l][s]
  OBVIOUS
<1>4. PICK off : off = IF on THEN ToUnequip(l, id) ELSE {}
  OBVIOUS
<1>5. \/ UNCHANGED <<equipped, dbQueue>>
      \/ /\ id # None
         /\ equipped' = [equipped EXCEPT ![l] = IF on THEN (@ \ off) \cup {id} ELSE @ \ {id}]
         /\ dbQueue' = dbQueue \o
              (IF off = {} THEN <<>> ELSE <<EquipJob(l, CHOOSE i \in off : TRUE)>>)
              \o <<EquipJob(l, id)>>
  BY <1>2, <1>3, <1>4 DEF HandleEquipItem, Noti, EquipJob
<1>6. ASSUME id # None,
             equipped' = [equipped EXCEPT ![l] = IF on THEN (@ \ off) \cup {id} ELSE @ \ {id}],
             dbQueue' = dbQueue \o
               (IF off = {} THEN <<>> ELSE <<EquipJob(l, CHOOSE i \in off : TRUE)>>)
               \o <<EquipJob(l, id)>>
      PROVE  \E i \in Id, f \in SUBSET Id : Equips(l, i, f)
  <2>1. id \in Held(l) /\ id \in Id /\ Held(l) \subseteq Id
    BY <1>3, <1>6, HeldIs
  <2>2. dbQueue \in Seq(DbJob) /\ EquipJob(l, id) \in DbJob
    BY <2>1, DbJobsAre DEF TypeOK
  <2>3. CASE off = {}
    <3>1. dbQueue' = Append(dbQueue, EquipJob(l, id))
      <4>1. dbQueue' = dbQueue \o <<>> \o <<EquipJob(l, id)>>
        BY <1>6, <2>3
      <4> QED BY <2>2, <4>1, JoinIsAppend
    <3>2. Equips(l, id, off)
      BY <1>4, <1>6, <2>1, <2>3, <3>1 DEF Equips
    <3> QED BY <2>1, <2>3, <3>2
  <2>4. CASE off # {}
    <3>1. PICK o \in Held(l) \cap equipped[l] : off = {o}
      BY <1>4, <2>4, ToUnequipIs
    <3>2. EquipJob(l, o) \in DbJob /\ o \in Id
      BY <2>1, DbJobsAre
    <3>3. (CHOOSE i \in off : TRUE) = o
      BY <3>1
    <3>4. dbQueue' = Append(Append(dbQueue, EquipJob(l, o)), EquipJob(l, id))
      <4>1. dbQueue' = dbQueue \o <<EquipJob(l, o)>> \o <<EquipJob(l, id)>>
        BY <1>6, <2>4, <3>3
      <4> QED BY <2>2, <3>2, <4>1, JoinIsAppend
    <3>5. Equips(l, id, off)
      BY <1>4, <1>6, <2>1, <3>1, <3>4 DEF Equips
    <3> QED BY <2>1, <3>1, <3>2, <3>5
  <2> QED BY <2>3, <2>4
<1> QED BY <1>1, <1>2, <1>5, <1>6

LEMMA EraseDoes ==
  ASSUME TypeOK, HandleUseItem \/ HandleDropItem
  PROVE  /\ roomQueue # <<>> /\ roomQueue[1].op \in {"use", "drop"}
         /\ roomQueue' = Tail(roomQueue)
         /\ UNCHANGED <<life, last, equipped>> /\ UNCHANGED <<made, rows, worn>>
         /\ UNCHANGED <<shadow, collided, torn>> /\ NoteOverlap
         /\ \/ UNCHANGED <<inventory, dbQueue>>
            \/ Erases(roomQueue[1].life, roomQueue[1].slot)
<1>1. /\ roomQueue # <<>> /\ roomQueue[1].op \in {"use", "drop"}
      /\ roomQueue' = Tail(roomQueue)
      /\ UNCHANGED <<life, last, equipped>> /\ UNCHANGED <<made, rows, worn>>
      /\ UNCHANGED <<shadow, collided, torn>> /\ NoteOverlap
  BY DEF HandleUseItem, HandleDropItem, Runs, NextRoomJob, login, table
<1>2. PICK l \in Lives, s \in Slot : l = roomQueue[1].life /\ s = roomQueue[1].slot
  BY <1>1, RoomHead
<1>3. \/ UNCHANGED <<inventory, dbQueue>>
      \/ inventory[l][s] # None /\ Erase(l, s)
  BY <1>2 DEF HandleUseItem, HandleDropItem
<1>4. ASSUME inventory[l][s] # None, Erase(l, s)
      PROVE  Erases(l, s)
  <2>1. PICK id \in Id : id = inventory[l][s]
    BY <1>4 DEF TypeOK
  <2>2. dbQueue' = dbQueue \o <<DeleteJob(l, id)>>
    BY <1>4, <2>1 DEF Erase, Noti, DeleteJob
  <2>3. dbQueue' = Append(dbQueue, DeleteJob(l, id))
    BY <2>1, <2>2, DbJobsAre, JoinIsAppend DEF TypeOK
  <2> QED BY <1>4, <2>1, <2>3 DEF Erase, Erases
<1> QED BY <1>1, <1>2, <1>3, <1>4

-----------------------------------------------------------------------------
(* Types                                                                   *)

LEMMA TypeInit == Init => TypeOK
<1> SUFFICES ASSUME Init
             PROVE  TypeOK
  OBVIOUS
<1>1. /\ <<>> \in Seq(RoomJob) /\ <<>> \in Seq(DbJob)
      /\ <<>> \in Seq([kind : Kinds, slot : Slot]) /\ Len(<<>>) = 0
  OBVIOUS
<1>2. roomQueue \in Seq(RoomJob) /\ dbQueue \in Seq(DbJob)
  BY <1>1 DEF Init
<1>3. made \in Seq([kind : Kinds, slot : Slot]) /\ Len(made) <= MaxItems
  BY <1>1, MaxItemsAssumption DEF Init
<1>4. inventory \in [Lives -> [Slot -> Id \cup {None}]] /\ equipped \in [Lives -> SUBSET Id]
  BY DEF Init, NoItems
<1>5. /\ life \in [Lives -> {"none", "made", "lost"}] /\ last \in Lives \cup {None}
      /\ rows \subseteq DOMAIN made /\ worn \subseteq rows /\ shadow \subseteq Id
  BY DEF Init
<1>6. {collided, torn, overlap} \subseteq BOOLEAN
  BY DEF Init
<1> QED BY <1>2, <1>3, <1>4, <1>5, <1>6 DEF TypeOK

LEMMA NotesBoolean ==
  ASSUME NoteOverlap
  PROVE  overlap' \in BOOLEAN /\ (~overlap' => ~overlap /\ \A job \in JobsOf(dbQueue') : job.life = last')
BY Zenon DEF NoteOverlap, JobsOf

\* The variables that most actions leave alone.
HistoryTyped == {collided, torn, overlap} \subseteq BOOLEAN

LEMMA TypeStep ==
  ASSUME TypeOK, Known, Next
  PROVE  TypeOK'
<1>1. /\ life \in [Lives -> {"none", "made", "lost"}] /\ last \in Lives \cup {None}
      /\ inventory \in [Lives -> [Slot -> Id \cup {None}]]
      /\ equipped \in [Lives -> SUBSET Id]
      /\ made \in Seq([kind : Kinds, slot : Slot]) /\ Len(made) <= MaxItems
      /\ rows \subseteq DOMAIN made /\ worn \subseteq rows
      /\ roomQueue \in Seq(RoomJob) /\ dbQueue \in Seq(DbJob)
      /\ shadow \subseteq Id
      /\ HistoryTyped
  BY DEF TypeOK, HistoryTyped
<1>2. DOMAIN made = 1..Len(made) /\ Len(made) \in Nat /\ DOMAIN made \subseteq Id
  BY <1>1, MaxItemsAssumption DEF Id
<1>3. ASSUME NEW l \in Lives, HandleEnterGame(l)
      PROVE  TypeOK'
  <2>1. /\ life' = [life EXCEPT ![l] = "made"] /\ last' = l
        /\ UNCHANGED <<made, rows, worn, roomQueue, dbQueue, collided, torn>> /\ NoteOverlap
    BY <1>3 DEF HandleEnterGame, table
  <2>2. PICK items \in [Slot -> rows \cup {None}] :
          /\ inventory' = [inventory EXCEPT ![l] = items]
          /\ equipped' = [equipped EXCEPT ![l] = worn \cap ({items[s] : s \in Slot} \ {None})]
          /\ shadow' = rows \ ({items[s] : s \in Slot} \ {None})
    BY <1>3 DEF HandleEnterGame
  <2>3. items \in [Slot -> Id \cup {None}]
    BY <1>1, <1>2
  <2>4. life' \in [Lives -> {"none", "made", "lost"}] /\ inventory' \in [Lives -> [Slot -> Id \cup {None}]]
    BY <1>1, <2>1, <2>2, <2>3
  <2>5. equipped' \in [Lives -> SUBSET Id] /\ shadow' \subseteq Id
    <3>1. worn \cap ({items[s] : s \in Slot} \ {None}) \in SUBSET Id
      BY <1>1, <1>2
    <3>2. rows \subseteq Id
      BY <1>1, <1>2
    <3> QED BY <1>1, <2>2, <3>1, <3>2
  <2>6. HistoryTyped'
    BY <1>1, <2>1, NotesBoolean DEF HistoryTyped
  <2> QED BY <1>1, <2>1, <2>4, <2>5, <2>6 DEF TypeOK, HistoryTyped
<1>4. ASSUME NEW l \in Lives, HandlePacket(l)
      PROVE  TypeOK'
  <2>1. /\ UNCHANGED <<life, last, inventory, equipped>> /\ UNCHANGED <<made, rows, worn>>
        /\ UNCHANGED <<dbQueue, shadow, collided, torn, overlap>>
    BY <1>4, PacketDoes
  <2>2. PICK job \in RoomJob : roomQueue' = Append(roomQueue, job)
    BY <1>4, PacketDoes
  <2>3. roomQueue' \in Seq(RoomJob)
    BY <1>1, <2>2
  <2> QED BY <1>1, <2>1, <2>3 DEF TypeOK, HistoryTyped
<1>5. ASSUME NEW l \in Lives, SavePlayerReward(l)
      PROVE  TypeOK'
  <2>1. /\ UNCHANGED <<life, last, inventory, equipped>> /\ UNCHANGED <<made, rows, worn>>
        /\ UNCHANGED <<roomQueue, shadow, collided, torn>> /\ NoteOverlap
    BY <1>5, RewardDoes
  <2>2. PICK job \in DbJob : dbQueue' = Append(dbQueue, job)
    BY <1>5, RewardDoes
  <2>3. dbQueue' \in Seq(DbJob)
    BY <1>1, <2>2
  <2>4. HistoryTyped'
    BY <1>1, <2>1, NotesBoolean DEF HistoryTyped
  <2> QED BY <1>1, <2>1, <2>3, <2>4 DEF TypeOK, HistoryTyped
<1>6. CASE HandleEquipItem
  <2>1. /\ roomQueue # <<>> /\ roomQueue' = Tail(roomQueue)
        /\ UNCHANGED <<life, last, inventory>> /\ UNCHANGED <<made, rows, worn>>
        /\ UNCHANGED <<shadow, collided, torn>> /\ NoteOverlap
    BY <1>6, EquipDoes
  <2>2. PICK l \in Lives : l = roomQueue[1].life
    BY <2>1, RoomHead
  <2>3. equipped' \in [Lives -> SUBSET Id] /\ dbQueue' \in Seq(DbJob)
    <3>1. CASE UNCHANGED <<equipped, dbQueue>>
      BY <1>1, <3>1
    <3>2. ASSUME NEW id \in Id, NEW off \in SUBSET Id, Equips(l, id, off)
          PROVE  equipped' \in [Lives -> SUBSET Id] /\ dbQueue' \in Seq(DbJob)
      <4>1. equipped' \in [Lives -> SUBSET Id]
        BY <1>1, <3>2 DEF Equips
      <4>2. \A i \in Id : EquipJob(l, i) \in DbJob
        BY DbJobsAre
      <4>3. dbQueue' \in Seq(DbJob)
        <5>1. id \in Id /\ Held(l) \subseteq Id /\ dbQueue \in Seq(DbJob)
          BY HeldIs DEF TypeOK
        <5>2. CASE dbQueue' = Append(dbQueue, EquipJob(l, id))
          BY <4>2, <5>1, <5>2
        <5>3. ASSUME NEW o \in Held(l),
                     dbQueue' = Append(Append(dbQueue, EquipJob(l, o)), EquipJob(l, id))
              PROVE  dbQueue' \in Seq(DbJob)
          <6>1. Append(dbQueue, EquipJob(l, o)) \in Seq(DbJob)
            BY <4>2, <5>1
          <6> QED BY <4>2, <5>3, <6>1
        <5> QED BY <3>2, <5>2, <5>3 DEF Equips
      <4> QED BY <4>1, <4>3
    <3> QED BY <1>6, <2>2, <3>1, <3>2, EquipDoes
  <2>4. roomQueue' \in Seq(RoomJob)
    BY <1>1, <2>1
  <2>5. HistoryTyped'
    BY <1>1, <2>1, NotesBoolean DEF HistoryTyped
  <2> QED BY <1>1, <2>1, <2>3, <2>4, <2>5 DEF TypeOK, HistoryTyped
<1>7. CASE HandleUseItem \/ HandleDropItem
  <2>1. /\ roomQueue # <<>> /\ roomQueue[1].op \in {"use", "drop"} /\ roomQueue' = Tail(roomQueue)
        /\ UNCHANGED <<life, last, equipped>> /\ UNCHANGED <<made, rows, worn>>
        /\ UNCHANGED <<shadow, collided, torn>> /\ NoteOverlap
    BY <1>7, EraseDoes
  <2>2. PICK l \in Lives, s \in Slot : l = roomQueue[1].life /\ s = roomQueue[1].slot
    BY <2>1, RoomHead
  <2>3. inventory' \in [Lives -> [Slot -> Id \cup {None}]] /\ dbQueue' \in Seq(DbJob)
    <3>1. CASE UNCHANGED <<inventory, dbQueue>>
      BY <1>1, <3>1
    <3>2. CASE Erases(l, s)
      <4>1. inventory[l][s] \in Id
        BY <1>1, <3>2 DEF Erases
      <4>2. inventory' \in [Lives -> [Slot -> Id \cup {None}]]
        BY <1>1, <3>2 DEF Erases
      <4>3. dbQueue' \in Seq(DbJob)
        BY <1>1, <3>2, <4>1, DbJobsAre DEF Erases
      <4> QED BY <4>2, <4>3
    <3> QED BY <1>7, <2>2, <3>1, <3>2, EraseDoes
  <2>4. roomQueue' \in Seq(RoomJob)
    BY <1>1, <2>1
  <2>5. HistoryTyped'
    BY <1>1, <2>1, NotesBoolean DEF HistoryTyped
  <2> QED BY <1>1, <2>1, <2>3, <2>4, <2>5 DEF TypeOK, HistoryTyped
<1>8. CASE AddReward
  <2>1. /\ roomQueue # <<>> /\ roomQueue[1].op = "add" /\ roomQueue' = Tail(roomQueue)
        /\ UNCHANGED <<life, last, equipped>> /\ UNCHANGED <<made, rows, worn>>
        /\ UNCHANGED <<dbQueue, collided, torn, overlap>>
    BY <1>8 DEF AddReward, Runs, NextRoomJob, login, table
  <2>2. PICK l \in Lives, id \in Id : l = roomQueue[1].life /\ id = roomQueue[1].id
    BY <2>1, RoomHead
  <2>3. PICK s : s = made[id].slot
    OBVIOUS
  <2>4. /\ inventory' = [inventory EXCEPT ![l][s] = id]
        /\ shadow' = IF l = last THEN shadow \cup ({inventory[l][s]} \ {None}) ELSE shadow
    BY <1>8, <2>2, <2>3 DEF AddReward
  <2>5. s \in Slot
    <3>1. roomQueue[1] \in JobsOf(roomQueue)
      BY <1>1, <2>1, JobsLess
    <3>2. id \in DOMAIN made
      BY <2>1, <2>2, <3>1 DEF Known, JobsKnown
    <3> QED BY <2>3, <3>2, MadeIs
  <2>6. inventory' \in [Lives -> [Slot -> Id \cup {None}]]
    BY <1>1, <2>4, <2>5
  <2>7. inventory[l][s] \in Id \cup {None}
    BY <1>1, <2>5
  <2>8. shadow' \subseteq Id
    BY <1>1, <2>4, <2>7
  <2>9. roomQueue' \in Seq(RoomJob)
    BY <1>1, <2>1
  <2> QED BY <1>1, <2>1, <2>6, <2>8, <2>9 DEF TypeOK, HistoryTyped
<1>9. CASE InsertReward
  <2>1. /\ dbQueue # <<>> /\ dbQueue[1].op = "insert" /\ dbQueue' = Tail(dbQueue)
        /\ UNCHANGED <<life, last, inventory, equipped>> /\ UNCHANGED <<worn, shadow, torn, overlap>>
    BY <1>9 DEF InsertReward, Runs, NextDbJob, login, memory
  <2>2. PICK l \in Lives, s \in Slot, kind \in Kinds :
          l = dbQueue[1].life /\ s = dbQueue[1].slot /\ kind = dbQueue[1].kind
    BY <2>1, DbHead
  <2>3. PICK n : n = Len(made) + 1
    OBVIOUS
  <2>4. /\ made' = Append(made, [kind |-> kind, slot |-> s]) /\ rows' = rows \cup {n}
        /\ roomQueue' = Append(roomQueue, [op |-> "add", life |-> l, id |-> n])
        /\ collided' = (collided \/ \E i \in rows : made[i].slot = s)
    BY <1>9, <2>2, <2>3 DEF InsertReward
  <2>5. n \in Id
    <3>1. Count(dbQueue, "insert") = Count(Tail(dbQueue), "insert") + 1
      BY <1>1, <2>1, CountLess
    <3>2. Tail(dbQueue) \in Seq(DbJob)
      BY <1>1, <2>1
    <3>3. Count(Tail(dbQueue), "insert") \in Nat
      BY <3>2, CountIs
    <3>4. Len(made) + Count(dbQueue, "insert") <= MaxItems
      BY DEF Known, RoomForInserts
    <3> QED BY <1>2, <2>3, <3>1, <3>3, <3>4, MaxItemsAssumption DEF Id
  <2>6. /\ made' \in Seq([kind : Kinds, slot : Slot]) /\ Len(made') = n
        /\ DOMAIN made' = 1..n
    <3>1. [kind |-> kind, slot |-> s] \in [kind : Kinds, slot : Slot]
      OBVIOUS
    <3> QED BY <1>1, <2>3, <2>4, <3>1, Appended
  <2>7. Len(made') <= MaxItems /\ rows' \subseteq DOMAIN made' /\ worn' \subseteq rows'
    BY <1>1, <1>2, <2>1, <2>3, <2>4, <2>5, <2>6, MaxItemsAssumption DEF Id
  <2>8. roomQueue' \in Seq(RoomJob) /\ dbQueue' \in Seq(DbJob)
    <3>1. [op |-> "add", life |-> l, id |-> n] \in RoomJob
      BY <2>5 DEF RoomJob
    <3> QED BY <1>1, <2>1, <2>4, <3>1
  <2>9. collided' \in BOOLEAN
    BY <2>4, Zenon
  <2>10. HistoryTyped'
    BY <1>1, <2>1, <2>9 DEF HistoryTyped
  <2> QED BY <1>1, <2>1, <2>6, <2>7, <2>8, <2>10 DEF TypeOK, HistoryTyped
<1>10. CASE UpdateEquipped \/ DeleteItem
  <2>1. /\ dbQueue # <<>> /\ dbQueue' = Tail(dbQueue)
        /\ UNCHANGED <<life, last, inventory, equipped>>
        /\ UNCHANGED <<made, roomQueue, shadow, collided, torn, overlap>>
    BY <1>10 DEF UpdateEquipped, DeleteItem, Runs, NextDbJob, login, memory
  <2>2. rows' \subseteq rows /\ worn' \subseteq rows'
    BY <1>1, <1>10 DEF UpdateEquipped, DeleteItem
  <2>3. dbQueue' \in Seq(DbJob)
    BY <1>1, <2>1
  <2> QED BY <1>1, <2>1, <2>2, <2>3 DEF TypeOK, HistoryTyped
<1>11. CASE Crash
  <2>1. /\ life' = [l \in Lives |-> IF life[l] = "made" THEN "lost" ELSE life[l]] /\ last' = None
        /\ inventory' = NoItems /\ equipped' = [l \in Lives |-> {}]
        /\ roomQueue' = <<>> /\ dbQueue' = <<>> /\ shadow' = {}
        /\ torn' = (torn \/ Count(dbQueue, "equip") > 0)
        /\ UNCHANGED <<made, rows, worn>> /\ UNCHANGED <<collided, overlap>>
    BY <1>11 DEF Crash, table
  <2>2. life' \in [Lives -> {"none", "made", "lost"}]
    BY <1>1, <2>1
  <2>3. inventory' \in [Lives -> [Slot -> Id \cup {None}]] /\ equipped' \in [Lives -> SUBSET Id]
    BY <2>1 DEF NoItems
  <2>4. roomQueue' \in Seq(RoomJob) /\ dbQueue' \in Seq(DbJob)
    <3>1. <<>> \in Seq(RoomJob) /\ <<>> \in Seq(DbJob)
      OBVIOUS
    <3> QED BY <2>1, <3>1
  <2>5. torn' \in BOOLEAN
    BY <2>1, Zenon
  <2>6. HistoryTyped'
    BY <1>1, <2>1, <2>5 DEF HistoryTyped
  <2> QED BY <1>1, <2>1, <2>2, <2>3, <2>4, <2>6 DEF TypeOK, HistoryTyped
<1> QED BY <1>3, <1>4, <1>5, <1>6, <1>7, <1>8, <1>9, <1>10, <1>11 DEF Next

-----------------------------------------------------------------------------
(* What is known                                                           *)

LEMMA NothingWaits ==
  /\ JobsOf(<<>>) = {} /\ \A op : Count(<<>>, op) = 0
  /\ \A op, l : WaitingOf(<<>>, op, l) = {}
<1>1. DOMAIN <<>> = {}
  OBVIOUS
<1>2. \A op : {i \in DOMAIN <<>> : <<>>[i].op = op} = {}
  BY <1>1
<1>3. \A op : Count(<<>>, op) = 0
  BY <1>2, FS_EmptySet DEF Count
<1>4. JobsOf(<<>>) = {}
  BY <1>1 DEF JobsOf
<1>5. ASSUME NEW op, NEW l
      PROVE  WaitingOf(<<>>, op, l) = {}
  <2>1. \A x : x \notin WaitingOf(<<>>, op, l)
    BY <1>1, WaitingIs
  <2> QED BY <2>1
<1> QED BY <1>3, <1>4, <1>5

\* A job at the head of the room's queue has gone; the DB's queue may have got one.
LEMMA KnownRoomJob ==
  ASSUME TypeOK, Known, roomQueue # <<>>, roomQueue' = Tail(roomQueue),
         UNCHANGED <<life, last, made>>,
         \/ dbQueue' = dbQueue
         \/ \E x \in DbJob :
              /\ dbQueue' = Append(dbQueue, x)
              /\ x.life = roomQueue[1].life /\ x.op # "insert" /\ x.id \in DOMAIN made
         \/ \E x, y \in DbJob :
              /\ dbQueue' = Append(Append(dbQueue, x), y)
              /\ x.life = roomQueue[1].life /\ x.op # "insert" /\ x.id \in DOMAIN made
              /\ y.life = roomQueue[1].life /\ y.op # "insert" /\ y.id \in DOMAIN made
  PROVE  JobsKnown' /\ RoomForInserts' /\ LastKnown'
<1>1. roomQueue \in Seq(RoomJob) /\ dbQueue \in Seq(DbJob)
  BY DEF TypeOK
<1>2. JobsOf(roomQueue') \subseteq JobsOf(roomQueue) /\ roomQueue[1] \in JobsOf(roomQueue)
  BY <1>1, JobsLess
<1>3. LastKnown'
  BY DEF Known, LastKnown
<1>4. CASE dbQueue' = dbQueue
  BY <1>2, <1>3, <1>4 DEF Known, JobsKnown, RoomForInserts
<1>5. ASSUME NEW x \in DbJob, dbQueue' = Append(dbQueue, x),
             x.life = roomQueue[1].life, x.op # "insert", x.id \in DOMAIN made
      PROVE  JobsKnown' /\ RoomForInserts'
  <2>1. JobsOf(dbQueue') = JobsOf(dbQueue) \cup {x}
    BY <1>1, <1>5, JobsMore
  <2>2. Count(dbQueue', "insert") = Count(dbQueue, "insert")
    BY <1>1, <1>5, CountMore
  <2> QED BY <1>2, <1>5, <2>1, <2>2 DEF Known, JobsKnown, RoomForInserts, Count
<1>6. ASSUME NEW x \in DbJob, NEW y \in DbJob, dbQueue' = Append(Append(dbQueue, x), y),
             x.life = roomQueue[1].life, x.op # "insert", x.id \in DOMAIN made,
             y.life = roomQueue[1].life, y.op # "insert", y.id \in DOMAIN made
      PROVE  JobsKnown' /\ RoomForInserts'
  <2>1. PICK q \in Seq(DbJob) : q = Append(dbQueue, x)
    BY <1>1, Appended
  <2>2. JobsOf(q) = JobsOf(dbQueue) \cup {x} /\ JobsOf(dbQueue') = JobsOf(q) \cup {y}
    <3>1. JobsOf(q) = JobsOf(dbQueue) \cup {x}
      BY <1>1, <2>1, JobsMore
    <3>2. JobsOf(Append(q, y)) = JobsOf(q) \cup {y}
      BY JobsMore
    <3> QED BY <1>6, <2>1, <3>1, <3>2
  <2>3. Count(q, "insert") = Count(dbQueue, "insert") /\ Count(dbQueue', "insert") = Count(q, "insert")
    <3>1. Count(q, "insert") = Count(dbQueue, "insert")
      BY <1>1, <1>6, <2>1, CountMore
    <3>2. Count(Append(q, y), "insert") = Count(q, "insert")
      BY <1>6, CountMore
    <3> QED BY <1>6, <2>1, <3>1, <3>2
  <2>4. JobsKnown'
    BY <1>2, <1>6, <2>2 DEF Known, JobsKnown
  <2>5. RoomForInserts'
    BY <2>3 DEF Known, RoomForInserts
  <2> QED BY <2>4, <2>5
<1> QED BY <1>3, <1>4, <1>5, <1>6

\* The job at the head of the DB's queue has gone.
LEMMA KnownDbJob ==
  ASSUME TypeOK, Known, dbQueue # <<>>, dbQueue' = Tail(dbQueue), UNCHANGED <<life, last>>
  PROVE  /\ \A job \in JobsOf(dbQueue') :
              life'[job.life] = "made" /\ (job.op # "insert" => job.id \in DOMAIN made)
         /\ Len(made) + Count(dbQueue', "insert") + (IF dbQueue[1].op = "insert" THEN 1 ELSE 0)
              <= MaxItems
         /\ LastKnown'
<1>1. dbQueue \in Seq(DbJob) /\ Len(made) \in Nat
  BY MadeIs DEF TypeOK
<1>2. JobsOf(dbQueue') \subseteq JobsOf(dbQueue) /\ dbQueue[1] \in JobsOf(dbQueue)
  BY <1>1, JobsLess
<1>3. Count(dbQueue, "insert") =
        IF dbQueue[1].op = "insert" THEN Count(dbQueue', "insert") + 1 ELSE Count(dbQueue', "insert")
  BY <1>1, CountLess
<1>4. Count(dbQueue', "insert") \in Nat
  <2>1. dbQueue' \in Seq(DbJob)
    BY <1>1
  <2> QED BY <2>1, CountIs
<1>5. Len(made) + Count(dbQueue', "insert") + (IF dbQueue[1].op = "insert" THEN 1 ELSE 0) <= MaxItems
  BY <1>1, <1>3, <1>4, MaxItemsAssumption DEF Known, RoomForInserts
<1>6. LastKnown'
  BY DEF Known, LastKnown
<1> QED BY <1>2, <1>5, <1>6 DEF Known, JobsKnown

LEMMA KnownStep ==
  ASSUME TypeOK, Known, Next
  PROVE  Known'
<1>1. /\ inventory \in [Lives -> [Slot -> Id \cup {None}]]
      /\ equipped \in [Lives -> SUBSET Id] /\ life \in [Lives -> {"none", "made", "lost"}]
      /\ roomQueue \in Seq(RoomJob) /\ dbQueue \in Seq(DbJob)
      /\ rows \subseteq DOMAIN made /\ worn \subseteq rows
  BY DEF TypeOK
<1>2. ItemsKnown /\ JobsKnown /\ RoomForInserts /\ LastKnown
  BY DEF Known
<1>3. ASSUME NEW l \in Lives, HandleEnterGame(l)
      PROVE  Known'
  <2>1. /\ life' = [life EXCEPT ![l] = "made"] /\ last' = l
        /\ UNCHANGED <<made, rows, worn, roomQueue, dbQueue>>
    BY <1>3 DEF HandleEnterGame, table
  <2>2. PICK items \in [Slot -> rows \cup {None}] :
          /\ \A s \in Slot : LET here == {id \in rows : made[id].slot = s}
                             IN  items[s] \in IF here = {} THEN {None} ELSE here
          /\ inventory' = [inventory EXCEPT ![l] = items]
          /\ equipped' = [equipped EXCEPT ![l] = worn \cap ({items[s] : s \in Slot} \ {None})]
    BY <1>3 DEF HandleEnterGame
  <2>3. \A s \in Slot : items[s] # None => items[s] \in DOMAIN made /\ made[items[s]].slot = s
    BY <1>1, <2>2
  <2>4. /\ inventory'[l] = items /\ equipped'[l] \subseteq worn
        /\ \A x \in Lives \ {l} : inventory'[x] = inventory[x] /\ equipped'[x] = equipped[x]
    BY <1>1, <2>2
  <2>5. ItemsKnown'
    BY <1>1, <1>2, <2>1, <2>3, <2>4 DEF ItemsKnown
  <2>6. \A x : life[x] = "made" => life'[x] = "made"
    BY <1>1, <2>1
  <2>7. JobsKnown'
    BY <1>2, <2>1, <2>6 DEF JobsKnown
  <2>8. RoomForInserts' /\ LastKnown'
    BY <1>1, <1>2, <2>1, LivesAssumption DEF RoomForInserts, LastKnown, Count
  <2> QED BY <2>5, <2>7, <2>8 DEF Known
<1>4. ASSUME NEW l \in Lives, HandlePacket(l)
      PROVE  Known'
  <2>1. /\ UNCHANGED <<life, last, inventory, equipped>> /\ UNCHANGED <<made, dbQueue>>
        /\ life[l] = "made"
    BY <1>4, PacketDoes DEF HandlePacket
  <2>2. PICK job \in RoomJob : roomQueue' = Append(roomQueue, job) /\ job.life = l /\ job.op # "add"
    BY <1>4, PacketDoes
  <2>3. JobsOf(roomQueue') = JobsOf(roomQueue) \cup {job}
    BY <1>1, <2>2, JobsMore
  <2>4. JobsKnown'
    BY <1>2, <2>1, <2>2, <2>3 DEF JobsKnown
  <2>5. ItemsKnown' /\ RoomForInserts' /\ LastKnown'
    BY <1>2, <2>1 DEF ItemsKnown, RoomForInserts, LastKnown, Count
  <2> QED BY <2>4, <2>5 DEF Known
<1>5. ASSUME NEW l \in Lives, SavePlayerReward(l)
      PROVE  Known'
  <2>1. /\ UNCHANGED <<life, last, inventory, equipped>> /\ UNCHANGED <<made, roomQueue>>
        /\ life[l] = "made" /\ Len(made) + Count(dbQueue, "insert") < MaxItems
    BY <1>5, RewardDoes DEF SavePlayerReward
  <2>2. PICK job \in DbJob : dbQueue' = Append(dbQueue, job) /\ job.life = l /\ job.op = "insert"
    BY <1>5, RewardDoes
  <2>3. JobsOf(dbQueue') = JobsOf(dbQueue) \cup {job}
    BY <1>1, <2>2, JobsMore
  <2>4. JobsKnown'
    BY <1>2, <2>1, <2>2, <2>3 DEF JobsKnown
  <2>5. RoomForInserts'
    <3>1. Count(dbQueue', "insert") = Count(dbQueue, "insert") + 1
      BY <1>1, <2>2, CountMore
    <3>2. Count(dbQueue, "insert") \in Nat /\ Len(made) \in Nat
      BY <1>1, CountIs, MadeIs
    <3>3. Len(made) + Count(dbQueue', "insert") <= MaxItems
      BY <2>1, <3>1, <3>2, MaxItemsAssumption
    <3> QED BY <2>1, <3>3 DEF RoomForInserts, Count
  <2>6. ItemsKnown' /\ LastKnown'
    BY <1>2, <2>1 DEF ItemsKnown, LastKnown
  <2> QED BY <2>4, <2>5, <2>6 DEF Known
<1>6. CASE HandleEquipItem
  <2>1. /\ roomQueue # <<>> /\ roomQueue' = Tail(roomQueue)
        /\ UNCHANGED <<life, last, inventory>> /\ UNCHANGED <<made, rows, worn>>
    BY <1>6, EquipDoes
  <2>2. PICK l \in Lives : l = roomQueue[1].life
    BY <2>1, RoomHead
  <2>3. CASE UNCHANGED <<equipped, dbQueue>>
    <3>1. ItemsKnown'
      BY <1>2, <2>1, <2>3 DEF ItemsKnown
    <3> QED BY <2>1, <2>3, <3>1, KnownRoomJob DEF Known
  <2>4. ASSUME NEW id \in Id, NEW off \in SUBSET Id, Equips(l, id, off)
        PROVE  Known'
    <3>1. Held(l) \subseteq DOMAIN made /\ Held(l) \subseteq Id
      BY <1>2, HeldIs DEF ItemsKnown
    <3>2. id \in Held(l) /\ \A x \in Held(l) : /\ EquipJob(l, x) \in DbJob
                                              /\ EquipJob(l, x).life = l
                                              /\ EquipJob(l, x).op # "insert"
                                              /\ EquipJob(l, x).id = x
      BY <2>4, <3>1, DbJobsAre DEF Equips, EquipJob
    <3>3. /\ equipped'[l] \subseteq equipped[l] \cup {id}
          /\ \A x \in Lives \ {l} : equipped'[x] = equipped[x]
      BY <1>1, <2>4 DEF Equips
    <3>4. ItemsKnown'
      BY <1>2, <2>1, <3>1, <3>2, <3>3 DEF ItemsKnown
    <3>5. JobsKnown' /\ RoomForInserts' /\ LastKnown'
      <4>1. CASE dbQueue' = Append(dbQueue, EquipJob(l, id))
        <5>1. \E x \in DbJob :
                /\ dbQueue' = Append(dbQueue, x)
                /\ x.life = roomQueue[1].life /\ x.op # "insert" /\ x.id \in DOMAIN made
          BY <2>2, <3>1, <3>2, <4>1
        <5> QED BY <2>1, <5>1, KnownRoomJob
      <4>2. ASSUME NEW o \in Held(l),
                   dbQueue' = Append(Append(dbQueue, EquipJob(l, o)), EquipJob(l, id))
            PROVE  JobsKnown' /\ RoomForInserts' /\ LastKnown'
        <5>1. \E x, y \in DbJob :
                /\ dbQueue' = Append(Append(dbQueue, x), y)
                /\ x.life = roomQueue[1].life /\ x.op # "insert" /\ x.id \in DOMAIN made
                /\ y.life = roomQueue[1].life /\ y.op # "insert" /\ y.id \in DOMAIN made
          BY <2>2, <3>1, <3>2, <4>2
        <5> QED BY <2>1, <5>1, KnownRoomJob
      <4> QED BY <2>4, <4>1, <4>2 DEF Equips
    <3> QED BY <3>4, <3>5 DEF Known
  <2> QED BY <1>6, <2>2, <2>3, <2>4, EquipDoes
<1>7. CASE HandleUseItem \/ HandleDropItem
  <2>1. /\ roomQueue # <<>> /\ roomQueue[1].op \in {"use", "drop"} /\ roomQueue' = Tail(roomQueue)
        /\ UNCHANGED <<life, last, equipped>> /\ UNCHANGED <<made, rows, worn>>
    BY <1>7, EraseDoes
  <2>2. PICK l \in Lives, s \in Slot : l = roomQueue[1].life /\ s = roomQueue[1].slot
    BY <2>1, RoomHead
  <2>3. CASE UNCHANGED <<inventory, dbQueue>>
    <3>1. ItemsKnown'
      BY <1>2, <2>1, <2>3 DEF ItemsKnown
    <3> QED BY <2>1, <2>3, <3>1, KnownRoomJob DEF Known
  <2>4. CASE Erases(l, s)
    <3>1. PICK id \in Id : id = inventory[l][s] /\ id \in DOMAIN made
      BY <1>1, <1>2, <2>4 DEF Erases, ItemsKnown
    <3>2. /\ DeleteJob(l, id) \in DbJob /\ DeleteJob(l, id).life = l
          /\ DeleteJob(l, id).op # "insert" /\ DeleteJob(l, id).id = id
      BY <3>1, DbJobsAre DEF DeleteJob
    <3>3. JobsKnown' /\ RoomForInserts' /\ LastKnown'
      BY <2>1, <2>2, <2>4, <3>1, <3>2, KnownRoomJob DEF Erases
    <3>4. \A x \in Lives, t \in Slot : inventory'[x][t] # None => inventory'[x][t] = inventory[x][t]
      BY <1>1, <2>4 DEF Erases
    <3>5. ItemsKnown'
      BY <1>2, <2>1, <3>4 DEF ItemsKnown
    <3> QED BY <3>3, <3>5 DEF Known
  <2> QED BY <1>7, <2>2, <2>3, <2>4, EraseDoes
<1>8. CASE AddReward
  <2>1. /\ roomQueue # <<>> /\ roomQueue[1].op = "add" /\ roomQueue' = Tail(roomQueue)
        /\ UNCHANGED <<life, last, equipped>> /\ UNCHANGED <<made, rows, worn>> /\ dbQueue' = dbQueue
    BY <1>8 DEF AddReward, Runs, NextRoomJob, login, table
  <2>2. PICK l \in Lives, id \in Id : l = roomQueue[1].life /\ id = roomQueue[1].id
    BY <2>1, RoomHead
  <2>3. id \in DOMAIN made
    <3>1. roomQueue[1] \in JobsOf(roomQueue)
      BY <1>1, <2>1, JobsLess
    <3> QED BY <1>2, <2>1, <2>2, <3>1 DEF JobsKnown
  <2>4. PICK s \in Slot : s = made[id].slot
    BY <2>3, MadeIs
  <2>5. inventory' = [inventory EXCEPT ![l][s] = id]
    BY <1>8, <2>2, <2>4 DEF AddReward
  <2>6. \A x \in Lives, t \in Slot : \/ inventory'[x][t] = inventory[x][t]
                                     \/ inventory'[x][t] = id /\ t = s
    BY <1>1, <2>5
  <2>7. ItemsKnown'
    BY <1>2, <2>1, <2>3, <2>4, <2>6 DEF ItemsKnown
  <2> QED BY <2>1, <2>7, KnownRoomJob DEF Known
<1>9. CASE InsertReward
  <2>1. /\ dbQueue # <<>> /\ dbQueue[1].op = "insert" /\ dbQueue' = Tail(dbQueue)
        /\ UNCHANGED <<life, last, inventory, equipped>> /\ UNCHANGED <<worn, shadow, torn, overlap>>
    BY <1>9 DEF InsertReward, Runs, NextDbJob, login, memory
  <2>2. PICK l \in Lives, s \in Slot, kind \in Kinds :
          l = dbQueue[1].life /\ s = dbQueue[1].slot /\ kind = dbQueue[1].kind
    BY <2>1, DbHead
  <2>3. PICK n \in Nat : n = Len(made) + 1
    BY MadeIs
  <2>4. /\ made' = Append(made, [kind |-> kind, slot |-> s])
        /\ roomQueue' = Append(roomQueue, [op |-> "add", life |-> l, id |-> n])
    BY <1>9, <2>2, <2>3 DEF InsertReward
  <2>5. /\ Len(made') = n /\ DOMAIN made' = 1..n
        /\ \A i \in DOMAIN made : i \in DOMAIN made' /\ made'[i] = made[i]
    <3>1. [kind |-> kind, slot |-> s] \in [kind : Kinds, slot : Slot] /\ made \in Seq([kind : Kinds, slot : Slot])
      BY DEF TypeOK
    <3> QED BY <2>3, <2>4, <3>1, MadeIs, Appended
  <2>6. ItemsKnown'
    BY <1>2, <2>1, <2>5 DEF ItemsKnown
  <2>7. n \in Id /\ RoomForInserts'
    <3>1. Len(made) + Count(dbQueue', "insert") + 1 <= MaxItems
      BY <2>1, KnownDbJob
    <3>2. dbQueue' \in Seq(DbJob)
      BY <1>1, <2>1
    <3>3. Count(dbQueue', "insert") \in Nat
      BY <3>2, CountIs
    <3>4. n + Count(dbQueue', "insert") <= MaxItems /\ n \in Id
      BY <2>3, <3>1, <3>3, MadeIs, MaxItemsAssumption DEF Id
    <3> QED BY <2>5, <3>4 DEF RoomForInserts, Count
  <2>8. JobsKnown'
    <3>1. [op |-> "add", life |-> l, id |-> n] \in RoomJob
      BY <2>7 DEF RoomJob
    <3>2. JobsOf(roomQueue') = JobsOf(roomQueue) \cup {[op |-> "add", life |-> l, id |-> n]}
      BY <1>1, <2>4, <3>1, JobsMore
    <3>3. dbQueue[1] \in JobsOf(dbQueue)
      BY <1>1, <2>1, JobsLess
    <3>4. life[l] = "made"
      BY <1>2, <2>2, <3>3 DEF JobsKnown
    <3>5. n \in DOMAIN made'
      BY <2>3, <2>5
    <3>6. \A job \in JobsOf(roomQueue') : life'[job.life] = "made" /\ (job.op = "add" => job.id \in DOMAIN made')
      BY <1>2, <2>1, <2>5, <3>2, <3>4, <3>5 DEF JobsKnown
    <3>7. \A job \in JobsOf(dbQueue') : life'[job.life] = "made" /\ (job.op # "insert" => job.id \in DOMAIN made')
      BY <2>1, <2>5, KnownDbJob
    <3> QED BY <3>6, <3>7 DEF JobsKnown, JobsOf
  <2>9. LastKnown'
    <3>1. last # None
      BY <1>2, <2>1 DEF LastKnown
    <3> QED BY <1>2, <2>1, <3>1 DEF LastKnown
  <2> QED BY <2>6, <2>7, <2>8, <2>9 DEF Known
<1>10. CASE UpdateEquipped \/ DeleteItem
  <2>1. /\ dbQueue # <<>> /\ dbQueue' = Tail(dbQueue) /\ dbQueue[1].op # "insert"
        /\ UNCHANGED <<life, last, inventory, equipped>> /\ UNCHANGED <<made, roomQueue>>
    BY <1>10 DEF UpdateEquipped, DeleteItem, Runs, NextDbJob, login, memory
  <2>2. ItemsKnown'
    BY <1>2, <2>1 DEF ItemsKnown
  <2>3. JobsKnown' /\ LastKnown'
    BY <1>2, <2>1, KnownDbJob DEF JobsKnown
  <2>4. RoomForInserts'
    <3>1. Len(made) + Count(dbQueue', "insert") + 0 <= MaxItems
      BY <2>1, KnownDbJob
    <3>2. dbQueue' \in Seq(DbJob)
      BY <1>1, <2>1
    <3>3. Len(made) + Count(dbQueue', "insert") <= MaxItems
      BY <3>1, <3>2, CountIs, MadeIs
    <3> QED BY <2>1, <3>3 DEF RoomForInserts, Count
  <2> QED BY <2>2, <2>3, <2>4 DEF Known
<1>11. CASE Crash
  <2>1. /\ life' = [l \in Lives |-> IF life[l] = "made" THEN "lost" ELSE life[l]] /\ last' = None
        /\ inventory' = NoItems /\ equipped' = [l \in Lives |-> {}]
        /\ roomQueue' = <<>> /\ dbQueue' = <<>> /\ made' = made
    BY <1>11 DEF Crash, table
  <2>2. ItemsKnown'
    BY <2>1 DEF ItemsKnown, NoItems
  <2>3. JobsKnown'
    BY <2>1, NothingWaits DEF JobsKnown
  <2>4. LastKnown'
    BY <1>1, <2>1 DEF LastKnown
  <2>5. Len(made) + 0 <= MaxItems /\ Count(dbQueue', "insert") = 0
    BY <2>1, NothingWaits, MadeIs DEF TypeOK
  <2>6. RoomForInserts'
    BY <2>1, <2>5 DEF RoomForInserts, Count
  <2> QED BY <2>2, <2>3, <2>4, <2>6 DEF Known
<1> QED BY <1>3, <1>4, <1>5, <1>6, <1>7, <1>8, <1>9, <1>10, <1>11 DEF Next

LEMMA KnownInit == Init => Known
<1> SUFFICES ASSUME Init
             PROVE  Known
  OBVIOUS
<1>1. ItemsKnown
  BY DEF Init, ItemsKnown, NoItems
<1>2. JobsKnown /\ Count(dbQueue, "insert") = 0
  BY NothingWaits DEF Init, JobsKnown
<1>3. RoomForInserts
  BY <1>2, MaxItemsAssumption DEF Init, RoomForInserts
<1>4. LastKnown
  BY DEF Init, LastKnown
<1> QED BY <1>1, <1>2, <1>3, <1>4 DEF Known

-----------------------------------------------------------------------------
(* What the other actions do                                               *)

LEMMA EnterDoes ==
  ASSUME TypeOK, Known, NEW l \in Lives, HandleEnterGame(l)
  PROVE  /\ last' = l /\ NoteOverlap
         /\ UNCHANGED <<made, rows, worn>> /\ UNCHANGED <<roomQueue, dbQueue, collided, torn>>
         /\ WaitingOf(roomQueue, "add", l) = {}
         /\ ~overlap' => dbQueue = <<>>
         /\ \E loaded \in SUBSET rows :
              /\ Held(l)' = loaded /\ equipped'[l] = worn \cap loaded /\ shadow' = rows \ loaded
              /\ (\A a, b \in rows : made[a].slot = made[b].slot => a = b) => loaded = rows
<1>1. /\ life[l] = "none" /\ last' = l /\ NoteOverlap
      /\ UNCHANGED <<made, rows, worn>> /\ UNCHANGED <<roomQueue, dbQueue, collided, torn>>
  BY DEF HandleEnterGame, table
<1>2. /\ \A job \in JobsOf(roomQueue) : life[job.life] = "made"
      /\ \A job \in JobsOf(dbQueue) : life[job.life] = "made"
  BY DEF Known, JobsKnown
<1>3. WaitingOf(roomQueue, "add", l) = {}
  <2>1. \A i \in DOMAIN roomQueue : roomQueue[i].life # l
    BY <1>1, <1>2 DEF JobsOf
  <2>2. \A x : x \notin WaitingOf(roomQueue, "add", l)
    BY <2>1, WaitingIs
  <2> QED BY <2>2
<1>4. ASSUME ~overlap'
      PROVE  dbQueue = <<>>
  <2>1. JobsOf(dbQueue) = {}
    BY <1>1, <1>2, <1>4, NotesBoolean
  <2>2. dbQueue \in Seq(DbJob)
    BY DEF TypeOK
  <2>3. DOMAIN dbQueue = {}
    BY <2>1 DEF JobsOf
  <2> QED BY <2>2, <2>3
<1>5. PICK items \in [Slot -> rows \cup {None}] :
        /\ \A s \in Slot : LET here == {id \in rows : made[id].slot = s}
                           IN  items[s] \in IF here = {} THEN {None} ELSE here
        /\ inventory' = [inventory EXCEPT ![l] = items]
        /\ equipped' = [equipped EXCEPT ![l] = worn \cap ({items[s] : s \in Slot} \ {None})]
        /\ shadow' = rows \ ({items[s] : s \in Slot} \ {None})
  BY DEF HandleEnterGame
<1> DEFINE loaded == {items[s] : s \in Slot} \ {None}
<1>6. inventory'[l] = items /\ equipped'[l] = worn \cap loaded
  BY <1>5 DEF TypeOK
<1>7. loaded \in SUBSET rows /\ Held(l)' = loaded
  BY <1>5, <1>6 DEF Held
<1>8. ASSUME \A a, b \in rows : made[a].slot = made[b].slot => a = b
      PROVE  loaded = rows
  <2>1. SUFFICES ASSUME NEW id \in rows
                 PROVE  id \in loaded
    BY <1>7
  <2>2. rows \subseteq DOMAIN made
    BY DEF TypeOK
  <2>3. PICK s \in Slot : s = made[id].slot
    BY <2>2, MadeIs
  <2>4. items[s] \in rows /\ made[items[s]].slot = s
    BY <1>5, <2>3
  <2>5. items[s] = id
    BY <1>8, <2>3, <2>4
  <2>6. id # None
    BY <2>2, MadeIs, MaxItemsAssumption
  <2> QED BY <2>5, <2>6
<1> QED BY <1>1, <1>3, <1>4, <1>5, <1>6, <1>7, <1>8

\* No item is in two slots, so a slot's item leaves the inventory with it.
LEMMA ErasedIs ==
  ASSUME TypeOK, Known, NEW l \in Lives, NEW s \in Slot, Erases(l, s)
  PROVE  /\ inventory[l][s] \in Held(l)
         /\ Held(l)' = Held(l) \ {inventory[l][s]}
<1>1. inventory[l][s] \in Held(l)
  BY HeldIs DEF Erases
<1>2. /\ \A t \in Slot \ {s} : inventory'[l][t] = inventory[l][t]
      /\ inventory'[l][s] = None
  BY DEF TypeOK, Erases
<1>3. \A t \in Slot : inventory[l][t] = inventory[l][s] => t = s
  BY DEF Erases, Known, ItemsKnown
<1> QED BY <1>1, <1>2, <1>3 DEF Held

LEMMA AddDoes ==
  ASSUME TypeOK, Known, AddReward
  PROVE  /\ roomQueue # <<>> /\ roomQueue[1].op = "add" /\ roomQueue' = Tail(roomQueue)
         /\ UNCHANGED <<life, last, equipped>> /\ UNCHANGED <<made, rows, worn>>
         /\ UNCHANGED <<dbQueue, collided, torn, overlap>>
         /\ \E l \in Lives, id \in Id, taken \in SUBSET Held(roomQueue[1].life) :
              /\ l = roomQueue[1].life /\ id = roomQueue[1].id
              /\ Held(l)' = (Held(l) \ taken) \cup {id}
              /\ shadow' = IF l = last THEN shadow \cup taken ELSE shadow
              /\ \A x \in Lives \ {l} : Held(x)' = Held(x)
              /\ \A x \in taken : made[x].slot = made[id].slot
<1>1. /\ roomQueue # <<>> /\ roomQueue[1].op = "add" /\ roomQueue' = Tail(roomQueue)
      /\ UNCHANGED <<life, last, equipped>> /\ UNCHANGED <<made, rows, worn>>
      /\ UNCHANGED <<dbQueue, collided, torn, overlap>>
  BY DEF AddReward, Runs, NextRoomJob, login, table
<1>2. PICK l \in Lives, id \in Id : l = roomQueue[1].life /\ id = roomQueue[1].id
  BY <1>1, RoomHead
<1>3. id \in DOMAIN made
  <2>1. roomQueue[1] \in JobsOf(roomQueue)
    BY <1>1, JobsLess DEF TypeOK
  <2> QED BY <1>1, <1>2, <2>1 DEF Known, JobsKnown
<1>4. PICK s \in Slot : s = made[id].slot
  BY <1>3, MadeIs
<1>5. PICK taken : taken = {inventory[l][s]} \ {None}
  OBVIOUS
<1>6. /\ inventory' = [inventory EXCEPT ![l][s] = id]
      /\ shadow' = IF l = last THEN shadow \cup taken ELSE shadow
  BY <1>2, <1>4, <1>5 DEF AddReward
<1>7. taken \subseteq Held(l) /\ \A x \in taken : made[x].slot = s
  BY <1>4, <1>5, HeldIs DEF Known, ItemsKnown
<1>8. /\ \A t \in Slot \ {s} : inventory'[l][t] = inventory[l][t]
      /\ inventory'[l][s] = id /\ id # None
      /\ \A x \in Lives \ {l} : inventory'[x] = inventory[x]
  BY <1>6, MaxItemsAssumption DEF TypeOK
<1>9. \A t \in Slot \ {s} : inventory[l][t] \notin taken
  BY <1>5 DEF Known, ItemsKnown
<1>10. Held(l)' = (Held(l) \ taken) \cup {id}
  BY <1>5, <1>8, <1>9 DEF Held
<1>11. \A x \in Lives \ {l} : Held(x)' = Held(x)
  BY <1>8 DEF Held
<1>12. taken \in SUBSET Held(roomQueue[1].life)
  BY <1>2, <1>7
<1>13. \A x \in taken : made[x].slot = made[id].slot
  BY <1>4, <1>7
<1> QED BY <1>1, <1>2, <1>6, <1>10, <1>11, <1>12, <1>13

LEMMA InsertDoes ==
  ASSUME TypeOK, Known, InsertReward
  PROVE  /\ dbQueue # <<>> /\ dbQueue[1].op = "insert" /\ dbQueue' = Tail(dbQueue)
         /\ UNCHANGED <<life, last, inventory, equipped>> /\ UNCHANGED <<worn, shadow, torn, overlap>>
         /\ \E n \in Id, job \in RoomJob :
              /\ n \notin DOMAIN made /\ rows' = rows \cup {n}
              /\ made'[n].slot = dbQueue[1].slot
              /\ \A id \in DOMAIN made : made'[id] = made[id]
              /\ roomQueue' = Append(roomQueue, job)
              /\ job.op = "add" /\ job.life = dbQueue[1].life /\ job.id = n
              /\ ~collided' => ~collided /\ \A id \in rows : made[id].slot # made'[n].slot
<1>1. /\ dbQueue # <<>> /\ dbQueue[1].op = "insert" /\ dbQueue' = Tail(dbQueue)
      /\ UNCHANGED <<life, last, inventory, equipped>> /\ UNCHANGED <<worn, shadow, torn, overlap>>
  BY DEF InsertReward, Runs, NextDbJob, login, memory
<1>2. PICK l \in Lives, s \in Slot, kind \in Kinds :
        l = dbQueue[1].life /\ s = dbQueue[1].slot /\ kind = dbQueue[1].kind
  BY <1>1, DbHead
<1>3. PICK n \in Nat : n = Len(made) + 1
  BY MadeIs
<1>4. /\ made' = Append(made, [kind |-> kind, slot |-> s]) /\ rows' = rows \cup {n}
      /\ roomQueue' = Append(roomQueue, [op |-> "add", life |-> l, id |-> n])
      /\ collided' = (collided \/ \E i \in rows : made[i].slot = s)
  BY <1>2, <1>3 DEF InsertReward
<1>5. n \notin DOMAIN made
  BY <1>3, MadeIs
<1>6. /\ DOMAIN made' = 1..n /\ made'[n] = [kind |-> kind, slot |-> s]
      /\ \A i \in DOMAIN made : made'[i] = made[i]
  <2>1. [kind |-> kind, slot |-> s] \in [kind : Kinds, slot : Slot] /\ made \in Seq([kind : Kinds, slot : Slot])
    BY DEF TypeOK
  <2> QED BY <1>3, <1>4, <2>1, MadeIs, Appended
<1>7. n \in Id
  <2>1. TypeOK'
    BY TypeStep DEF Next
  <2>2. made' \in Seq([kind : Kinds, slot : Slot]) /\ Len(made') <= MaxItems
    BY <2>1 DEF TypeOK
  <2>3. Len(made') = n
    BY <1>3, <1>6, <2>2
  <2> QED BY <1>3, <2>2, <2>3, MadeIs DEF Id
<1>8. [op |-> "add", life |-> l, id |-> n] \in RoomJob
  BY <1>7 DEF RoomJob
<1>9. made'[n].slot = s
  BY <1>6
<1>10. ~collided' => ~collided /\ \A id \in rows : made[id].slot # made'[n].slot
  BY <1>4, <1>9, Zenon
<1> QED BY <1>1, <1>2, <1>4, <1>5, <1>6, <1>7, <1>8, <1>9, <1>10

LEMMA UpdateDoes ==
  ASSUME TypeOK, UpdateEquipped
  PROVE  /\ dbQueue # <<>> /\ dbQueue[1].op = "equip" /\ dbQueue' = Tail(dbQueue)
         /\ UNCHANGED <<life, last, inventory, equipped>> /\ UNCHANGED <<made, rows, roomQueue>>
         /\ UNCHANGED <<shadow, collided, torn, overlap>>
         /\ worn' = IF dbQueue[1].id \in equipped[dbQueue[1].life]
                      THEN worn \cup (rows \cap {dbQueue[1].id}) ELSE worn \ {dbQueue[1].id}
BY DEF UpdateEquipped, Runs, NextDbJob, login, memory

LEMMA DeleteDoes ==
  ASSUME TypeOK, DeleteItem
  PROVE  /\ dbQueue # <<>> /\ dbQueue[1].op = "delete" /\ dbQueue' = Tail(dbQueue)
         /\ UNCHANGED <<life, last, inventory, equipped>> /\ UNCHANGED <<made, roomQueue>>
         /\ UNCHANGED <<shadow, collided, torn, overlap>>
         /\ rows' = rows \ {dbQueue[1].id} /\ worn' = worn \ {dbQueue[1].id}
BY DEF DeleteItem, Runs, NextDbJob, login, memory

LEMMA CrashDoes ==
  ASSUME Crash
  PROVE  /\ last' = None /\ roomQueue' = <<>> /\ dbQueue' = <<>> /\ shadow' = {}
         /\ torn' = (torn \/ Count(dbQueue, "equip") > 0)
         /\ UNCHANGED <<made, rows, worn>> /\ UNCHANGED <<collided, overlap>>
BY DEF Crash, table

-----------------------------------------------------------------------------
(* Whose jobs wait, and each of them once                                  *)

LEMMA OwnStep ==
  ASSUME TypeOK, Known, Own, Next
  PROVE  Own'
<1>1. ASSUME NoteOverlap
      PROVE  Own'
  BY <1>1, NotesBoolean DEF Own, JobsOf
<1>2. ASSUME JobsOf(dbQueue') \subseteq JobsOf(dbQueue), UNCHANGED <<last, overlap>>
      PROVE  Own'
  BY <1>2 DEF Own, JobsOf
<1>3. ASSUME NEW l \in Lives, HandleEnterGame(l) \/ HandlePacket(l) \/ SavePlayerReward(l)
      PROVE  Own'
  BY <1>1, <1>2, <1>3, EnterDoes, PacketDoes, RewardDoes
<1>4. CASE HandleEquipItem \/ HandleUseItem \/ HandleDropItem
  BY <1>1, <1>4, EquipDoes, EraseDoes
<1>5. CASE AddReward
  BY <1>2, <1>5, AddDoes
<1>6. CASE InsertReward \/ UpdateEquipped \/ DeleteItem
  <2>1. dbQueue # <<>> /\ dbQueue' = Tail(dbQueue) /\ UNCHANGED <<last, overlap>>
    BY <1>6, InsertDoes, UpdateDoes, DeleteDoes
  <2>2. JobsOf(dbQueue') \subseteq JobsOf(dbQueue)
    BY <2>1, JobsLess DEF TypeOK
  <2> QED BY <1>2, <2>1, <2>2
<1>7. CASE Crash
  <2>1. dbQueue' = <<>> /\ JobsOf(dbQueue') = {}
    BY <1>7, CrashDoes, NothingWaits
  <2> QED BY <2>1 DEF Own, JobsOf
<1> QED BY <1>3, <1>4, <1>5, <1>6, <1>7 DEF Next

LEMMA OnceInNothing == \A op : OnceIn(<<>>, op)
BY DEF OnceIn

LEMMA RoomOnceStep ==
  ASSUME TypeOK, Known, OnceIn(roomQueue, "add"), Next
  PROVE  OnceIn(roomQueue', "add")
<1>1. roomQueue \in Seq(RoomJob)
  BY DEF TypeOK
<1>2. ASSUME NEW l \in Lives, HandleEnterGame(l) \/ SavePlayerReward(l)
      PROVE  OnceIn(roomQueue', "add")
  BY <1>2, EnterDoes, RewardDoes
<1>3. ASSUME NEW l \in Lives, HandlePacket(l)
      PROVE  OnceIn(roomQueue', "add")
  <2>1. PICK job \in RoomJob : roomQueue' = Append(roomQueue, job) /\ job.op # "add"
    BY <1>3, PacketDoes
  <2> QED BY <1>1, <2>1, OnceMore
<1>4. CASE HandleEquipItem \/ HandleUseItem \/ HandleDropItem \/ AddReward
  <2>1. roomQueue # <<>> /\ roomQueue' = Tail(roomQueue)
    BY <1>4, EquipDoes, EraseDoes, AddDoes
  <2> QED BY <1>1, <2>1, OnceLess
<1>5. CASE InsertReward
  <2>1. PICK n \in Id, job \in RoomJob :
          n \notin DOMAIN made /\ roomQueue' = Append(roomQueue, job) /\ job.id = n
    BY <1>5, InsertDoes
  <2>2. \A x \in JobsOf(roomQueue) : x.op = "add" => x.id \in DOMAIN made
    BY DEF Known, JobsKnown
  <2>3. \A x \in JobsOf(roomQueue) : x.op = "add" => x.id # job.id
    BY <2>1, <2>2
  <2> QED BY <1>1, <2>1, <2>3, OnceMore
<1>6. CASE UpdateEquipped \/ DeleteItem
  BY <1>6, UpdateDoes, DeleteDoes
<1>7. CASE Crash
  BY <1>7, CrashDoes, OnceInNothing
<1> QED BY <1>2, <1>3, <1>4, <1>5, <1>6, <1>7 DEF Next

\* While no lives overlap, an item that is held is not about to be deleted.
LEMMA HeldStays ==
  ASSUME Own, Books, last # None, ~overlap, NEW id \in Held(last)
  PROVE  \A x \in JobsOf(dbQueue) : x.op = "delete" => x.id # id
<1>1. id \notin WaitingOf(dbQueue, "delete", last)
  BY DEF Books, BooksOf, Sole, Balanced
<1>2. \A i \in DOMAIN dbQueue : dbQueue[i].op = "delete" /\ dbQueue[i].life = last => dbQueue[i].id # id
  BY <1>1, WaitingIs
<1> QED BY <1>2 DEF Own, JobsOf

LEMMA DbOnceStep ==
  ASSUME TypeOK, Known, Own, Books, ~overlap => OnceIn(dbQueue, "delete"), Next, ~overlap'
  PROVE  OnceIn(dbQueue', "delete")
<1>1. dbQueue \in Seq(DbJob)
  BY DEF TypeOK
<1>2. ASSUME NEW l \in Lives, HandleEnterGame(l) \/ HandlePacket(l)
      PROVE  OnceIn(dbQueue', "delete")
  BY <1>2, EnterDoes, PacketDoes, NotesBoolean
<1>3. ASSUME NEW l \in Lives, SavePlayerReward(l)
      PROVE  OnceIn(dbQueue', "delete")
  <2>1. PICK job \in DbJob : dbQueue' = Append(dbQueue, job) /\ job.op = "insert" /\ NoteOverlap
    BY <1>3, RewardDoes
  <2> QED BY <1>1, <2>1, OnceMore, NotesBoolean
<1>4. CASE HandleEquipItem
  <2>1. NoteOverlap
    BY <1>4, EquipDoes
  <2>2. OnceIn(dbQueue, "delete")
    BY <2>1, NotesBoolean
  <2>3. CASE dbQueue' = dbQueue
    BY <2>2, <2>3
  <2>4. ASSUME NEW l \in Lives, NEW id \in Id, NEW off \in SUBSET Id, Equips(l, id, off)
        PROVE  OnceIn(dbQueue', "delete")
    <3>1. \A x \in Id : EquipJob(l, x) \in DbJob /\ EquipJob(l, x).op = "equip"
      BY <2>4, DbJobsAre DEF EquipJob
    <3>2. CASE dbQueue' = Append(dbQueue, EquipJob(l, id))
      BY <1>1, <2>2, <3>1, <3>2, OnceMore
    <3>3. ASSUME NEW o \in Held(l),
                 dbQueue' = Append(Append(dbQueue, EquipJob(l, o)), EquipJob(l, id))
          PROVE  OnceIn(dbQueue', "delete")
      <4>1. o \in Id
        BY <2>4, HeldIs
      <4>2. PICK q \in Seq(DbJob) : q = Append(dbQueue, EquipJob(l, o))
        BY <1>1, <3>1, <4>1, Appended
      <4>3. OnceIn(q, "delete")
        BY <1>1, <2>2, <3>1, <4>1, <4>2, OnceMore
      <4>4. OnceIn(Append(q, EquipJob(l, id)), "delete")
        BY <3>1, <4>3, OnceMore
      <4> QED BY <3>3, <4>2, <4>4
    <3> QED BY <2>4, <3>2, <3>3 DEF Equips
  <2> QED BY <1>4, <2>3, <2>4, EquipDoes, RoomHead
<1>5. CASE HandleUseItem \/ HandleDropItem
  <2>1. NoteOverlap /\ roomQueue # <<>> /\ roomQueue[1].op \in {"use", "drop"} /\ last' = last
    BY <1>5, EraseDoes
  <2>2. OnceIn(dbQueue, "delete") /\ ~overlap
    BY <2>1, NotesBoolean
  <2>3. PICK l \in Lives, s \in Slot : l = roomQueue[1].life /\ s = roomQueue[1].slot
    BY <2>1, RoomHead
  <2>4. CASE dbQueue' = dbQueue
    BY <2>2, <2>4
  <2>5. CASE Erases(l, s)
    <3>1. PICK id \in Id : id = inventory[l][s] /\ id \in Held(l)
      BY <2>5, ErasedIs, HeldIs
    <3>2. /\ DeleteJob(l, id) \in DbJob /\ DeleteJob(l, id).life = l /\ DeleteJob(l, id).id = id
          /\ dbQueue' = Append(dbQueue, DeleteJob(l, id))
      BY <2>5, <3>1, DbJobsAre DEF Erases, DeleteJob
    <3>3. l = last
      BY <1>1, <2>1, <3>2, JobsMore, NotesBoolean
    <3>4. \A x \in JobsOf(dbQueue) : x.op = "delete" => x.id # id
      BY <2>2, <3>1, <3>3, HeldStays, LivesAssumption
    <3> QED BY <1>1, <2>2, <3>2, <3>4, OnceMore
  <2> QED BY <1>5, <2>3, <2>4, <2>5, EraseDoes
<1>6. CASE AddReward
  BY <1>6, AddDoes
<1>7. CASE InsertReward \/ UpdateEquipped \/ DeleteItem
  <2>1. dbQueue # <<>> /\ dbQueue' = Tail(dbQueue) /\ overlap' = overlap
    BY <1>7, InsertDoes, UpdateDoes, DeleteDoes
  <2> QED BY <1>1, <2>1, OnceLess
<1>8. CASE Crash
  BY <1>8, CrashDoes, OnceInNothing
<1> QED BY <1>2, <1>3, <1>4, <1>5, <1>6, <1>7, <1>8 DEF Next

LEMMA OnceStep ==
  ASSUME TypeOK, Known, Own, Books, Once, Next
  PROVE  Once'
<1>1. OnceIn(roomQueue, "add") /\ (~overlap => OnceIn(dbQueue, "delete"))
  BY DEF Once
<1>2. OnceIn(roomQueue', "add")
  BY <1>1, RoomOnceStep
<1>3. ~overlap' => OnceIn(dbQueue', "delete")
  BY <1>1, DbOnceStep
<1> QED BY <1>2, <1>3 DEF Once, OnceIn

-----------------------------------------------------------------------------
(* What the two jobs that push jobs do to the queue                        *)

LEMMA EquipsIs ==
  ASSUME TypeOK, NEW l \in Lives, NEW id \in Id, NEW off \in SUBSET Id,
         Equips(l, id, off)
  PROVE  /\ off \cup {id} \subseteq Held(l)
         /\ \/ off = ToUnequip(l, id) /\ equipped'[l] = (equipped[l] \ off) \cup {id}
            \/ equipped'[l] = equipped[l] \ {id}
         /\ WaitingOf(dbQueue', "equip", l) = WaitingOf(dbQueue, "equip", l) \cup (off \cup {id})
         /\ WaitingOf(dbQueue', "delete", l) = WaitingOf(dbQueue, "delete", l)
         /\ \E job \in JobsOf(dbQueue') : job.life = l
         /\ \A a, b : Before(dbQueue, a, b) => Before(dbQueue', a, b)
         /\ \A a \in WaitingOf(dbQueue, "delete", l) : Before(dbQueue', a, id)
<1>1. /\ id \in Held(l) /\ Held(l) \subseteq Id
      /\ \/ off = ToUnequip(l, id) /\ equipped'[l] = (equipped[l] \ off) \cup {id}
         \/ equipped'[l] = equipped[l] \ {id}
  BY HeldIs DEF Equips, TypeOK
<1>2. /\ dbQueue \in Seq(DbJob)
      /\ \A x \in Id : /\ EquipJob(l, x) \in DbJob /\ EquipJob(l, x).op = "equip"
                       /\ EquipJob(l, x).life = l /\ EquipJob(l, x).id = x
  BY DbJobsAre DEF TypeOK, EquipJob
<1>3. PICK q \in Seq(DbJob) :
        /\ dbQueue' = Append(q, EquipJob(l, id))
        /\ \/ off = {} /\ q = dbQueue
           \/ \E o \in Held(l) : off = {o} /\ q = Append(dbQueue, EquipJob(l, o))
  <2>1. CASE off = {} /\ dbQueue' = Append(dbQueue, EquipJob(l, id))
    BY <1>2, <2>1
  <2>2. ASSUME NEW o \in Held(l), off = {o},
               dbQueue' = Append(Append(dbQueue, EquipJob(l, o)), EquipJob(l, id))
        PROVE  \E q \in Seq(DbJob) :
                 /\ dbQueue' = Append(q, EquipJob(l, id))
                 /\ off = {o} /\ q = Append(dbQueue, EquipJob(l, o))
    BY <1>1, <1>2, <2>2, Appended
  <2> QED BY <2>1, <2>2 DEF Equips
<1>4. /\ off \subseteq Held(l)
      /\ WaitingOf(q, "equip", l) = WaitingOf(dbQueue, "equip", l) \cup off
      /\ WaitingOf(q, "delete", l) = WaitingOf(dbQueue, "delete", l)
      /\ \A a, b : Before(dbQueue, a, b) => Before(q, a, b)
  <2>1. CASE off = {} /\ q = dbQueue
    BY <2>1
  <2>2. ASSUME NEW o \in Held(l), off = {o}, q = Append(dbQueue, EquipJob(l, o))
        PROVE  /\ WaitingOf(q, "equip", l) = WaitingOf(dbQueue, "equip", l) \cup {o}
               /\ WaitingOf(q, "delete", l) = WaitingOf(dbQueue, "delete", l)
               /\ \A a, b : Before(dbQueue, a, b) => Before(q, a, b)
    <3>1. PICK x \in DbJob : x = EquipJob(l, o) /\ x.op = "equip" /\ x.life = l /\ x.id = o
      BY <1>1, <1>2
    <3>2. WaitingOf(q, "equip", l) = WaitingOf(dbQueue, "equip", l) \cup {o}
      BY <1>2, <2>2, <3>1, WaitingMore
    <3>3. WaitingOf(q, "delete", l) = WaitingOf(dbQueue, "delete", l)
      BY <1>2, <2>2, <3>1, WaitingSame
    <3>4. \A a, b : Before(dbQueue, a, b) => Before(q, a, b)
      BY <1>2, <2>2, <3>1, BeforeMore
    <3> QED BY <3>2, <3>3, <3>4
  <2> QED BY <1>3, <2>1, <2>2
<1>5. PICK x \in DbJob :
        /\ dbQueue' = Append(q, x)
        /\ x.op = "equip" /\ x.life = l /\ x.id = id
  BY <1>2, <1>3
<1>6. WaitingOf(dbQueue', "equip", l) = WaitingOf(q, "equip", l) \cup {id}
  BY <1>5, WaitingMore
<1>7. WaitingOf(dbQueue', "delete", l) = WaitingOf(q, "delete", l)
  BY <1>5, WaitingSame
<1>8. x \in JobsOf(dbQueue')
  BY <1>5, JobsMore
<1>9. \A a, b : Before(q, a, b) => Before(dbQueue', a, b)
  BY <1>5, BeforeMore
<1>10. ASSUME NEW a \in WaitingOf(dbQueue, "delete", l)
       PROVE  Before(dbQueue', a, id)
  <2>1. \E i \in DOMAIN q : q[i].op = "delete" /\ q[i].life = l /\ q[i].id = a
    BY <1>4, WaitingIs
  <2>2. \E y \in JobsOf(q) : y.op = "delete" /\ y.id = a
    BY <2>1 DEF JobsOf
  <2> QED BY <1>5, <2>2, BeforeMore
<1> QED BY <1>1, <1>4, <1>5, <1>6, <1>7, <1>8, <1>9, <1>10

LEMMA ErasesIs ==
  ASSUME TypeOK, Known, NEW l \in Lives, NEW s \in Slot, Erases(l, s)
  PROVE  \E id \in Held(l) :
           /\ Held(l)' = Held(l) \ {id}
           /\ WaitingOf(dbQueue', "equip", l) = WaitingOf(dbQueue, "equip", l)
           /\ WaitingOf(dbQueue', "delete", l) = WaitingOf(dbQueue, "delete", l) \cup {id}
           /\ \E job \in JobsOf(dbQueue') : job.life = l
           /\ \A a, b : Before(dbQueue, a, b) => Before(dbQueue', a, b)
<1>1. PICK id \in Id : id = inventory[l][s] /\ id \in Held(l) /\ Held(l)' = Held(l) \ {id}
  BY ErasedIs, HeldIs
<1>2. PICK x \in DbJob :
        /\ dbQueue' = Append(dbQueue, x)
        /\ x.op = "delete" /\ x.life = l /\ x.id = id
  BY <1>1, DbJobsAre DEF Erases, DeleteJob
<1>3. dbQueue \in Seq(DbJob)
  BY DEF TypeOK
<1>4. WaitingOf(dbQueue', "equip", l) = WaitingOf(dbQueue, "equip", l)
  BY <1>2, <1>3, WaitingSame
<1>5. WaitingOf(dbQueue', "delete", l) = WaitingOf(dbQueue, "delete", l) \cup {id}
  BY <1>2, <1>3, WaitingMore
<1>6. x \in JobsOf(dbQueue')
  BY <1>2, <1>3, JobsMore
<1>7. \A a, b : Before(dbQueue, a, b) => Before(dbQueue', a, b)
  BY <1>2, <1>3, BeforeMore
<1> QED BY <1>1, <1>2, <1>4, <1>5, <1>6, <1>7

-----------------------------------------------------------------------------
(* The books balance                                                       *)

LEMMA BooksStep ==
  ASSUME TypeOK, Known, Once, Own, Books, Next, Sole'
  PROVE  BooksOf(last)'
<1>1. /\ inventory \in [Lives -> [Slot -> Id \cup {None}]] /\ equipped \in [Lives -> SUBSET Id]
      /\ roomQueue \in Seq(RoomJob) /\ dbQueue \in Seq(DbJob)
      /\ rows \subseteq DOMAIN made /\ worn \subseteq rows
  BY DEF TypeOK
<1> DEFINE H == Held(last)
           E == equipped[last]
           D == WaitingOf(dbQueue, "delete", last)
           U == WaitingOf(dbQueue, "equip", last)
           A == WaitingOf(roomQueue, "add", last)
<1>2. ASSUME last' = last, ~overlap
      PROVE  last \in Lives /\ Balanced(H, shadow, E, rows, worn, D, U, A)
  BY <1>2 DEF Books, BooksOf, Sole, TypeOK
<1>3. ASSUME NEW l \in Lives, HandleEnterGame(l)
      PROVE  BooksOf(last)'
  <2>1. PICK loaded \in SUBSET rows :
          /\ Held(l)' = loaded /\ equipped'[l] = worn \cap loaded /\ shadow' = rows \ loaded
    BY <1>3, EnterDoes
  <2>2. last' = l /\ UNCHANGED <<rows, worn>> /\ dbQueue' = <<>> /\ WaitingOf(roomQueue', "add", l) = {}
    BY <1>3, EnterDoes DEF Sole
  <2>3. WaitingOf(dbQueue', "delete", l) = {} /\ WaitingOf(dbQueue', "equip", l) = {}
    BY <2>2, NothingWaits
  <2>4. Balanced(Held(l)', shadow', equipped'[l], rows', worn', {}, {}, {})
    BY <2>1, <2>2, BalancedLogin
  <2> QED BY <2>2, <2>3, <2>4 DEF BooksOf, Held
<1>4. ASSUME NEW l \in Lives, HandlePacket(l)
      PROVE  BooksOf(last)'
  <2>1. /\ UNCHANGED <<life, last, inventory, equipped>> /\ UNCHANGED <<made, rows, worn>>
        /\ UNCHANGED <<dbQueue, shadow, collided, torn, overlap>>
    BY <1>4, PacketDoes
  <2>2. PICK job \in RoomJob : roomQueue' = Append(roomQueue, job) /\ job.op # "add"
    BY <1>4, PacketDoes
  <2>3. WaitingOf(roomQueue', "add", last) = A
    BY <1>1, <2>2, WaitingSame
  <2>4. Balanced(H, shadow, E, rows, worn, D, U, A)
    BY <1>2, <2>1 DEF Sole
  <2> QED BY <2>1, <2>3, <2>4 DEF BooksOf, Held
<1>5. ASSUME NEW l \in Lives, SavePlayerReward(l)
      PROVE  BooksOf(last)'
  <2>1. /\ UNCHANGED <<life, last, inventory, equipped>> /\ UNCHANGED <<made, rows, worn>>
        /\ UNCHANGED <<roomQueue, shadow, collided, torn>> /\ NoteOverlap
    BY <1>5, RewardDoes
  <2>2. PICK job \in DbJob : dbQueue' = Append(dbQueue, job) /\ job.op = "insert"
    BY <1>5, RewardDoes
  <2>3. WaitingOf(dbQueue', "delete", last) = D /\ WaitingOf(dbQueue', "equip", last) = U
    BY <1>1, <2>2, WaitingSame
  <2>4. Balanced(H, shadow, E, rows, worn, D, U, A)
    BY <1>2, <2>1, NotesBoolean DEF Sole
  <2> QED BY <2>1, <2>3, <2>4 DEF BooksOf, Held
<1>6. CASE HandleEquipItem
  <2>1. /\ roomQueue # <<>> /\ roomQueue[1].op = "equip" /\ roomQueue' = Tail(roomQueue)
        /\ UNCHANGED <<life, last, inventory>> /\ UNCHANGED <<made, rows, worn>>
        /\ UNCHANGED <<shadow, collided, torn>> /\ NoteOverlap
    BY <1>6, EquipDoes
  <2>2. WaitingOf(roomQueue', "add", last) = A
    BY <1>1, <2>1, WaitingRest
  <2>3. Balanced(H, shadow, E, rows, worn, D, U, A)
    BY <1>2, <2>1, NotesBoolean DEF Sole
  <2>4. CASE UNCHANGED <<equipped, dbQueue>>
    BY <2>1, <2>2, <2>3, <2>4 DEF BooksOf, Held
  <2>5. ASSUME NEW l \in Lives, NEW id \in Id, NEW off \in SUBSET Id, Equips(l, id, off)
        PROVE  BooksOf(last)'
    <3>1. /\ off \cup {id} \subseteq Held(l)
          /\ equipped'[l] \in {(equipped[l] \ off) \cup {id}, equipped[l] \ {id}}
          /\ WaitingOf(dbQueue', "equip", l) = WaitingOf(dbQueue, "equip", l) \cup (off \cup {id})
          /\ WaitingOf(dbQueue', "delete", l) = WaitingOf(dbQueue, "delete", l)
          /\ \E job \in JobsOf(dbQueue') : job.life = l
      <4> HIDE DEF H, E, D, U, A
      <4> QED BY <2>5, EquipsIs
    <3>2. l = last
      BY <2>1, <3>1, NotesBoolean DEF Sole
    <3>3. PICK C \in SUBSET H : C = off \cup {id}
      BY <3>1, <3>2
    <3>4. equipped'[last] \ C = E \ C
      BY <3>1, <3>2, <3>3
    <3>5. Balanced(H, shadow, equipped'[last], rows, worn, D, U \cup C, A)
      <4> HIDE DEF H, E, D, U, A
      <4> QED BY <2>3, <3>4, BalancedEquip
    <3>6. Held(last)' = H
      BY <2>1 DEF Held
    <3>7. /\ WaitingOf(dbQueue', "equip", last) = U \cup C
          /\ WaitingOf(dbQueue', "delete", last) = D
      BY <3>1, <3>2, <3>3
    <3> QED BY <2>1, <2>2, <3>5, <3>6, <3>7 DEF BooksOf
  <2> QED BY <1>6, <2>1, <2>4, <2>5, EquipDoes, RoomHead
<1>7. CASE HandleUseItem \/ HandleDropItem
  <2>1. /\ roomQueue # <<>> /\ roomQueue[1].op \in {"use", "drop"} /\ roomQueue' = Tail(roomQueue)
        /\ UNCHANGED <<life, last, equipped>> /\ UNCHANGED <<made, rows, worn>>
        /\ UNCHANGED <<shadow, collided, torn>> /\ NoteOverlap
    BY <1>7, EraseDoes
  <2>2. WaitingOf(roomQueue', "add", last) = A
    BY <1>1, <2>1, WaitingRest
  <2>3. Balanced(H, shadow, E, rows, worn, D, U, A)
    BY <1>2, <2>1, NotesBoolean DEF Sole
  <2>4. CASE UNCHANGED <<inventory, dbQueue>>
    BY <2>1, <2>2, <2>3, <2>4 DEF BooksOf, Held
  <2>5. ASSUME NEW l \in Lives, NEW s \in Slot, Erases(l, s)
        PROVE  BooksOf(last)'
    <3>1. PICK id \in Held(l) :
            /\ Held(l)' = Held(l) \ {id}
            /\ WaitingOf(dbQueue', "equip", l) = WaitingOf(dbQueue, "equip", l)
            /\ WaitingOf(dbQueue', "delete", l) = WaitingOf(dbQueue, "delete", l) \cup {id}
            /\ \E job \in JobsOf(dbQueue') : job.life = l
      BY <2>5, ErasesIs
    <3>2. l = last
      BY <2>1, <3>1, NotesBoolean DEF Sole
    <3>3. Balanced(H \ {id}, shadow, E, rows, worn, D \cup {id}, U, A)
      BY <2>3, <3>1, <3>2, BalancedErase
    <3>4. Held(last)' = H \ {id}
      BY <2>1, <3>1, <3>2
    <3> QED BY <2>1, <2>2, <3>1, <3>2, <3>3, <3>4 DEF BooksOf
  <2> QED BY <1>7, <2>1, <2>4, <2>5, EraseDoes, RoomHead
<1>8. CASE AddReward
  <2>1. /\ roomQueue # <<>> /\ roomQueue[1].op = "add" /\ roomQueue' = Tail(roomQueue)
        /\ UNCHANGED <<life, last, equipped>> /\ UNCHANGED <<made, rows, worn>>
        /\ UNCHANGED <<dbQueue, collided, torn, overlap>>
    BY <1>8, AddDoes
  <2>2. PICK l \in Lives, id \in Id, taken \in SUBSET Held(roomQueue[1].life) :
          /\ l = roomQueue[1].life /\ id = roomQueue[1].id
          /\ Held(l)' = (Held(l) \ taken) \cup {id}
          /\ shadow' = IF l = last THEN shadow \cup taken ELSE shadow
          /\ \A x \in Lives \ {l} : Held(x)' = Held(x)
    BY <1>8, AddDoes
  <2>3. last \in Lives /\ Balanced(H, shadow, E, rows, worn, D, U, A)
    BY <1>2, <2>1 DEF Sole
  <2> DEFINE B == WaitingOf(Tail(roomQueue), "add", last)
  <2>4. CASE l = last
    <3>1. A = B \cup {id} /\ id \notin B
      <4>1. roomQueue[1].life = last /\ roomQueue[1].id = id
        BY <2>2, <2>4
      <4>2. A = B \cup {roomQueue[1].id}
        BY <1>1, <2>1, <4>1, WaitingRest
      <4>3. A = B \cup {id}
        <5> HIDE DEF A, B
        <5> QED BY <4>1, <4>2
      <4>4. id \notin B
        BY <1>1, <2>1, <2>2, HeadNotWaiting DEF Once
      <4> QED BY <4>3, <4>4
    <3>2. Balanced(H, shadow, E, rows, worn, D, U, B \cup {id})
      BY <2>3, <3>1
    <3>3. Balanced((H \ taken) \cup {id}, shadow \cup taken, E, rows, worn, D, U, B)
      <4> HIDE DEF H, E, D, U, A, B
      <4>1. taken \in SUBSET H
        BY <2>2, <2>4 DEF H
      <4>2. id \notin B
        BY <3>1
      <4> QED BY <3>2, <4>1, <4>2, BalancedAdd
    <3>4. Held(last)' = (H \ taken) \cup {id}
      <4>1. Held(last)' = Held(l)'
        BY <2>1, <2>4 DEF Held
      <4>2. H = Held(l)
        BY <2>4
      <4> HIDE DEF H
      <4> QED BY <2>2, <4>1, <4>2
    <3> QED BY <2>1, <2>2, <2>4, <3>3, <3>4 DEF BooksOf
  <2>5. CASE l # last
    <3>1. A = B
      <4>1. A = B \cup {}
        BY <1>1, <2>1, <2>2, <2>5, WaitingLess
      <4> HIDE DEF A, B
      <4> QED BY <4>1
    <3>2. Held(last)' = H
      BY <2>1, <2>2, <2>3, <2>5 DEF Held
    <3> QED BY <2>1, <2>2, <2>3, <2>5, <3>1, <3>2 DEF BooksOf
  <2> QED BY <2>4, <2>5
<1>9. CASE InsertReward
  <2>1. /\ dbQueue # <<>> /\ dbQueue[1].op = "insert" /\ dbQueue' = Tail(dbQueue)
        /\ UNCHANGED <<life, last, inventory, equipped>> /\ UNCHANGED <<worn, shadow, torn, overlap>>
    BY <1>9, InsertDoes
  <2>2. PICK n \in Id, job \in RoomJob :
          /\ n \notin DOMAIN made /\ rows' = rows \cup {n}
          /\ roomQueue' = Append(roomQueue, job)
          /\ job.op = "add" /\ job.life = dbQueue[1].life /\ job.id = n
    BY <1>9, InsertDoes
  <2>3. last \in Lives /\ Balanced(H, shadow, E, rows, worn, D, U, A) /\ ~overlap
    BY <1>2, <2>1 DEF Sole
  <2>4. dbQueue[1] \in JobsOf(dbQueue) /\ job.life = last
    BY <1>1, <2>1, <2>2, <2>3, JobsLess DEF Own
  <2>5. WaitingOf(roomQueue', "add", last) = A \cup {n}
    BY <1>1, <2>2, <2>4, WaitingMore
  <2>6. WaitingOf(dbQueue', "delete", last) = D /\ WaitingOf(dbQueue', "equip", last) = U
    BY <1>1, <2>1, WaitingRest
  <2>7. n \notin rows /\ n \notin worn /\ n \notin E
    BY <1>1, <2>2, <2>3 DEF Known, ItemsKnown
  <2>8. n \notin U
    <3>1. \A x \in JobsOf(dbQueue) : x.op = "equip" => x.id \in DOMAIN made
      BY DEF Known, JobsKnown
    <3>2. \A i \in DOMAIN dbQueue : dbQueue[i].op = "equip" => dbQueue[i].id \in DOMAIN made
      BY <3>1 DEF JobsOf
    <3> QED BY <2>2, <3>2, WaitingIs
  <2>9. Balanced(H, shadow, E, rows \cup {n}, worn, D, U, A \cup {n})
    BY <2>3, <2>7, <2>8, BalancedInsert
  <2> QED BY <2>1, <2>2, <2>5, <2>6, <2>9 DEF BooksOf, Held
<1>10. CASE UpdateEquipped
  <2>1. /\ dbQueue # <<>> /\ dbQueue[1].op = "equip" /\ dbQueue' = Tail(dbQueue)
        /\ UNCHANGED <<life, last, inventory, equipped>> /\ UNCHANGED <<made, rows, roomQueue>>
        /\ UNCHANGED <<shadow, collided, torn, overlap>>
        /\ worn' = IF dbQueue[1].id \in equipped[dbQueue[1].life]
                     THEN worn \cup (rows \cap {dbQueue[1].id}) ELSE worn \ {dbQueue[1].id}
    BY <1>10, UpdateDoes
  <2>2. last \in Lives /\ Balanced(H, shadow, E, rows, worn, D, U, A) /\ ~overlap
    BY <1>2, <2>1 DEF Sole
  <2>3. dbQueue[1].life = last
    BY <1>1, <2>1, <2>2, JobsLess DEF Own
  <2>4. PICK id : id = dbQueue[1].id
    OBVIOUS
  <2> DEFINE V == WaitingOf(Tail(dbQueue), "equip", last)
  <2>5. U = V \cup {id} /\ WaitingOf(dbQueue', "delete", last) = D
    BY <1>1, <2>1, <2>3, <2>4, WaitingRest
  <2>6. Balanced(H, shadow, E, rows, worn, D, V \cup {id}, A)
    BY <2>2, <2>5
  <2>7. Balanced(H, shadow, E, rows, IF id \in E THEN worn \cup (rows \cap {id}) ELSE worn \ {id}, D, V, A)
    <3> HIDE DEF H, E, D, U, A, V
    <3> QED BY <2>6, BalancedUpdate
  <2> QED BY <2>1, <2>3, <2>4, <2>5, <2>7 DEF BooksOf, Held
<1>11. CASE DeleteItem
  <2>1. /\ dbQueue # <<>> /\ dbQueue[1].op = "delete" /\ dbQueue' = Tail(dbQueue)
        /\ UNCHANGED <<life, last, inventory, equipped>> /\ UNCHANGED <<made, roomQueue>>
        /\ UNCHANGED <<shadow, collided, torn, overlap>>
        /\ rows' = rows \ {dbQueue[1].id} /\ worn' = worn \ {dbQueue[1].id}
    BY <1>11, DeleteDoes
  <2>2. last \in Lives /\ Balanced(H, shadow, E, rows, worn, D, U, A) /\ ~overlap
    BY <1>2, <2>1 DEF Sole
  <2>3. dbQueue[1].life = last
    BY <1>1, <2>1, <2>2, JobsLess DEF Own
  <2>4. PICK id : id = dbQueue[1].id
    OBVIOUS
  <2> DEFINE V == WaitingOf(Tail(dbQueue), "delete", last)
  <2>5. D = V \cup {id} /\ WaitingOf(dbQueue', "equip", last) = U
    BY <1>1, <2>1, <2>3, <2>4, WaitingRest
  <2>6. id \notin V
    BY <1>1, <2>1, <2>2, <2>4, HeadNotWaiting DEF Once
  <2>7. Balanced(H, shadow, E, rows, worn, V \cup {id}, U, A)
    BY <2>2, <2>5
  <2>8. Balanced(H, shadow, E, rows \ {id}, worn \ {id}, V, U, A)
    <3> HIDE DEF H, E, D, U, A, V
    <3> QED BY <2>6, <2>7, BalancedDelete
  <2> QED BY <2>1, <2>3, <2>4, <2>5, <2>8 DEF BooksOf, Held
<1>12. CASE Crash
  BY <1>12, CrashDoes DEF Sole
<1> QED BY <1>3, <1>4, <1>5, <1>6, <1>7, <1>8, <1>9, <1>10, <1>11, <1>12 DEF Next

-----------------------------------------------------------------------------
(* Slots                                                                   *)

\* A reward that is added while no two rows share a slot displaces nothing.
LEMMA NothingTaken ==
  ASSUME TypeOK, Known, Books, SlotsApart, Sole, ~collided,
         NEW id \in WaitingOf(roomQueue, "add", last),
         NEW x \in Held(last), made[x].slot = made[id].slot
  PROVE  FALSE
<1>1. BooksOf(last)
  BY DEF Books
<1>2. x \in rows /\ id \in rows /\ x # id
  BY <1>1 DEF BooksOf, Balanced
<1> QED BY <1>2 DEF SlotsApart

LEMMA AddWaits ==
  ASSUME TypeOK, roomQueue # <<>>, roomQueue[1].op = "add", roomQueue[1].life = last
  PROVE  roomQueue[1].id \in WaitingOf(roomQueue, "add", last)
<1>1. 1 \in DOMAIN roomQueue
  BY Dropped DEF TypeOK
<1> QED BY <1>1, WaitingIs

LEMMA SlotsApartStep ==
  ASSUME TypeOK, Known, Books, SlotsApart, Next, ~collided'
  PROVE  /\ \A a, b \in rows' : made'[a].slot = made'[b].slot => a = b
         /\ Sole' => shadow' = {}
<1> DEFINE Apart == \A a, b \in rows : made[a].slot = made[b].slot => a = b
<1>1. ~collided => Apart /\ (Sole => shadow = {})
  BY DEF SlotsApart
<1>2. ASSUME UNCHANGED <<made, rows>>, UNCHANGED <<last, shadow, collided>>, ~overlap' => ~overlap
      PROVE  Apart' /\ (Sole' => shadow' = {})
  BY <1>1, <1>2 DEF Sole
<1>3. ASSUME NEW l \in Lives, HandleEnterGame(l)
      PROVE  Apart' /\ (Sole' => shadow' = {})
  <2>1. UNCHANGED <<made, rows, collided>> /\ Apart
    BY <1>1, <1>3, EnterDoes
  <2>2. shadow' = rows \ rows
    BY <1>3, <2>1, EnterDoes
  <2> QED BY <2>1, <2>2
<1>4. ASSUME NEW l \in Lives, HandlePacket(l) \/ SavePlayerReward(l)
      PROVE  Apart' /\ (Sole' => shadow' = {})
  <2>1. UNCHANGED <<made, rows>> /\ UNCHANGED <<last, shadow, collided>> /\ (~overlap' => ~overlap)
    BY <1>4, PacketDoes, RewardDoes, NotesBoolean
  <2> QED BY <1>2, <2>1
<1>5. CASE HandleEquipItem \/ HandleUseItem \/ HandleDropItem
  <2>1. UNCHANGED <<made, rows>> /\ UNCHANGED <<last, shadow, collided>> /\ NoteOverlap
    BY <1>5, EquipDoes, EraseDoes
  <2> QED BY <1>2, <2>1, NotesBoolean
<1>6. CASE AddReward
  <2>1. /\ roomQueue # <<>> /\ roomQueue[1].op = "add"
        /\ UNCHANGED <<made, rows>> /\ UNCHANGED <<last, collided, overlap>>
    BY <1>6, AddDoes
  <2>2. PICK l \in Lives, id \in Id, taken \in SUBSET Held(roomQueue[1].life) :
          /\ l = roomQueue[1].life /\ id = roomQueue[1].id
          /\ shadow' = IF l = last THEN shadow \cup taken ELSE shadow
          /\ \A x \in taken : made[x].slot = made[id].slot
    BY <1>6, AddDoes
  <2>3. ASSUME Sole
        PROVE  shadow' = {}
    <3>1. shadow = {}
      BY <1>1, <2>1, <2>3
    <3>2. CASE l = last
      <4>1. id \in WaitingOf(roomQueue, "add", last)
        BY <2>1, <2>2, <3>2, AddWaits
      <4>2. taken = {}
        <5>1. ASSUME NEW x \in taken
              PROVE  FALSE
          BY <2>1, <2>2, <2>3, <3>2, <4>1, NothingTaken
        <5> QED BY <5>1
      <4> QED BY <2>2, <3>1, <4>2
    <3> QED BY <2>2, <3>1, <3>2
  <2> QED BY <1>1, <2>1, <2>3 DEF Sole
<1>7. CASE InsertReward
  <2>1. UNCHANGED <<last, shadow, overlap>>
    BY <1>7, InsertDoes
  <2>2. PICK n \in Id :
          /\ n \notin DOMAIN made /\ rows' = rows \cup {n}
          /\ \A id \in DOMAIN made : made'[id] = made[id]
          /\ ~collided /\ \A id \in rows : made[id].slot # made'[n].slot
    BY <1>7, InsertDoes
  <2>3. Apart'
    BY <1>1, <2>2 DEF TypeOK
  <2> QED BY <1>1, <2>1, <2>2, <2>3 DEF Sole
<1>8. CASE UpdateEquipped
  <2>1. UNCHANGED <<made, rows>> /\ UNCHANGED <<last, shadow, collided>> /\ overlap' = overlap
    BY <1>8, UpdateDoes
  <2> QED BY <1>2, <2>1
<1>9. CASE DeleteItem
  <2>1. /\ made' = made /\ UNCHANGED <<last, shadow, collided>> /\ overlap' = overlap
        /\ rows' \subseteq rows
    BY <1>9, DeleteDoes
  <2> QED BY <1>1, <2>1 DEF Sole
<1>10. CASE Crash
  <2>1. UNCHANGED <<made, rows>> /\ collided' = collided /\ shadow' = {}
    BY <1>10, CrashDoes
  <2> QED BY <1>1, <2>1
<1> QED BY <1>3, <1>4, <1>5, <1>6, <1>7, <1>8, <1>9, <1>10 DEF Next

-----------------------------------------------------------------------------
(* One of a group                                                          *)

LEMMA GroupsAre ==
  ASSUME NEW a, NEW b, NEW c
  PROVE  /\ SameGroup(a, b) => SameGroup(b, a)
         /\ SameGroup(a, b) /\ SameGroup(b, c) => SameGroup(a, c)
BY DEF SameGroup

\* When no update waits, what the rows say is worn is what the life wears or wore,
\* and no two of that are of one group.
LEMMA NoTwoInRows ==
  ASSUME TypeOK, Known, Own, Books, SlotsApart, Ordered, AtRest,
         ~overlap, ~collided, ~torn, Count(dbQueue, "equip") = 0
  PROVE  NoTwo(worn)
<1>1. CASE last = None
  BY <1>1 DEF AtRest
<1>2. CASE last # None
  <2>1. BooksOf(last) /\ shadow = {} /\ InOrder(last)
    BY <1>2 DEF Books, SlotsApart, Ordered, Sole
  <2>2. \A i \in DOMAIN dbQueue : dbQueue[i].op # "equip"
    BY CountIs DEF TypeOK
  <2>3. /\ \A x : x \notin WaitingOf(dbQueue, "equip", last)
        /\ \A a, b : ~ Before(dbQueue, a, b)
    BY <2>2, WaitingIs DEF Before
  <2>4. worn \subseteq Wore(last)
    BY <2>1, <2>3 DEF BooksOf, Balanced, Wore, TypeOK
  <2> QED BY <2>1, <2>3, <2>4 DEF InOrder, NoTwo
<1> QED BY <1>1, <1>2

\* What is held and worn is of different groups, whatever waits.
LEMMA NoTwoHeld ==
  ASSUME TypeOK, Own, Books, Ordered, Sole, ~collided, ~torn
  PROVE  NoTwo(equipped[last] \cap Held(last))
<1>1. BooksOf(last) /\ InOrder(last)
  BY DEF Books, Ordered
<1>2. Held(last) \cap WaitingOf(dbQueue, "delete", last) = {}
  BY <1>1 DEF BooksOf, Balanced
<1>3. \A i \in DOMAIN dbQueue : dbQueue[i].life = last
  BY DEF Own, Sole, JobsOf
<1>4. \A a, b : Before(dbQueue, a, b) => a \in WaitingOf(dbQueue, "delete", last)
  BY <1>3, WaitingIs DEF Before
<1> QED BY <1>1, <1>2, <1>4 DEF InOrder, Wore, NoTwo

LEMMA AtRestStep ==
  ASSUME TypeOK, Known, Own, Books, SlotsApart, Ordered, AtRest, Next, last' = None,
         ~overlap', ~collided', ~torn'
  PROVE  NoTwo(worn)'
<1>1. ASSUME NEW l \in Lives
      PROVE  ~ (HandleEnterGame(l) \/ HandlePacket(l) \/ SavePlayerReward(l))
  <2>1. life[l] = "made" => last # None
    BY DEF Known, LastKnown
  <2>2. HandleEnterGame(l) => last' = l
    BY EnterDoes
  <2>3. HandlePacket(l) \/ SavePlayerReward(l) => life[l] = "made" /\ last' = last
    BY PacketDoes, RewardDoes DEF HandlePacket, SavePlayerReward
  <2> QED BY <2>1, <2>2, <2>3, LivesAssumption
<1>2. roomQueue # <<>> \/ dbQueue # <<>> => last # None
  BY DEF Known, LastKnown
<1>3. CASE HandleEquipItem \/ HandleUseItem \/ HandleDropItem \/ AddReward
  BY <1>2, <1>3, EquipDoes, EraseDoes, AddDoes
<1>4. CASE InsertReward \/ UpdateEquipped \/ DeleteItem
  BY <1>2, <1>4, InsertDoes, UpdateDoes, DeleteDoes
<1>5. CASE Crash
  <2>1. /\ torn' = (torn \/ Count(dbQueue, "equip") > 0)
        /\ UNCHANGED <<made, rows, worn>> /\ UNCHANGED <<collided, overlap>>
    BY <1>5, CrashDoes
  <2>2. Count(dbQueue, "equip") \in Nat
    BY CountIs DEF TypeOK
  <2>3. ~torn /\ ~ Count(dbQueue, "equip") > 0
    BY <2>1, Zenon
  <2>4. NoTwo(worn)
    <3>1. Count(dbQueue, "equip") = 0
      BY <2>2, <2>3
    <3> QED BY <2>1, <2>3, <3>1, NoTwoInRows
  <2> QED BY <2>1, <2>4 DEF NoTwo, SameGroup
<1> QED BY <1>1, <1>3, <1>4, <1>5 DEF Next

\* What a step must not do to the order: wear more, or lose what is Before.
LEMMA OrderKept ==
  ASSUME InOrder(last), Wore(last)' \subseteq Wore(last),
         \A a, b \in Wore(last) : SameGroup(a, b)' <=> SameGroup(a, b),
         \A a, b \in Wore(last)' : Before(dbQueue, a, b) => Before(dbQueue', a, b)
  PROVE  InOrder(last)'
BY DEF InOrder, Before

LEMMA EquipKeepsOrder ==
  ASSUME TypeOK, Known, Own, Books, Sole, InOrder(last), NEW id \in Id, NEW off \in SUBSET Id,
         Equips(last, id, off), UNCHANGED <<last, inventory>>, made' = made
  PROVE  InOrder(last)'
<1> DEFINE H == Held(last)
           E == equipped[last]
           D == WaitingOf(dbQueue, "delete", last)
<1>1. last \in Lives /\ BooksOf(last)
  BY DEF Sole, TypeOK, Books
<1>2. H \cap D = {}
  BY <1>1 DEF BooksOf, Balanced
<1>3. /\ id \in H
      /\ \/ off = ToUnequip(last, id) /\ equipped'[last] = (E \ off) \cup {id}
         \/ equipped'[last] = E \ {id}
      /\ WaitingOf(dbQueue', "delete", last) = D
      /\ \A a, b : Before(dbQueue, a, b) => Before(dbQueue', a, b)
      /\ \A a \in D : Before(dbQueue', a, id)
  <2> HIDE DEF H, E, D
  <2>1. /\ off \cup {id} \subseteq Held(last)
        /\ \/ off = ToUnequip(last, id) /\ equipped'[last] = (equipped[last] \ off) \cup {id}
           \/ equipped'[last] = equipped[last] \ {id}
        /\ WaitingOf(dbQueue', "delete", last) = WaitingOf(dbQueue, "delete", last)
        /\ \A a, b : Before(dbQueue, a, b) => Before(dbQueue', a, b)
        /\ \A a \in WaitingOf(dbQueue, "delete", last) : Before(dbQueue', a, id)
    BY <1>1, EquipsIs
  <2> QED BY <2>1 DEF H, E, D
<1>4. \A a, b : SameGroup(a, b)' <=> SameGroup(a, b)
  BY DEF SameGroup
<1>5. Held(last)' = H
  BY DEF Held
<1>6. Wore(last)' = equipped'[last] \cap (H \cup D)
  BY <1>3, <1>5 DEF Wore
<1>7. \A i \in DOMAIN dbQueue : dbQueue[i].life = last
  BY DEF Own, Sole, JobsOf
<1>8. \A a, b : Before(dbQueue, a, b) => a \in D
  BY <1>7, WaitingIs DEF Before
<1>9. CASE equipped'[last] = E \ {id}
  <2>1. Wore(last)' \subseteq Wore(last)
    BY <1>6, <1>9 DEF Wore
  <2> QED BY <1>3, <1>4, <2>1, OrderKept
<1>10. CASE off = ToUnequip(last, id) /\ equipped'[last] = (E \ off) \cup {id}
  <2>1. ASSUME NEW b \in E \ off, b \in H \cup D, b # id, SameGroup(b, id)
        PROVE  b \in D
    <3>1. CASE off = {} /\ \A o \in H \cap E : ~ SameGroup(o, id)
      BY <2>1, <3>1
    <3>2. ASSUME NEW o \in H \cap E, off = {o}, SameGroup(o, id)
          PROVE  b \in D
      <4>1. o \in Wore(last) /\ b \in Wore(last) /\ o # b
        BY <2>1, <3>2 DEF Wore
      <4>2. SameGroup(b, o)
        BY <2>1, <3>2, GroupsAre
      <4>3. Before(dbQueue, b, o) \/ Before(dbQueue, o, b)
        BY <4>1, <4>2 DEF InOrder
      <4> QED BY <1>2, <1>8, <4>3
    <3> QED BY <1>1, <1>10, <3>1, <3>2, ToUnequipIs
  <2>2. ASSUME NEW a \in Wore(last)', NEW b \in Wore(last)', SameGroup(a, b), a # b
        PROVE  Before(dbQueue', a, b) \/ Before(dbQueue', b, a)
    <3>1. CASE a # id /\ b # id
      <4>1. a \in Wore(last) /\ b \in Wore(last)
        BY <1>6, <1>10, <3>1 DEF Wore
      <4> QED BY <1>3, <2>2, <4>1 DEF InOrder
    <3>2. CASE a = id
      <4>1. b \in E \ off /\ b \in H \cup D /\ b # id /\ SameGroup(b, id)
        BY <1>6, <1>10, <2>2, <3>2, GroupsAre
      <4> QED BY <1>3, <2>1, <3>2, <4>1
    <3>3. CASE b = id
      <4>1. a \in E \ off /\ a \in H \cup D /\ a # id /\ SameGroup(a, id)
        BY <1>6, <1>10, <2>2, <3>3
      <4> QED BY <1>3, <2>1, <3>3, <4>1
    <3> QED BY <3>1, <3>2, <3>3
  <2> QED BY <1>4, <2>2 DEF InOrder, Before
<1> QED BY <1>3, <1>9, <1>10

LEMMA OrderedStep ==
  ASSUME TypeOK, Known, Once, Own, Books, SlotsApart, Ordered, AtRest, Next,
         Sole', ~collided', ~torn'
  PROVE  InOrder(last)'
<1>1. /\ roomQueue \in Seq(RoomJob) /\ dbQueue \in Seq(DbJob)
      /\ rows \subseteq DOMAIN made /\ worn \subseteq rows
  BY DEF TypeOK
<1>2. ASSUME last' = last, ~overlap, ~collided, ~torn
      PROVE  Sole /\ last \in Lives /\ InOrder(last) /\ BooksOf(last)
  BY <1>2 DEF Ordered, Books, Sole, TypeOK
<1>3. ASSUME made' = made
      PROVE  \A a, b : SameGroup(a, b)' <=> SameGroup(a, b)
  BY <1>3 DEF SameGroup
<1>4. ASSUME NEW l \in Lives, HandleEnterGame(l)
      PROVE  InOrder(last)'
  <2>1. /\ last' = l /\ NoteOverlap /\ dbQueue = <<>>
        /\ UNCHANGED <<made, rows, worn>> /\ UNCHANGED <<roomQueue, dbQueue, collided, torn>>
    BY <1>4, EnterDoes DEF Sole
  <2>2. NoTwo(worn)
    <3>1. Count(dbQueue, "equip") = 0
      BY <2>1, NothingWaits
    <3>2. ~overlap /\ ~collided /\ ~torn
      BY <2>1, NotesBoolean DEF Sole
    <3> QED BY <3>1, <3>2, NoTwoInRows
  <2>3. equipped'[l] \subseteq worn
    BY <1>4, EnterDoes
  <2>4. Wore(last)' \subseteq worn
    BY <2>1, <2>3 DEF Wore
  <2>5. \A a, b \in Wore(last)' : SameGroup(a, b)' => a = b
    BY <1>3, <2>1, <2>2, <2>4 DEF NoTwo
  <2> QED BY <2>5 DEF InOrder
<1>5. ASSUME NEW l \in Lives, HandlePacket(l)
      PROVE  InOrder(last)'
  <2>1. /\ UNCHANGED <<life, last, inventory, equipped>> /\ UNCHANGED <<made, rows, worn>>
        /\ UNCHANGED <<dbQueue, shadow, collided, torn, overlap>>
    BY <1>5, PacketDoes
  <2>2. InOrder(last)
    BY <1>2, <2>1 DEF Sole
  <2> QED BY <2>1, <2>2 DEF InOrder, Wore, Held, SameGroup, Before, WaitingOf
<1>6. ASSUME NEW l \in Lives, SavePlayerReward(l)
      PROVE  InOrder(last)'
  <2>1. /\ UNCHANGED <<life, last, inventory, equipped>> /\ UNCHANGED <<made, rows, worn>>
        /\ UNCHANGED <<roomQueue, shadow, collided, torn>> /\ NoteOverlap
    BY <1>6, RewardDoes
  <2>2. PICK job \in DbJob : dbQueue' = Append(dbQueue, job) /\ job.op = "insert"
    BY <1>6, RewardDoes
  <2>3. InOrder(last)
    BY <1>2, <2>1, NotesBoolean DEF Sole
  <2>4. WaitingOf(dbQueue', "delete", last) = WaitingOf(dbQueue, "delete", last)
    BY <1>1, <2>2, WaitingSame
  <2>5. Wore(last)' = Wore(last)
    BY <2>1, <2>4 DEF Wore, Held
  <2>6. \A a, b : Before(dbQueue, a, b) => Before(dbQueue', a, b)
    BY <1>1, <2>2, BeforeMore
  <2> QED BY <1>3, <2>1, <2>3, <2>5, <2>6, OrderKept
<1>7. CASE HandleEquipItem
  <2>1. /\ roomQueue # <<>>
        /\ UNCHANGED <<life, last, inventory>> /\ UNCHANGED <<made, rows, worn>>
        /\ UNCHANGED <<shadow, collided, torn>> /\ NoteOverlap
    BY <1>7, EquipDoes
  <2>2. InOrder(last) /\ Sole /\ last \in Lives
    BY <1>2, <2>1, NotesBoolean DEF Sole
  <2>3. CASE UNCHANGED <<equipped, dbQueue>>
    BY <2>1, <2>2, <2>3 DEF InOrder, Wore, Held, SameGroup, Before, WaitingOf
  <2>4. ASSUME NEW l \in Lives, NEW id \in Id, NEW off \in SUBSET Id, Equips(l, id, off)
        PROVE  InOrder(last)'
    <3>1. l = last
      BY <2>1, <2>4, EquipsIs, NotesBoolean DEF Sole
    <3>2. Equips(last, id, off)
      BY <2>4, <3>1
    <3> QED BY <2>1, <2>2, <3>2, EquipKeepsOrder
  <2> QED BY <1>7, <2>1, <2>3, <2>4, EquipDoes, RoomHead
<1>8. CASE HandleUseItem \/ HandleDropItem
  <2>1. /\ roomQueue # <<>> /\ roomQueue[1].op \in {"use", "drop"}
        /\ UNCHANGED <<life, last, equipped>> /\ UNCHANGED <<made, rows, worn>>
        /\ UNCHANGED <<shadow, collided, torn>> /\ NoteOverlap
    BY <1>8, EraseDoes
  <2>2. InOrder(last) /\ Sole /\ last \in Lives
    BY <1>2, <2>1, NotesBoolean DEF Sole
  <2>3. CASE UNCHANGED <<inventory, dbQueue>>
    BY <2>1, <2>2, <2>3 DEF InOrder, Wore, Held, SameGroup, Before, WaitingOf
  <2>4. ASSUME NEW l \in Lives, NEW s \in Slot, Erases(l, s)
        PROVE  InOrder(last)'
    <3>1. PICK id \in Held(l) :
            /\ Held(l)' = Held(l) \ {id}
            /\ WaitingOf(dbQueue', "delete", l) = WaitingOf(dbQueue, "delete", l) \cup {id}
            /\ \E job \in JobsOf(dbQueue') : job.life = l
            /\ \A a, b : Before(dbQueue, a, b) => Before(dbQueue', a, b)
      BY <2>4, ErasesIs
    <3>2. l = last
      BY <2>1, <3>1, NotesBoolean DEF Sole
    <3>3. Held(last)' = Held(l)'
      BY <2>1, <3>2 DEF Held
    <3>4. Wore(last)' \subseteq Wore(last)
      BY <2>1, <3>1, <3>2, <3>3 DEF Wore
    <3> QED BY <1>3, <2>1, <2>2, <3>1, <3>4, OrderKept
  <2> QED BY <1>8, <2>1, <2>3, <2>4, EraseDoes, RoomHead
<1>9. CASE AddReward
  <2>1. /\ roomQueue # <<>> /\ roomQueue[1].op = "add"
        /\ UNCHANGED <<life, last, equipped>> /\ UNCHANGED <<made, rows, worn>>
        /\ UNCHANGED <<dbQueue, collided, torn, overlap>>
    BY <1>9, AddDoes
  <2>2. InOrder(last) /\ Sole /\ last \in Lives /\ BooksOf(last)
    BY <1>2, <2>1 DEF Sole
  <2>3. PICK l \in Lives, id \in Id, taken \in SUBSET Held(roomQueue[1].life) :
          /\ l = roomQueue[1].life /\ id = roomQueue[1].id
          /\ Held(l)' = (Held(l) \ taken) \cup {id}
          /\ \A x \in Lives \ {l} : Held(x)' = Held(x)
    BY <1>9, AddDoes
  <2>4. l = last => id \notin equipped[last]
    BY <2>1, <2>2, <2>3, AddWaits DEF BooksOf, Balanced
  <2>5. PICK m \in Lives : m = last
    BY <2>2
  <2>6. equipped[m] \cap Held(m)' \subseteq Held(m)
    BY <2>3, <2>4, <2>5
  <2>7. Held(last)' = Held(m)'
    BY <2>1, <2>5 DEF Held
  <2>8. Wore(last)' \subseteq Wore(last)
    BY <2>1, <2>5, <2>6, <2>7 DEF Wore
  <2> QED BY <1>3, <2>1, <2>2, <2>8, OrderKept
<1>10. CASE InsertReward
  <2>1. /\ dbQueue # <<>> /\ dbQueue[1].op = "insert" /\ dbQueue' = Tail(dbQueue)
        /\ UNCHANGED <<life, last, inventory, equipped>> /\ UNCHANGED <<worn, shadow, torn, overlap>>
    BY <1>10, InsertDoes
  <2>2. ~collided /\ \A id \in DOMAIN made : made'[id] = made[id]
    BY <1>10, InsertDoes
  <2>3. InOrder(last) /\ last \in Lives
    BY <1>2, <2>1, <2>2 DEF Sole
  <2>4. WaitingOf(dbQueue', "delete", last) = WaitingOf(dbQueue, "delete", last)
    BY <1>1, <2>1, WaitingRest
  <2>5. Wore(last)' = Wore(last)
    BY <2>1, <2>4 DEF Wore, Held
  <2>6. \A a, b : Before(dbQueue, a, b) => Before(dbQueue', a, b)
    BY <1>1, <2>1, BeforeLess
  <2>7. Wore(last) \subseteq DOMAIN made
    BY <2>3 DEF Wore, Known, ItemsKnown
  <2>8. \A a, b \in Wore(last) : SameGroup(a, b)' <=> SameGroup(a, b)
    BY <2>2, <2>7 DEF SameGroup
  <2> QED BY <2>3, <2>5, <2>6, <2>8, OrderKept
<1>11. CASE UpdateEquipped
  <2>1. /\ dbQueue # <<>> /\ dbQueue[1].op = "equip" /\ dbQueue' = Tail(dbQueue)
        /\ UNCHANGED <<life, last, inventory, equipped>> /\ UNCHANGED <<made, rows, roomQueue>>
        /\ UNCHANGED <<shadow, collided, torn, overlap>>
    BY <1>11, UpdateDoes
  <2>2. InOrder(last)
    BY <1>2, <2>1 DEF Sole
  <2>3. WaitingOf(dbQueue', "delete", last) = WaitingOf(dbQueue, "delete", last)
    BY <1>1, <2>1, WaitingRest
  <2>4. Wore(last)' = Wore(last)
    BY <2>1, <2>3 DEF Wore, Held
  <2>5. \A a, b : Before(dbQueue, a, b) => Before(dbQueue', a, b)
    BY <1>1, <2>1, BeforeLess
  <2> QED BY <1>3, <2>1, <2>2, <2>4, <2>5, OrderKept
<1>12. CASE DeleteItem
  <2>1. /\ dbQueue # <<>> /\ dbQueue[1].op = "delete" /\ dbQueue' = Tail(dbQueue)
        /\ UNCHANGED <<life, last, inventory, equipped>> /\ UNCHANGED <<made, roomQueue>>
        /\ UNCHANGED <<shadow, collided, torn, overlap>>
    BY <1>12, DeleteDoes
  <2>2. InOrder(last) /\ BooksOf(last) /\ Sole
    BY <1>2, <2>1 DEF Sole
  <2>3. PICK id : id = dbQueue[1].id
    OBVIOUS
  <2>4. dbQueue[1].life = last
    BY <1>1, <2>1, <2>2, JobsLess DEF Own, Sole
  <2>5. WaitingOf(dbQueue, "delete", last) = WaitingOf(dbQueue', "delete", last) \cup {id}
    BY <1>1, <2>1, <2>3, <2>4, WaitingRest
  <2>6. id \notin WaitingOf(dbQueue', "delete", last)
    BY <1>1, <2>1, <2>2, <2>3, HeadNotWaiting DEF Once, Sole
  <2>7. Held(last)' = Held(last) /\ id \notin Held(last)
    <3>1. Held(last)' = Held(last)
      BY <2>1 DEF Held
    <3>2. id \in WaitingOf(dbQueue, "delete", last)
      BY <2>5
    <3>3. id \notin Held(last)
      BY <2>2, <3>2 DEF BooksOf, Balanced
    <3> QED BY <3>1, <3>3
  <2>8. Wore(last)' \subseteq Wore(last) /\ id \notin Wore(last)'
    BY <2>1, <2>5, <2>6, <2>7 DEF Wore
  <2>9. \A a, b \in Wore(last)' : Before(dbQueue, a, b) => Before(dbQueue', a, b)
    BY <1>1, <2>1, <2>3, <2>8, BeforeLess
  <2> QED BY <1>3, <2>1, <2>2, <2>8, <2>9, OrderKept
<1>13. CASE Crash
  BY <1>13, CrashDoes DEF Sole
<1> QED BY <1>4, <1>5, <1>6, <1>7, <1>8, <1>9, <1>10, <1>11, <1>12, <1>13 DEF Next

-----------------------------------------------------------------------------
(* The theorems                                                            *)

LEMMA IInvHolds == Spec => []IInv
<1>1. Init => IInv
  <2> SUFFICES ASSUME Init
               PROVE  IInv
    OBVIOUS
  <2>1. TypeOK /\ Known
    BY TypeInit, KnownInit
  <2>2. Once /\ Own
    BY OnceInNothing, NothingWaits DEF Init, Once, Own
  <2>3. Books /\ SlotsApart /\ Ordered /\ AtRest
    BY DEF Init, Books, SlotsApart, Ordered, AtRest, Sole, NoTwo
  <2> QED BY <2>1, <2>2, <2>3 DEF IInv
<1>2. IInv /\ [Next]_vars => IInv'
  <2> SUFFICES ASSUME IInv, [Next]_vars
               PROVE  IInv'
    OBVIOUS
  <2>1. TypeOK /\ Known /\ Once /\ Own /\ Books /\ SlotsApart /\ Ordered /\ AtRest
    BY DEF IInv
  <2>2. CASE Next
    <3>1. TypeOK' /\ Known'
      BY <2>1, <2>2, TypeStep, KnownStep
    <3>2. Once' /\ Own'
      BY <2>1, <2>2, OnceStep, OwnStep
    <3>3. Books'
      BY <2>1, <2>2, BooksStep DEF Books
    <3>4. SlotsApart'
      BY <2>1, <2>2, SlotsApartStep DEF SlotsApart
    <3>5. Ordered'
      BY <2>1, <2>2, OrderedStep DEF Ordered
    <3>6. AtRest'
      BY <2>1, <2>2, AtRestStep DEF AtRest
    <3> QED BY <3>1, <3>2, <3>3, <3>4, <3>5, <3>6 DEF IInv
  <2>3. CASE UNCHANGED vars
    <3>1. /\ UNCHANGED <<life, last, inventory, equipped>> /\ UNCHANGED <<made, rows, worn>>
          /\ UNCHANGED <<roomQueue, dbQueue>> /\ UNCHANGED <<shadow, collided, torn, overlap>>
      BY <2>3 DEF vars
    <3>2. TypeOK'
      BY <2>1, <3>1 DEF TypeOK
    <3>3. Known'
      BY <2>1, <3>1 DEF Known, ItemsKnown, JobsKnown, RoomForInserts, LastKnown, Count, JobsOf
    <3>4. Once' /\ Own'
      BY <2>1, <3>1 DEF Once, OnceIn, Own, JobsOf
    <3>5. Books'
      BY <2>1, <3>1 DEF Books, BooksOf, Sole, Held, WaitingOf
    <3>6. SlotsApart' /\ AtRest'
      BY <2>1, <3>1 DEF SlotsApart, Sole, AtRest, NoTwo, SameGroup
    <3>7. Ordered'
      BY <2>1, <3>1 DEF Ordered, InOrder, Wore, Before, Sole, Held, WaitingOf, SameGroup
    <3> QED BY <3>2, <3>3, <3>4, <3>5, <3>6, <3>7 DEF IInv
  <2> QED BY <2>2, <2>3
<1> QED BY <1>1, <1>2, PTL DEF Spec

\* Every variable has its type: above all, a job that adds a reward names an item
\* that the INSERT has made, whose slot the inventory has (DBSerializer.cpp:47-86).
THEOREM ItemsTypeCorrect == Spec => []TypeOK
<1>1. IInv => TypeOK
  BY DEF IInv
<1> QED BY <1>1, IInvHolds, PTL

\* The rows and the memory of the last login agree, up to the jobs that wait,
\* whatever the player and the monsters do, as long as no older Player object of
\* the account changes rows (GameSession.cpp:307, DBSerializer.cpp:33-130).
THEOREM MemoryAndRowsAgree == Spec => []Agree
<1>1. IInv => Agree
  <2> SUFFICES ASSUME IInv, last # None, ~overlap
               PROVE  /\ rows \ Waiting(dbQueue, "delete") =
                           Held(last) \cup shadow \cup Waiting(roomQueue, "add")
                      /\ \A id \in Held(last) \ Waiting(dbQueue, "equip") :
                           id \in worn <=> id \in equipped[last]
    BY DEF Agree
  <2>1. BooksOf(last)
    BY DEF IInv, Books, Sole
  <2>2. \A q, op : Waiting(q, op) = WaitingOf(q, op, last)
    BY DEF Waiting, WaitingOf
  <2> QED BY <2>1, <2>2 DEF BooksOf, Balanced
<1> QED BY <1>1, IInvHolds, PTL

\* No player wears two weapons or two armors of one type, and once no EquipItemNoti
\* waits no two rows say so: of two that did, the one was dropped, and its deletion
\* was pushed before the other was put on (Player.cpp:98-138, DBSerializer.cpp:93).
THEOREM OneOfAGroup == Spec => []OneEquipped
<1>1. IInv => OneEquipped
  <2> SUFFICES ASSUME IInv, ~overlap, ~collided, ~torn
               PROVE  /\ Count(dbQueue, "equip") = 0 => NoTwo(worn)
                      /\ last # None => NoTwo(equipped[last] \cap Held(last))
    BY Zenon DEF OneEquipped
  <2>1. TypeOK /\ Known /\ Once /\ Own /\ Books /\ SlotsApart /\ Ordered /\ AtRest
    BY DEF IInv
  <2>2. Count(dbQueue, "equip") = 0 => NoTwo(worn)
    BY <2>1, NoTwoInRows
  <2>3. last # None => NoTwo(equipped[last] \cap Held(last))
    BY <2>1, NoTwoHeld DEF Sole
  <2> QED BY <2>2, <2>3
<1> QED BY <1>1, IInvHolds, PTL

=============================================================================
