-------------------------------- MODULE Lobby --------------------------------
(***************************************************************************)
(* The lobby of the sessions, and the pool of DB connections it shares     *)
(* with DBSerializer.  HandleLogin, HandleCreatePlayer and HandleEnterGame *)
(* run on whichever worker received the packet; those of one session come  *)
(* one by one, those of two sessions at the same time, also when both log  *)
(* in to one account, which nothing forbids.  Each pops a connection,      *)
(* executes statements one after another without a transaction, and pushes *)
(* the connection back.                                                    *)
(*                                                                         *)
(* An action ends where another worker can notice: at the pool, at a       *)
(* statement.  A statement fails for what the tables demand (the UNIQUE    *)
(* name of an account, names of 50 characters at most); a DB that cannot   *)
(* be reached is left out.  A name that does not fit DBBind's buffer is    *)
(* written past it, which ends the process or goes unnoticed: that it may  *)
(* change something else on the stack is left out.  A packet that comes in *)
(* the wrong _server_state is ignored, which is no step.  An account is    *)
(* its name; a player is its player_id, by whose name C_EnterGame finds it.*)
(***************************************************************************)
EXTENDS Naturals, Sequences

CONSTANTS
  Worker,      \* the threads of DoWorkerJob
  Session,     \* the GameSessions
  Account,     \* the account names clients log in with
  Connection,  \* the connections of the pool
  OldAccounts, \* the accounts that earlier runs have left in the tables
  OldPlayers,  \* and the account of each of their players
  Length,      \* the characters of the name of an account
  Nothing      \* no session, account, connection or player

VARIABLES
  free,         \* _connections of DBConnectionPool
  conn,         \* the connection a worker has popped
  pc,           \* where a worker is in a handler or a job of DBSerializer
  serves,       \* the session whose packet it handles
  newPlayer,    \* new_player_id of the HandleCreatePlayer it runs
  serverState,  \* _server_state
  asked,        \* the name of the account that the session logs in with
  length,       \* the characters of the name in its last C_Login or C_CreatePlayer
  account,      \* _account_id
  lobbyPlayers, \* _lobby_players: their player_ids, NoPlayer that of no row
  deleted,      \* whether ClearLobbyPlayer has deleted what they point to
  current,      \* PlayerDbId of _current_player
  accounts,     \* the rows of accounts
  owner,        \* the rows of players: the account of each, by player_id
  stats,        \* the player_ids with a row in stats
  fault         \* what ended the process

pool == <<free, conn>>
lobby == <<serverState, asked, length, account, lobbyPlayers, deleted, current>>
tables == <<accounts, owner, stats>>
lobbyVars == <<free, conn, pc, serves, newPlayer, serverState, asked, length,
          account, lobbyPlayers, deleted, current, accounts, owner, stats, fault>>

NoPlayer == 0
NameLength == 50  \* of DBBind's buffer, its last 0 included, and of the columns
Label == {"idle", "select", "insert", "loggedIn", "player", "stats", "items", "job"}

LobbyTypeOK ==
  /\ free \subseteq Connection
  /\ conn \in [Worker -> Connection \cup {Nothing}]
  /\ pc \in [Worker -> Label]
  /\ serves \in [Worker -> Session \cup {Nothing}]
  /\ newPlayer \in [Worker -> Nat]
  /\ serverState \in [Session -> {"LOGIN", "LOBBY", "GAME"}]
  /\ asked \in [Session -> Account \cup {Nothing}]
  /\ length \in [Session -> Nat]
  /\ account \in [Session -> Account \cup {Nothing}]
  /\ lobbyPlayers \in [Session -> SUBSET Nat]
  /\ deleted \in [Session -> BOOLEAN]
  /\ current \in [Session -> Nat \cup {Nothing}]
  /\ accounts \subseteq Account
  /\ owner \in Seq(Account)
  /\ stats \subseteq Nat
  /\ fault \in {"none", "null", "unique", "name"}

\* The pool is connected, the tables are there.
LobbyInit ==
  /\ free = Connection
  /\ conn = [w \in Worker |-> Nothing]
  /\ pc = [w \in Worker |-> "idle"]
  /\ serves = [w \in Worker |-> Nothing]
  /\ newPlayer = [w \in Worker |-> 0]
  /\ serverState = [s \in Session |-> "LOGIN"]
  /\ asked = [s \in Session |-> Nothing]
  /\ length = [s \in Session |-> 0]
  /\ account = [s \in Session |-> Nothing]
  /\ lobbyPlayers = [s \in Session |-> {}]
  /\ deleted = [s \in Session |-> FALSE]
  /\ current = [s \in Session |-> Nothing]
  /\ accounts = OldAccounts
  /\ owner = OldPlayers
  /\ stats = DOMAIN OldPlayers
  /\ fault = "none"

-----------------------------------------------------------------------------
(* DBConnectionPool                                                        *)

\* Worker w is at l, and the process lives.
At(w, l) == fault = "none" /\ pc[w] = l
Goto(w, l) == pc' = [pc EXCEPT ![w] = l]

\* Pop returns nullptr when there is no connection, and who called it uses it.
Pop(w, l) ==
  IF free = {}
    THEN fault' = "null" /\ UNCHANGED <<pool, pc>>
    ELSE \E c \in free :
           /\ free' = free \ {c}
           /\ conn' = [conn EXCEPT ![w] = c]
           /\ Goto(w, l)
           /\ UNCHANGED fault

Push(w) ==
  /\ free' = free \cup {conn[w]}
  /\ conn' = [conn EXCEPT ![w] = Nothing]
  /\ Goto(w, "idle")

\* A job of DBSerializer, one at a time.
BeginJob(w) ==
  /\ At(w, "idle")
  /\ \A v \in Worker : pc[v] # "job"
  /\ Pop(w, "job")
  /\ UNCHANGED <<serves, newPlayer, lobby, tables>>

EndJob(w) ==
  /\ At(w, "job")
  /\ Push(w)
  /\ UNCHANGED <<serves, newPlayer, lobby, tables, fault>>

-----------------------------------------------------------------------------
(* The packets of the lobby                                                *)

\* A packet of s is handled by w; the one before has been handled.
BeginPacket(w, s, state, l) ==
  /\ At(w, "idle")
  /\ \A v \in Worker : serves[v] # s
  /\ serverState[s] = state
  /\ serves' = [serves EXCEPT ![w] = s]
  /\ Pop(w, l)

\* The handler returns, after the connection was pushed back.
EndPacket(w) ==
  /\ Push(w)
  /\ serves' = [serves EXCEPT ![w] = Nothing]
  /\ UNCHANGED fault

\* HandleLogin: there is nothing yet for ClearLobbyPlayer.
BeginLogin(w, s, a) ==
  /\ BeginPacket(w, s, "LOGIN", "select")
  /\ asked' = [asked EXCEPT ![s] = a]
  /\ length' = [length EXCEPT ![s] = Length[a]]
  /\ UNCHANGED <<newPlayer, serverState, account, lobbyPlayers, deleted, current, tables>>

\* SELECT ... LEFT JOIN players: an account without players is one row too, in
\* which player_id is null and leaves the 0 in the variable.
PlayersOf(a) == {p \in DOMAIN owner : owner[p] = a}
RowsOf(a) == IF PlayersOf(a) = {} THEN {NoPlayer} ELSE PlayersOf(a)

SelectAccount(w) ==
  /\ At(w, "select")
  /\ LET s == serves[w] IN
       IF asked[s] \in accounts
         THEN /\ account' = [account EXCEPT ![s] = asked[s]]
              /\ lobbyPlayers' = [lobbyPlayers EXCEPT ![s] = RowsOf(asked[s])]
              /\ Goto(w, "loggedIn")
         ELSE Goto(w, "insert") /\ UNCHANGED <<account, lobbyPlayers>>
  /\ UNCHANGED <<pool, serves, newPlayer, serverState, asked, length, deleted, current, tables, fault>>

\* INSERT INTO accounts: a name that is there already fails the ASSERT_CRASH.
InsertAccount(w) ==
  /\ At(w, "insert")
  /\ LET a == asked[serves[w]] IN
       IF a \in accounts
         THEN fault' = "unique" /\ UNCHANGED <<accounts, account, pc>>
         ELSE /\ length[serves[w]] <= NameLength
              /\ accounts' = accounts \cup {a}
              /\ account' = [account EXCEPT ![serves[w]] = a]
              /\ Goto(w, "loggedIn")
              /\ UNCHANGED fault
  /\ UNCHANGED <<pool, serves, newPlayer, serverState, asked, length, lobbyPlayers, deleted, current, owner, stats>>

EnterLobby(w) ==
  /\ At(w, "loggedIn")
  /\ serverState' = [serverState EXCEPT ![serves[w]] = "LOBBY"]
  /\ EndPacket(w)
  /\ UNCHANGED <<newPlayer, asked, length, account, lobbyPlayers, deleted, current, tables>>

\* HandleCreatePlayer.
BeginCreate(w, s) ==
  /\ BeginPacket(w, s, "LOBBY", "player")
  /\ \E n \in Nat : length' = [length EXCEPT ![s] = n]
  /\ UNCHANGED <<newPlayer, serverState, asked, account, lobbyPlayers, deleted, current, tables>>

\* INSERT INTO players, and its player_id.
InsertPlayer(w) ==
  /\ At(w, "player") /\ length[serves[w]] <= NameLength
  /\ owner' = Append(owner, account[serves[w]])
  /\ newPlayer' = [newPlayer EXCEPT ![w] = Len(owner')]
  /\ Goto(w, "stats")
  /\ UNCHANGED <<pool, serves, lobby, accounts, stats, fault>>

\* INSERT INTO stats, and the player is added to _lobby_players.
InsertStats(w) ==
  /\ At(w, "stats")
  /\ stats' = stats \cup {newPlayer[w]}
  /\ lobbyPlayers' = [lobbyPlayers EXCEPT ![serves[w]] = @ \cup {newPlayer[w]}]
  /\ EndPacket(w)
  /\ UNCHANGED <<newPlayer, serverState, asked, length, account, deleted, current, accounts, owner>>

\* HandleEnterGame, with the name of a player of the list.
BeginEnterGame(w, s) ==
  /\ BeginPacket(w, s, "LOBBY", "items")
  /\ \E p \in lobbyPlayers[s] : current' = [current EXCEPT ![s] = p]
  /\ UNCHANGED <<newPlayer, serverState, asked, length, account, lobbyPlayers, deleted, tables>>

\* ClearLobbyPlayer deletes what is listed and keeps the list.
EnterGame(w) ==
  /\ At(w, "items")
  /\ serverState' = [serverState EXCEPT ![serves[w]] = "GAME"]
  /\ deleted' = [deleted EXCEPT ![serves[w]] = TRUE]
  /\ EndPacket(w)
  /\ UNCHANGED <<newPlayer, asked, length, account, lobbyPlayers, current, tables>>

\* DBBind::BindParam has written a name and its 0 past char_to_wchar[50], on the stack of
\* the handler: the process may end at any of the handler's points from then on.  It does
\* at the INSERT of a name that is too long for its column, whose ASSERT_CRASH fails.
Overlong(w) ==
  /\ pc[w] \in {"select", "insert", "loggedIn", "player", "stats"}
  /\ length[serves[w]] >= NameLength

LongName(w) ==
  /\ fault = "none" /\ Overlong(w)
  /\ fault' = "name"
  /\ UNCHANGED <<pool, pc, serves, newPlayer, lobby, tables>>

LobbyNext ==
  \E w \in Worker :
    \/ BeginJob(w) \/ EndJob(w)
    \/ \E s \in Session :
         \/ \E a \in Account : BeginLogin(w, s, a)
         \/ BeginCreate(w, s)
         \/ BeginEnterGame(w, s)
    \/ SelectAccount(w) \/ InsertAccount(w) \/ EnterLobby(w)
    \/ InsertPlayer(w) \/ InsertStats(w)
    \/ EnterGame(w)
    \/ LongName(w)

LobbySpec == LobbyInit /\ [][LobbyNext]_lobbyVars

-----------------------------------------------------------------------------
(* Properties                                                              *)

\* A connection is in the pool or with one worker, so that Pop does not run out as
\* long as there are no fewer connections than workers: every path of a handler
\* gives back what it took, and none takes two (DBConnectionPool.cpp:49-67).
Holders == {w \in Worker : conn[w] # Nothing}
PoolSuffices ==
  /\ \A c \in Connection : c \in free \/ \E w \in Holders : conn[w] = c
  /\ \A w \in Holders : conn[w] \notin free
  /\ \A v, w \in Holders : conn[v] = conn[w] => v = w
  /\ fault # "null"

\* With a name of fewer than 50 characters a statement of the lobby fails, and ends the
\* process, only where two log in with one new name at the same time: another session
\* has inserted it since this one looked for it (GameSession.cpp:163-204, 218-228,
\* DBBind.h:58-69, 139, ServerDB.cpp:21).
RivalInserted(w) ==
  pc[w] = "insert" /\ \E s \in Session \ {serves[w]} : account[s] = asked[serves[w]]
FailureIsRace ==
  /\ \A w \in Worker :
       pc[w] = "insert" /\ asked[serves[w]] \in accounts => RivalInserted(w)
  /\ fault \notin {"none", "null"} => \E w \in Worker : RivalInserted(w) \/ Overlong(w)

\* What the list of a session in the lobby points to is alive, and is the rows of
\* its account, or the one entry without a row, if the account had no player when
\* it logged in (GameSession.cpp:133-187, 256-268, 284-304, 351-364).
ListIsOwn ==
  \A s \in Session :
    /\ serverState[s] = "LOBBY" => ~ deleted[s]
    /\ \A p \in lobbyPlayers[s] : p # NoPlayer => p \in PlayersOf(account[s])
    /\ serverState[s] = "GAME" => current[s] \in lobbyPlayers[s]
=============================================================================
