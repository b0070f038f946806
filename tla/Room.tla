-------------------------------- MODULE Room --------------------------------
(***************************************************************************)
(* The game world: a Room with its Map, Zones and actors, the jobs of its  *)
(* queue, and what the sessions do to it from the network threads.         *)
(*                                                                         *)
(* The queue runs one job at a time in the order of the pushes (theorem    *)
(* MutualExclusion and property RunsSerially of JobQueue), so a job is one *)
(* action.  The room a job sees and changes is the record `room`; the      *)
(* functions it calls are operators from a room to a room, composed in the *)
(* order of the calls.  A session's handler runs on a network thread next  *)
(* to the jobs and is cut where it reads or changes what others share.     *)
(*                                                                         *)
(* Data left out: time (a reserved job may fire at any moment), who hits   *)
(* (a hit takes Damage of the victim), the contents of packets, the DB and *)
(* the inventories.  What a path or a search of the map finds is left open.*)
(***************************************************************************)
EXTENDS WorldMap, Naturals, Sequences, FiniteSets

CONSTANTS
  Players,     \* one per session
  Monsters,
  Arrows,      \* the projectiles that may be made; ids are never used twice
  None,
  Droppers,    \* the players whose connection may break
  Reports,     \* whose client answers the S_Die of whom with C_AnimEnd
  Sends,       \* whose client sends which of the Packets
  Dirs,        \* the directions they look in
  States,      \* the states they report, of {"IDLE", "MOVING"}
  MaxHp,       \* of players and monsters
  Damage,      \* what a hit takes from them: attack less defence, or 0
  MaxQueue     \* bound: sessions and timers wait while the queue is this long

Actor == Players \cup Monsters
Object == Actor \cup Arrows
Packets == {"move", "skill", "random"}

ASSUME KindsAssumption ==
  /\ Players \cap Monsters = {} /\ Players \cap Arrows = {}
  /\ Monsters \cap Arrows = {} /\ None \notin Object
ASSUME ReportsAssumption == Reports \subseteq Players \X Actor
ASSUME DroppersAssumption == Droppers \subseteq Players
ASSUME SendsAssumption == Sends \subseteq Players \X Packets
ASSUME DirsAssumption == Dirs \subseteq Dir
ASSUME StatesAssumption == States \subseteq {"IDLE", "MOVING"}
ASSUME MaxHpAssumption == MaxHp \in Nat \ {0} /\ Damage \in [Actor -> Nat]
ASSUME MonstersAssumption == IsFiniteSet(Monsters)
ASSUME MapAssumption == MinX <= MaxX /\ MinY <= MaxY

VARIABLES
  room,      \* the room and its actors: see RoomType
  handler,   \* where the recv handler of a session is
  link,      \* a session: "open", "dropped" (Disconnect was called), "left"
             \* (OnDisconnectCompleted has looked for the player), "closed"
  current,   \* whether _current_player of a session is set
  joined,    \* whether _room of a session is set
  late,      \* history: the players a job was pushed for after "left"
  raced      \* history: whose OnDeadAnim met another one, or a job of its object

session == <<handler, link, current, joined, late>>
vars == <<room, handler, link, current, joined, late, raced>>

Op == {"enter", "leave", "move", "skill", "random", "tick", "none"}

\* A job of the queue; held: it is the object's _job_reserved / JobReserved.
Job == [op : Op, obj : Object, held : BOOLEAN]
NewJob(op, o) == [op |-> op, obj |-> o, held |-> FALSE]

RoomType ==
  [present : SUBSET Object,             \* _players, _monsters, _projectiles
   inRoom : SUBSET Object,              \* GetRoom() is not null
   cell : [Object -> Cell],             \* GetCellPos()
   dir : [Players \cup Arrows -> Dir],   \* movedir; a monster's is only shown
   idle : SUBSET Players,               \* the players in EntityState::IDLE
   hp : [Actor -> 0 .. MaxHp],
   fsm : [Monsters -> {"IDLE", "MOVING", "SKILL"}],
   target : [Monsters -> Players \cup {None}],
   ready : SUBSET Monsters,             \* _skill_tick is 0
   owner : [Arrows -> Players \cup {None}],
   used : SUBSET Arrows,                \* the arrows made so far
   grid : [Cell -> Object \cup {None}], \* Map::_objects
   zone : [Zone -> SUBSET Object],      \* the members of each Zone
   prev : [Players -> SUBSET Object],   \* ViewCube::_prev_objects
   known : [Players -> SUBSET Object],  \* what the client has been told of
   queue : Seq(Job),
   held : SUBSET Object,                \* whose reserved job the timer has
   stray : [Object -> Nat],             \* their other jobs the timer has
   deaths : SUBSET (Players \X Actor),  \* S_Die sent, C_AnimEnd not yet
   hits : [Arrows -> Nat],              \* history: OnDamaged calls by it
   gone : SUBSET Object,                \* history: who has left at some time
   fault : BOOLEAN]                     \* a null or freed object was used

\* Where a handler is; in an answer to C_AnimEnd it has found the object.
Anim == {"animLeave", "animEnter"}
Place == {"idle", "entering", "joined"} \cup Anim \cup Packets

TypeOK ==
  /\ room \in RoomType
  /\ handler \in [Players -> [at : Place \ Anim, obj : {None}] \cup [at : Anim, obj : Actor]]
  /\ link \in [Players -> {"open", "dropped", "left", "closed"}]
  /\ current \in [Players -> BOOLEAN] /\ joined \in [Players -> BOOLEAN]
  /\ late \subseteq Players /\ raced \subseteq Actor

Idle == [at |-> "idle", obj |-> None]

\* Room::Init pushes an Enter for every monster; nobody has logged in yet.
Init ==
  /\ \E order \in [1 .. Cardinality(Monsters) -> Monsters] :
     /\ \A i, j \in DOMAIN order : order[i] = order[j] => i = j
     /\ room =
       [present |-> {}, inRoom |-> {},
        cell |-> [o \in Object |-> <<MinX, MinY>>],
        dir |-> [o \in Players \cup Arrows |-> "DOWN"],
        idle |-> Players, hp |-> [o \in Actor |-> MaxHp],
        fsm |-> [m \in Monsters |-> "IDLE"],
        target |-> [m \in Monsters |-> None], ready |-> Monsters,
        owner |-> [a \in Arrows |-> None], used |-> {},
        grid |-> [c \in Cell |-> None], zone |-> [z \in Zone |-> {}],
        prev |-> [p \in Players |-> {}], known |-> [p \in Players |-> {}],
        queue |-> [i \in DOMAIN order |-> NewJob("enter", order[i])],
        held |-> {}, stray |-> [o \in Object |-> 0],
        deaths |-> {}, hits |-> [a \in Arrows |-> 0], gone |-> {},
        fault |-> FALSE]
  /\ handler = [p \in Players |-> Idle]
  /\ link = [p \in Players |-> "open"]
  /\ current = [p \in Players |-> FALSE]
  /\ joined = [p \in Players |-> FALSE]
  /\ late = {} /\ raced = {}
-----------------------------------------------------------------------------
(* Map and Zones.                                                          *)

CanGo(r, c) == c \in Cell /\ c \notin Walls /\ r.grid[c] = None

\* Map::SetCurrentZone
SetCurrentZone(r, o, dest) ==
  LET before == ZoneOf(r.cell[o])  after == ZoneOf(dest)
  IN  IF before = after THEN r
      ELSE [r EXCEPT !.zone[before] = @ \ {o}, !.zone[after] = @ \cup {o}]

\* Map::ApplyMove returns whether the object may move, and moves it if so.
MayMove(r, o, dest) == o \in r.inRoom /\ CanGo(r, dest)

ApplyMove(r, o, dest) ==
  IF ~MayMove(r, o, dest) THEN r
  ELSE LET lifted == IF r.grid[r.cell[o]] = o
                     THEN [r EXCEPT !.grid[r.cell[o]] = None] ELSE r
           put == [lifted EXCEPT !.grid[dest] = o]
       IN  [SetCurrentZone(put, o, dest) EXCEPT !.cell[o] = dest]

\* Mutant: the Zone is not left.
ApplyLeaveKeepsZone(r, o) ==
  IF o \in r.inRoom /\ r.grid[r.cell[o]] = o
  THEN [r EXCEPT !.grid[r.cell[o]] = None] ELSE r

\* Map::ApplyLeave; Zone::Remove has no case for a monster.
ApplyLeave(r, o) ==
  IF o \notin r.inRoom THEN r
  ELSE LET c == r.cell[o]
           out == IF o \in Monsters THEN r
                  ELSE [r EXCEPT !.zone[ZoneOf(c)] = @ \ {o}]
       IN  IF r.grid[c] = o THEN [out EXCEPT !.grid[c] = None] ELSE out

\* Room::GetRandomPos tries cells off the border until one is free.
RandomCells(r) ==
  {c \in (MinX + 1 .. MaxX - 1) \X (MinY + 1 .. MaxY - 1) : CanGo(r, c)}

Members(r, pos) == UNION {r.zone[z] : z \in AdjacentZones(pos)}

\* Whom Room::Broadcast reaches, and what S_Spawn and S_Despawn tell them.
Listeners(r, pos) ==
  {p \in Players \cap Members(r, pos) : Near(pos, r.cell[p])}
Spawn(r, pos, o) ==
  [r EXCEPT !.known = [p \in Players |->
     IF p \in Listeners(r, pos) THEN @[p] \cup {o} ELSE @[p]]]
Despawn(r, pos, o) ==
  [r EXCEPT !.known = [p \in Players |->
     IF p \in Listeners(r, pos) THEN @[p] \ {o} ELSE @[p]]]
-----------------------------------------------------------------------------
(* Reserved jobs.                                                          *)

\* The queue when no handle names a job of o any more; and with the job that the
\* handle of o names emptied.
Unnamed(q, o) ==
  [i \in DOMAIN q |-> IF q[i].obj = o THEN [q[i] EXCEPT !.held = FALSE] ELSE q[i]]
Emptied(q, o) ==
  [i \in DOMAIN q |->
     IF q[i].obj = o /\ q[i].held THEN NewJob("none", o) ELSE q[i]]

\* The object's handle no longer names the job it reserved last.
LoseHandle(r, o) ==
  [r EXCEPT !.held = @ \ {o},
            !.stray[o] = IF o \in r.held THEN @ + 1 ELSE @,
            !.queue = Unnamed(@, o)]

\* PushJobTimerAsync, its job kept in _job_reserved or JobReserved.
Reserve(r, o) == [LoseHandle(r, o) EXCEPT !.held = @ \cup {o}]

\* Job::Cancel empties the job, wherever it is; one that the timer has is left out
\* from then on, as it does nothing.
Cancel(r, o) == [r EXCEPT !.held = @ \ {o}, !.queue = Emptied(@, o)]

PushJob(r, j) == [r EXCEPT !.queue = Append(@, j)]
-----------------------------------------------------------------------------
(* ViewCube.                                                               *)

\* ViewCube::GetObjects
Visible(r, p) ==
  {o \in Members(r, r.cell[p]) : Near(r.cell[o], r.cell[p])}

\* Mutant: _prev_objects is added to but never swapped out.
ViewUpdateAccumulates(r, p) ==
  LET objects == Visible(r, p)
  IN  Reserve([r EXCEPT
        !.known[p] = (@ \cup (objects \ r.prev[p])) \ (r.prev[p] \ objects),
        !.prev[p] = @ \cup objects], p)

\* ViewCube::Update: spawn what was added, despawn what vanished, again later.
ViewUpdate(r, p) ==
  LET objects == Visible(r, p)
  IN  Reserve([r EXCEPT
        !.known[p] = (@ \cup (objects \ r.prev[p])) \ (r.prev[p] \ objects),
        !.prev[p] = objects], p)
-----------------------------------------------------------------------------
(* GameObject and Monster.                                                 *)

\* GameObject::OnDead broadcasts S_Die; Monster::OnDead cancels its update.
OnDead(r, o) ==
  LET stopped == IF o \in Monsters THEN Cancel(r, o) ELSE r
  IN  IF o \notin Actor THEN r
      ELSE [stopped EXCEPT !.deaths =
              @ \cup (Reports \cap (Listeners(r, r.cell[o]) \X {o}))]

\* GameObject::OnDamaged, again and again at hp 0 too.  An arrow has no hp.
OnDamaged(r, o) ==
  IF o \notin r.inRoom \/ o \notin Actor THEN r
  ELSE LET hurt == [r EXCEPT !.hp[o] = IF @ <= Damage[o] THEN 0 ELSE @ - Damage[o]]
       IN  IF hurt.hp[o] = 0 THEN OnDead(hurt, o) ELSE hurt

StopTargeting(r, m) == [r EXCEPT !.fsm[m] = "IDLE", !.target[m] = None]

\* Monster::UpdateIdle: too early, nobody found, or somebody who is.
UpdateIdle(r, m) ==
  {r} \cup {[r EXCEPT !.target[m] = None]}
      \cup {[r EXCEPT !.target[m] = p, !.fsm[m] = "MOVING"] :
              p \in Players \cap Members(r, r.cell[m])}

Connected(p) == p # None /\ link[p] = "open"
InReach(r, m) == Distance(r.cell[r.target[m]], r.cell[m]) <= 1

\* Monster::UpdateMoving: too early, given up, at the target or a step on.
UpdateMoving(r, m) ==
  IF ~Connected(r.target[m]) THEN {StopTargeting(r, m)}
  ELSE {r} \cup
       IF r.cell[r.target[m]] = r.cell[m] THEN {StopTargeting(r, m)}
       ELSE IF InReach(r, m)
       THEN {[r EXCEPT !.ready = @ \cup {m}, !.fsm[m] = "SKILL"]}
       ELSE {StopTargeting(r, m)} \cup
            {ApplyMove(r, m, FrontCell(r.cell[m], d)) :
               d \in {e \in Dir : CanGo(r, FrontCell(r.cell[m], e))}}

\* Monster::UpdateSkill: a blow when ready, or the cool-down goes on or ends.
UpdateSkill(r, m) ==
  IF ~Connected(r.target[m]) THEN {StopTargeting(r, m)}
  ELSE IF m \notin r.ready THEN {r, [r EXCEPT !.ready = @ \cup {m}]}
  ELSE IF ~InReach(r, m) THEN {StopTargeting(r, m)}
  ELSE {[OnDamaged(r, r.target[m]) EXCEPT !.ready = @ \ {m}]}

\* Mutant: a monster that is too early or has nobody in view reserves nothing.
MonsterUpdateReturns(r, m) ==
  IF m \notin r.inRoom THEN {r}
  ELSE {IF s = r THEN r ELSE Reserve(s, m) :
          s \in CASE r.fsm[m] = "IDLE"   -> UpdateIdle(r, m)
                  [] r.fsm[m] = "MOVING" -> UpdateMoving(r, m)
                  [] r.fsm[m] = "SKILL"  -> UpdateSkill(r, m)}

\* Monster::Update; EntityState::DEAD is never set.
MonsterUpdate(r, m) ==
  IF m \notin r.inRoom THEN {r}
  ELSE {Reserve(s, m) :
          s \in CASE r.fsm[m] = "IDLE"   -> UpdateIdle(r, m)
                  [] r.fsm[m] = "MOVING" -> UpdateMoving(r, m)
                  [] r.fsm[m] = "SKILL"  -> UpdateSkill(r, m)}

\* Mutant: an arrow does not look whether it still is in a room.
ArrowUpdateUnchecked(r, a) ==
  LET dest == FrontCell(r.cell[a], r.dir[a])
      armed == [r EXCEPT !.stray[a] = @ + 1]
  IN  IF MayMove(r, a, dest) THEN ApplyMove(armed, a, dest)
      ELSE PushJob(armed, NewJob("leave", a))

\* Arrow::Update reserves its next update first, then flies on or hits.
ArrowUpdate(r, a) ==
  LET dest == FrontCell(r.cell[a], r.dir[a])
      armed == [r EXCEPT !.stray[a] = @ + 1]
      target == IF dest \in Cell THEN r.grid[dest] ELSE None
      hit == IF target = None THEN armed
             ELSE [OnDamaged(armed, target) EXCEPT !.hits[a] = @ + 1]
  IN  IF r.owner[a] = None \/ a \notin r.inRoom THEN r
      ELSE IF MayMove(r, a, dest) THEN ApplyMove(armed, a, dest)
      ELSE PushJob(hit, NewJob("leave", a))
-----------------------------------------------------------------------------
(* Room::Enter and Room::Leave.                                            *)

EnterPlayer(r, p, pos) ==
  LET placed == ApplyMove([r EXCEPT !.cell[p] = pos, !.inRoom = @ \cup {p},
                                    !.present = @ \cup {p}], p, pos)
      zoned == [placed EXCEPT !.zone[ZoneOf(pos)] = @ \cup {p}]
      cubed == [LoseHandle(zoned, p) EXCEPT !.prev[p] = {}]
  IN  Spawn(ViewUpdate(cubed, p), pos, p)

EnterMonster(r, m, pos) ==
  LET zoned == [r EXCEPT !.cell[m] = pos, !.inRoom = @ \cup {m},
                         !.zone[ZoneOf(pos)] = @ \cup {m}]
  IN  {Spawn([s EXCEPT !.present = @ \cup {m}], pos, m) :
         s \in MonsterUpdate(ApplyMove(zoned, m, pos), m)}

EnterArrow(r, a) ==
  LET zoned == [r EXCEPT !.inRoom = @ \cup {a},
                         !.zone[ZoneOf(r.cell[a])] = @ \cup {a}]
      flown == ArrowUpdate(zoned, a)
  IN  Spawn([flown EXCEPT !.present = @ \cup {a}], r.cell[a], a)

\* Players and monsters enter at a random cell; with none free it never ends.
Enter(r, o) ==
  CASE o \in Players  -> {EnterPlayer(r, o, c) : c \in RandomCells(r)}
    [] o \in Monsters -> UNION {EnterMonster(r, o, c) : c \in RandomCells(r)}
    [] o \in Arrows   -> {EnterArrow(r, o)}

LeavePlayer(r, p) ==
  LET out == Cancel(ApplyLeave([r EXCEPT !.present = @ \ {p}], p), p)
  IN  [out EXCEPT !.prev[p] = {}, !.known[p] = {}]

LeaveMonster(r, m) ==
  [ApplyLeave(r, m) EXCEPT !.present = @ \ {m}, !.inRoom = @ \ {m}]

\* Mutant: the arrow keeps its room and its owner.
LeaveArrowLoaded(r, a) ==
  [ApplyLeave(r, a) EXCEPT !.present = @ \ {a}]

LeaveArrow(r, a) ==
  [ApplyLeave(r, a) EXCEPT !.present = @ \ {a}, !.inRoom = @ \ {a},
                           !.owner[a] = None]

\* The lookup makes an entry, so the test for an absent monster or arrow never
\* returns and the null object is used.  For an absent player it returns; the null
\* entry stays until he enters again and is left out: of the code that is called
\* only C_AnimEnd looks a player up there, and BeginAnimEnd asks for one present.
Leave(r, o) ==
  IF o \notin r.present
  THEN IF o \in Players THEN r ELSE [r EXCEPT !.fault = TRUE]
  ELSE LET out == CASE o \in Players  -> LeavePlayer(r, o)
                    [] o \in Monsters -> LeaveMonster(r, o)
                    [] o \in Arrows   -> LeaveArrow(r, o)
       IN  Despawn([out EXCEPT !.gone = @ \cup {o}], r.cell[o], o)

\* GameObject::OnDeadAnim after its Leave: back to life, IDLE, and in again.
Revive(r, o, full) ==
  Enter([r EXCEPT !.hp[o] = IF full THEN MaxHp ELSE @,
                  !.dir = [x \in Players \cup Arrows |->
                             IF x = o THEN "DOWN" ELSE @[x]],
                  !.idle = @ \cup ({o} \cap Players),
                  !.fsm = [m \in Monsters |->
                             IF m = o THEN "IDLE" ELSE @[m]]], o)
-----------------------------------------------------------------------------
(* The jobs of the room.                                                   *)

\* The next job is of this kind, on this object; popped is the room without it.
Runs(op, o) ==
  ~room.fault /\ room.queue # <<>> /\ room.queue[1].op = op
              /\ room.queue[1].obj = o
popped == [room EXCEPT !.queue = Tail(@)]

EnterJob(o) ==
  Runs("enter", o) /\ room' \in Enter(popped, o) /\ UNCHANGED session

LeaveJob(o) ==
  Runs("leave", o) /\ room' = Leave(popped, o) /\ UNCHANGED session

\* Room::HandleMovePacket; the client names the cell, the direction and state.
HandleMove(p) ==
  /\ Runs("move", p)
  /\ \E c \in Cell, d \in Dirs, state \in States :
       room' = IF c # room.cell[p] /\ ~CanGo(room, c) THEN popped
               ELSE ApplyMove([popped EXCEPT !.dir[p] = d,
                      !.idle = IF state = "IDLE" THEN @ \cup {p} ELSE @ \ {p}], p, c)
  /\ UNCHANGED session

\* Room::HandleSkillPacket: a punch hits nobody, a bow makes an arrow.
HandleSkill(p) ==
  /\ Runs("skill", p)
  /\ LET busy == [popped EXCEPT !.idle = @ \ {p}]
     IN  IF p \notin room.idle THEN room' = popped
         ELSE \/ room' = busy
              \/ \E a \in Arrows \ room.used :
                   room' = PushJob([busy EXCEPT !.used = @ \cup {a},
                             !.owner[a] = p, !.dir[a] = busy.dir[p],
                             !.cell[a] = busy.cell[p]], NewJob("enter", a))
  /\ UNCHANGED session

\* Room::HandleGoRandomPacket
HandleGoRandom(p) ==
  /\ Runs("random", p)
  /\ room' \in IF p \in room.inRoom THEN Revive(Leave(popped, p), p, FALSE)
               ELSE {popped}
  /\ UNCHANGED session

\* A view job holds a bare pointer to its cube: one that is not the cube's
\* JobReserved belongs to a cube that is gone.
ViewJob(p) ==
  /\ Runs("tick", p)
  /\ room' = IF room.queue[1].held THEN ViewUpdate(popped, p)
             ELSE [popped EXCEPT !.fault = TRUE]
  /\ UNCHANGED session

MonsterJob(m) ==
  Runs("tick", m) /\ room' \in MonsterUpdate(popped, m) /\ UNCHANGED session

ArrowJob(a) ==
  Runs("tick", a) /\ room' = ArrowUpdate(popped, a) /\ UNCHANGED session

\* A job that was cancelled.
EmptyJob(o) == Runs("none", o) /\ room' = popped /\ UNCHANGED session

\* The objects that are in OnDeadAnim on a network thread (no lock, no job:
\* ClientPacketHandler.cpp:118-123); and the one that a job of the room moves, makes
\* jump or takes out meanwhile.
Reviving == {handler[p].obj : p \in {x \in Players : handler[x].at \in Anim}}
Overtaken == {o \in Reviving : \E op \in {"leave", "move", "random"} : Runs(op, o)}

RunJob ==
  /\ \/ \E o \in Object : EnterJob(o) \/ LeaveJob(o) \/ EmptyJob(o)
     \/ \E p \in Players :
          HandleMove(p) \/ HandleSkill(p) \/ HandleGoRandom(p) \/ ViewJob(p)
     \/ \E m \in Monsters : MonsterJob(m)
     \/ \E a \in Arrows : ArrowJob(a)
  /\ raced' = raced \cup Overtaken

\* JobTimer::DistributeJobs pushes a reserved job when it is due.
FireHeld(o) ==
  /\ ~room.fault /\ o \in room.held /\ Len(room.queue) < MaxQueue
  /\ room' = [PushJob(room, [NewJob("tick", o) EXCEPT !.held = TRUE])
                EXCEPT !.held = @ \ {o}]
  /\ UNCHANGED <<session, raced>>

FireStray(o) ==
  /\ ~room.fault /\ room.stray[o] > 0 /\ Len(room.queue) < MaxQueue
  /\ room' = [PushJob(room, NewJob("tick", o)) EXCEPT !.stray[o] = @ - 1]
  /\ UNCHANGED <<session, raced>>
-----------------------------------------------------------------------------
(* The sessions, on the network threads.                                   *)

At(p, place) == ~room.fault /\ handler[p].at = place
GoTo(p, place) == handler' = [handler EXCEPT ![p] = [at |-> place, obj |-> None]]

\* The handler pushes a job for its player.
Push(p, op) ==
  /\ room' = PushJob(room, NewJob(op, p))
  /\ late' = IF link[p] \in {"left", "closed"} THEN late \cup {p} ELSE late

\* GameSession::HandleEnterGame makes _current_player and asks the DB for its
\* items; sets _room; and pushes Enter of what _current_player is then.
BeginEnterGame(p) ==
  /\ At(p, "idle") /\ link[p] = "open" /\ ~joined[p]
  /\ current' = [current EXCEPT ![p] = TRUE]
  /\ GoTo(p, "entering")
  /\ UNCHANGED <<room, link, joined, late>>

FindRoom(p) ==
  /\ At(p, "entering")
  /\ joined' = [joined EXCEPT ![p] = TRUE]
  /\ GoTo(p, "joined")
  /\ UNCHANGED <<room, link, current, late>>

PushEnter(p) ==
  /\ At(p, "joined") /\ Len(room.queue) < MaxQueue
  /\ IF current[p] THEN Push(p, "enter") ELSE UNCHANGED <<room, late>>
  /\ GoTo(p, "idle")
  /\ UNCHANGED <<link, current, joined>>

\* Handle_C_Move, Handle_C_Skill, Handle_C_GoRandom take the player and its
\* room; and push the job.
BeginPacket(p, packet) ==
  /\ At(p, "idle") /\ <<p, packet>> \in Sends
  /\ joined[p] /\ current[p] /\ p \in room.inRoom
  /\ GoTo(p, packet)
  /\ UNCHANGED <<room, link, current, joined, late>>

PushPacket(p) ==
  /\ handler[p].at \in Packets /\ ~room.fault /\ Len(room.queue) < MaxQueue
  /\ Push(p, handler[p].at)
  /\ GoTo(p, "idle")
  /\ UNCHANGED <<link, current, joined>>

\* Handle_C_AnimEnd finds the object, whoever's it is, and calls OnDeadAnim on this
\* thread: it sees that the object is in the room, makes it leave, and makes it enter.
BeginAnimEnd(p, o) ==
  /\ At(p, "idle") /\ current[p] /\ <<p, o>> \in room.deaths
  /\ o \in room.present \cap room.inRoom
  /\ room' = [room EXCEPT !.deaths = @ \ {<<p, o>>}]
  /\ handler' = [handler EXCEPT ![p] = [at |-> "animLeave", obj |-> o]]
  /\ raced' = raced \cup ({o} \cap Reviving)
  /\ UNCHANGED <<link, current, joined, late>>

AnimLeave(p) ==
  /\ At(p, "animLeave")
  /\ room' = Leave(room, handler[p].obj)
  /\ handler' = [handler EXCEPT ![p].at = "animEnter"]
  /\ UNCHANGED <<link, current, joined, late>>

AnimEnter(p) ==
  /\ At(p, "animEnter")
  /\ room' \in Revive(room, handler[p].obj, TRUE)
  /\ GoTo(p, "idle")
  /\ UNCHANGED <<link, current, joined, late>>

\* Disconnect was called: the session no longer is connected.
Drop(p) ==
  /\ link[p] = "open" /\ p \in Droppers
  /\ link' = [link EXCEPT ![p] = "dropped"]
  /\ UNCHANGED <<room, handler, current, joined, late>>

\* Mutant: the player is forgotten first.
PushLeaveOfNobody(p) ==
  /\ link[p] = "dropped"
  /\ link' = [link EXCEPT ![p] = "left"]
  /\ current' = [current EXCEPT ![p] = FALSE]
  /\ UNCHANGED <<room, handler, joined, late>>

\* GameSession::OnDisconnectCompleted, maybe while a handler of the session
\* runs: Leave if there is a player with a room; then forget the player.
PushLeave(p) ==
  /\ ~room.fault /\ link[p] = "dropped" /\ Len(room.queue) < MaxQueue
  /\ room' = IF current[p] /\ joined[p] THEN PushJob(room, NewJob("leave", p))
             ELSE room
  /\ link' = [link EXCEPT ![p] = "left"]
  /\ UNCHANGED <<handler, current, joined, late>>

ForgetPlayer(p) ==
  /\ link[p] = "left"
  /\ link' = [link EXCEPT ![p] = "closed"]
  /\ current' = [current EXCEPT ![p] = FALSE]
  /\ UNCHANGED <<room, handler, joined, late>>

SessionStep(p) ==
  \/ \E o \in Actor : BeginAnimEnd(p, o)
  \/ /\ \/ BeginEnterGame(p) \/ FindRoom(p) \/ PushEnter(p)
        \/ (\E packet \in Packets : BeginPacket(p, packet)) \/ PushPacket(p)
        \/ AnimLeave(p) \/ AnimEnter(p)
        \/ Drop(p) \/ PushLeave(p) \/ ForgetPlayer(p)
     /\ UNCHANGED raced

Next ==
  \/ RunJob
  \/ \E o \in Object : FireHeld(o) \/ FireStray(o)
  \/ \E p \in Players : SessionStep(p)

Spec == Init /\ [][Next]_vars

-----------------------------------------------------------------------------
(* Properties.                                                             *)

\* The three records of where everybody is agree, whatever moves, jumps, deaths,
\* enters and leaves meet: what stands on a cell has that position, also one who has
\* left; who is in the room stands on his cell; a player is in the Zone of his cell and
\* in no other (Map.cpp:58-103, 126-163, Room.cpp:90-91, GameObject.cpp:170-184).
\* Excepted are players with a job pushed after their Leave, and whose OnDeadAnim on a
\* network thread met another OnDeadAnim of the same object or a job that moves it:
\* the room has no lock, and OnDeadAnim is none of its jobs (README.md:100-101).
OnePlace ==
  /\ \A c \in Cell :
       room.grid[c] \notin late \cup raced \cup {None} => room.cell[room.grid[c]] = c
  /\ \A o \in (room.present \cap Actor) \ (late \cup raced) :
       /\ room.grid[room.cell[o]] = o
       /\ o \in Players =>
            {z \in Zone : o \in room.zone[z]} = {ZoneOf(room.cell[o])}

\* Only where OnDeadAnim of an object met another one of it, or a job that moves it, does
\* a job run on a ViewCube that was released, or a Leave on an object that is not there:
\* no broken connection, jump, arrow or single answer to a death leads there
\* (ViewCube.cpp:64, Room.cpp:150-151, 159-176, ClientPacketHandler.cpp:118-123).
NoFault == room.fault => raced # {}

\* What a client was last shown it still knows, of all that never left the
\* room: no broadcast undoes an update of the view (ViewCube.cpp:16-65).
ShownIsKnown ==
  \A p \in room.present \cap Players : room.prev[p] \ room.gone \subseteq room.known[p]

\* When a session is closed and its jobs have run, its player is nowhere in the
\* room and no update of his view is reserved, so that none can meet the ViewCube
\* that was released, also when he died and somebody's client brings him back
\* meanwhile; unless a handler pushed a job after OnDisconnectCompleted had pushed
\* Leave, or a job or a second answer overtook his OnDeadAnim (GameSession.cpp:31-50,
\* ViewCube.cpp:64, ClientPacketHandler.cpp:118-123).
Waiting(o) == \E i \in DOMAIN room.queue : room.queue[i].obj = o
ClosedIsGone ==
  /\ NoFault
  /\ \A p \in Players \ (late \cup raced) :
       (link[p] = "closed" /\ handler[p].at = "idle" /\ ~Waiting(p)) =>
         /\ p \notin room.present \cup room.held /\ room.stray[p] = 0
         /\ \A c \in Cell : room.grid[c] # p
         /\ \A z \in Zone : p \notin room.zone[z]

\* An arrow hurts once, although it reserves its next update before it hits and
\* only queues its Leave (Arrow.cpp:7-31).
ArrowHitsOnce == \A a \in Arrows : room.hits[a] <= 1

\* Nobody is forgotten: a player in the room has an update of his view to
\* come, a monster that lives and an arrow in flight an update (an arrow maybe
\* its Enter or Leave), whatever deaths, C_AnimEnds and blows meet
\* (ViewCube.cpp:64, Monster.cpp:37-79, Arrow.cpp:7-31, GameObject.cpp:170-184).
Ticks(o) ==
  \/ o \in room.held \/ room.stray[o] > 0
  \/ \E i \in DOMAIN room.queue : room.queue[i].op = "tick" /\ room.queue[i].obj = o
NobodyForgotten ==
  /\ \A o \in room.present \cap Actor : o \in Players \/ room.hp[o] > 0 => Ticks(o)
  /\ \A a \in Arrows : room.owner[a] # None => Ticks(a) \/ Waiting(a)
=============================================================================
