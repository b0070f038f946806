# A TLA+ model of the MMO server

This directory models the game server of this repository (`src/ServerCore`, the
engine; `src/GameServer`, the game) in TLA+. TLC checks the modules on small
instances; TLAPS proves the most important facts for every value of the
constants. Line numbers are those of the files under `src/`.

## 1. The system

The server is one Windows process. Twelve worker threads run `DoWorkerJob`
(`GameServer.cpp:59-68`): dispatch an IO completion (at most 10 ms), distribute
the reserved jobs that are due, run queues from the global queue until 96 ms are
over. One more thread runs `FlushSendLoop` every millisecond. Almost all of the
game runs in *jobs* of *job queues*; each `Room`, `DBSerializer`,
`PacketManager` and `Heartbeat` is one.

| part | state it keeps | operations | what makes it correct |
|---|---|---|---|
| Job queues (`JobQueue`, `LockQueue`, `GlobalQueue`) | `_job_count`, `_jobs`, the global queue, `tls_current_job_queue` | `Push`, `Execute`, hand-over at the end of the tick | one executor per queue; each job once, in order; no job stranded |
| Job timer | heap of reserved jobs, `_processing` | `ReserveJob`, `DistributeJobs` | each reserved job distributed once, not early, not out of order, in the end |
| Lock and guards | lock word (writer, readers), `_write_count` | read and write lock, re-entrant, 10 s time-out | policy of README.md:22-31; the count touched by its owner only; no one forgotten |
| Deadlock detector | wait and owner maps, counts | `BeforeLock`, `AfterLock`, `BeforeUnlock` | every deadlock thrown, nothing else thrown |
| Session | `_connected`, `_send_registered`, `_send_queue`, three events | `Send`, `Disconnect`, completions | one send at a time, nothing lost or doubled, events owned, unregistered once |
| Receive buffer and parser | cursors, bytes | `OnWrite`, `OnRead`, `Clear`, `OnRecvCompleted` | packets once, in order, delayed by a backlog only; always room for the next receive |
| Service, registry, listener | two sets of sessions, accept events | register, unregister, accept | a session is in both or in none; every accept event is used again |
| Room, map, Zones | actors, grid, Zones | `Enter`, `Leave`, move, skill, jump, broadcast | grid, Zones and positions agree; broadcasts reach all in range |
| Actors: players, monsters, arrows, `ViewCube` | hp, state, target, reserved update, what was visible | `Update`, `OnDamaged`, `OnDead`, `OnDeadAnim` | updates go on while they live and stop when they leave; clients know what is visible |
| Game session and handlers | `_current_player`, `_room` | enter game, packets, disconnect | a closed session leaves nothing in the room |
| Batched sending | `_send_packets`, `_pending_bytes`, `_can_flush` | `ReserveSend`, `FlushSend` by three flushers | every packet flushed, none twice, in order unless two batches are on their way |
| Heartbeat | `HeartbeatTick` | `Ping`, `HandlePong` | a silent session is dropped in bounded time, an answering one stays |
| Lobby and DB connection pool | `_server_state`, `_account_id`, `_lobby_players`, `_connections` | login, create a player, enter the game; `Pop`, `Push` | a connection is always there and given back; a session deals with its own account |
| Items and `DBSerializer` | inventories, DB rows | reward, equip, use, drop, login | memory and DB agree in the end; one item per slot |
| Memory, send buffers | slabs, chunks, free lists | acquire, release | nothing reused while in use; a slab that is empty comes back |

How they meet: a completion is dispatched to `Session` on some worker, whose
parser calls a packet handler, which pushes a job to the room or works on the
spot (login, entering, `C_AnimEnd`). The job queue runs the room's jobs one at a
time on whichever worker has the right to it. Jobs reserve later jobs with the
timer, send packets through the session, and push DB work to `DBSerializer`,
whose jobs push results back to the room. `Disconnect` may come from any worker;
its completion unregisters the session and pushes `Leave`.

What is hard here: several workers at one session and one queue; rights that are
passed on through counters and flags instead of locks; network threads that
touch players while the room's jobs run; updates that rearm themselves; clients
told of the world by two mechanisms at once. `PROJECT.json` lists each hazard at
its line. There are no tests in the repository. Only the DB survives a restart,
so `Items` has crashes and logins after them; the other models have threads that
end by an exception (`JobQueue`) and the `CRASH` of the lock (`RWLock`).

## 2. Modules

| module | models | how |
|---|---|---|
| `SerialExecutor` | what a job queue promises | one job at a time per queue, in the order of the pushes |
| `JobQueue` | `JobQueue.cpp`, `LockQueue.h`, `GlobalQueue.cpp`, `ThreadManager.cpp`, the worker loop | an action is one access to `_job_count`, `_jobs` or the global queue; implements `SerialExecutor` |
| `JobTimer` | `JobTimer.cpp`, `PushJobTimerAsync` | extends `JobQueue` with a clock and the heap; implements `JobQueue` |
| `JobProofs` | | theorems about `JobQueue` and `JobTimer` |
| `RecursiveLock` | the policy of README.md:22-31 | who may be granted what |
| `RWLock` | `Lock.cpp`, the guards | an action is one access to the lock word; implements `RecursiveLock` |
| `RWLockProofs` | | theorems about `RWLock` |
| `DeadLockDetector` | `DeadLockDetector.cpp` | its three hooks around guards of an ideal lock |
| `DetectorProofs` | | theorems about `DeadLockDetector` |
| `Session` | `Session.cpp`, the registries of `Service.cpp`, `Dispatch` | an action is one access to a flag, the queue or an event; the kernel fails or completes calls as it likes |
| `RecvBuffer` | `RecvBuffer.cpp`, `Session.cpp:202-229`, `339-361` | a completion is a step; bytes are their positions in the stream |
| `SessionProofs` | | theorems about `Session` and `RecvBuffer` |
| `WorldMap` | the geometry of `Map.cpp` and of the Zones of `Room.cpp` | operators only |
| `PathFinding` | `Map.cpp:186-289`: `FindPath`, `CalculatePath` | extends `WorldMap`; a step is a node of the open list, or a step back to the start |
| `Room` | `Room.cpp`, `Map.cpp`, `Zone.cpp`, `ViewCube.cpp`, `GameObject.cpp`, `Monster.cpp`, `Arrow.cpp`, the entering, leaving and moving parts of `GameSession.cpp` and `ClientPacketHandler.cpp` | the room is one record; the functions a job calls are operators from a room to a room, composed in the order of the calls; a job is a step, network threads are cut where they meet the jobs |
| `RoomProofs` | | theorems about `WorldMap`, `PathFinding` and `Room` |
| `SendBatch` | `GameSession.cpp:31-37`, `58-104`, `SessionManager.cpp:25-36`, the overload `Session.cpp:34-50` | an action is one locked section or one access to a flag; three flushers, the direct `Send`, the end of the connection |
| `BlockAllocator` | what users of a thread's slabs are promised | a block has one user from allocation to release |
| `Slabs` | `SlabMemoryManager.cpp`, `SlabPool.cpp`, one size class | an action is one access to a shared count, a `SlabInfo` or the pool; implements `BlockAllocator` |
| `SlabsProofs` | | theorems about `Slabs` |
| `SendBuffer` | `SendBuffer.cpp`, `tls_send_buffer_chunk` | an action is a locked section of the manager or a change of the references to a chunk |
| `SendProofs` | | theorems about `SendBatch` and `SendBuffer` |
| `Heartbeat` | `Heartbeat.cpp` | a clock, a job that reads two words in either order, a pong between them |
| `Lobby` | `GameSession.cpp:128-365`, `DBConnectionPool.cpp:49-67` | an action is a call of the pool or a statement of the DB; sessions of one account meet at the tables |
| `Items` | `DBSerializer.cpp`, `Inventory.cpp`, `Player.cpp:79-197`, the login's read of the rows in `GameSession.cpp` | one account's inventory and rows; a job of the room or of `DBSerializer` is a step, in the order of the pushes |
| `GameSessionProofs` | | theorems about `Heartbeat`, `Lobby` and `Items` |

`JobTimer` extends `JobQueue`, since `DistributeJobs` pushes and may execute
queues inline. `Room` and `Items` take from them what they were shown to provide:
jobs of one queue are atomic to one another and run in the order of the pushes,
and a reserved job is pushed once. The `MC` modules and `.cfg` files are the instances.
Operators marked *Mutant* are plausible wrong versions of a definition, used by
nothing in the model: each property is shown to fail with one of them.

### Correspondence and abstractions

* **Job queues.** `count`, `jobs`, `global` are `_job_count`, `_jobs`, the global
  queue; `batch`, `size` are the locals of `Execute`. That the tick is over is a
  free choice. `PopAll` holds the lock of `LockQueue`, so it is one step.
  A job of `Faulty` throws: the worker ends with the right to its queue.
* **Lock.** `flag` is the word, split in its two halves. An atomic access is one
  step, a plain access of `_write_count` too (that only its owner makes it is a
  property). Spinning is a step that stays; a spinning thread may time out.
  Requests keep to the policy: no write lock on top of a read lock.
* **Session.** `io` is what the kernel has; `sendOwner`, `recvOwner` say whether
  an event refers to the session. An immediate error is a reset (which
  disconnects) or another one (which is only printed); `DisconnectEx` may fail.
* **Receive buffer.** Streams are well formed: every packet is at least a header
  and at most one receive long. A header with size 0, which the parser would not
  get past (`Session.cpp:357`), is not a packet the server's client sends.
* **Room.** Time is left out: a reserved job may come at any moment, so cool-downs
  and search ticks are over or not, freely. What a hit takes is a constant of its
  victim (`Damage`, 0 if the defence absorbs it). `FindPath` and
  `FindClosestPlayer` may return any result the code can return. `known` is what
  a client was told, as if packets arrived at once and in the order of the
  sends. A reserved job is *held* while the object's `_job_reserved` or
  `JobReserved` names it, and *stray* otherwise; `Cancel` empties the held one
  only, which then runs as `EmptyJob`, or is left out if the timer still has it.
  `fault` is a null or freed object used: nothing happens after it.
  `late` records players for whom a job was pushed after
  `OnDisconnectCompleted` had looked for the player: the handler and the
  disconnect run on two threads, and nothing orders them. `raced` records objects
  that were *overtaken* in `OnDeadAnim`, which `C_AnimEnd` runs on a network thread
  (`ClientPacketHandler.cpp:118-123`): another answer for the same object came
  before this one was over, or a job moved the object or took it out.
  The null entry that `_players[object_id]` makes for an absent player
  (`Room.cpp:138`) is left out: of the code that is called only `C_AnimEnd` looks
  players up, and its step asks for one that is present.
* **Batched sending.** A packet is named by its place in the order of the
  `ReserveSend` calls; `sent` is what `_send_queue` was given. `StorePacket`,
  `SwapBatch`, `FlushNothing` and `PushBatch` are the locked sections, the flag is
  an atomic beside them. `OnDisconnectCompleted` swaps the batch away without the
  lock; that race is taken to fall between two locked sections. What becomes of
  `_send_queue` is `Session`'s matter.
* **Slabs.** One size class; a slab is its base address, in the order in which they
  were made. `free`, `infos`, `freed` are `_free_block_payloads`, `_slab_infos` and
  `freed_count`. After its count a release reads the `SlabInfo` again
  (`SlabMemoryManager.cpp:130`): if it was deleted meanwhile, `ReadDeletedSize` lets
  the read give any size, also one for which `ToIndex` crashes.
* **Path finding.** `_cell_path` is built in the order that `reverse` gives it. Which
  of several nearest cells is expanded first is open. The priority is the distance to
  the destination alone (`Node::calc` returns `h`, `Map.h:59`), so this is not the A*
  that `Map.cpp:185` and README.md:130 name: a path is found whenever there is one
  (`PathsAreFound`), but not always a shortest one, and a monster gives up a target
  whose path was found too long (`Monster.cpp:133`). `Room` lets a monster step to any
  free neighbour; `PathsAreWalkable` shows that `path[0]` is one.
* **Send buffers.** A `shared_ptr` is what it promises: the deleter runs once, on the
  thread that gives up the last reference. Which of the three kinds of references there
  are is read off `current`, `got`, `live` and `pool`. A packet fits a chunk, as
  `SendBufferChunk::Acquire` asserts.
* **Heartbeat.** C++ orders neither read of the subtraction in `Ping` before the
  other, so `ReadClock` and `ReadTick` are alternatives. `Late` is how late a
  reserved job may end: the code promises nothing, the load decides.
* **Lobby.** A player is his `player_id`. The `LEFT JOIN` gives an account without
  players one row, whose null `player_id` leaves 0 in the variable: `NoPlayer`.
  A statement fails for what the tables demand, a `UNIQUE` name of an account and
  names of 50 characters at most (`ServerDB.cpp:21, 40`), and for nothing else
  (a failure ends the process; `Items` has that as `Crash`). `DBBind` copies a name
  into `wchar_t[50]` (`DBBind.h:58-69, 139`): with 50 characters or more the copy
  goes past it on the stack, so from then on the process may end at any point of the
  handler (`LongName`), or nothing is noticed.
* **Items.** A life is a `Player` object; each login makes a new one, and the old
  one may still have jobs and earn rewards. An item is its `item_id`, a kind
  stands for what `CanEquip` and the weapon and armor types tell apart. `shadow`,
  `collided`, `torn` and `overlap` record what the code lets happen (see the
  run). `Crash` is a statement that fails: what is thrown is a pointer, and
  `ThreadManager.cpp` catches exceptions only.

## 3. Runs

| run | instance | result |
|---|---|---|
| `job_queue` | 3 workers, 2 queues, 3 jobs, one may throw | one executor, one right to execute, exact counts, implements `SerialExecutor`, every job runs |
| `job_timer` | 2 workers, 2 timer jobs, 1 pushed, clock to 2 | reserved jobs distributed once, in order, and run; implements `JobQueue` |
| `rw_lock` | 3 threads, 2 requests each | implements `RecursiveLock`; count touched by its owner; every request granted, or the process ends by the time-out |
| `detector` | 3 threads, 3 locks, 2 guards each | no deadlock missed as long as the owners are on record, no false alarm among write guards |
| `session` | 3 workers, 2 buffers, every failure | token, owners, order, single unregistration; every buffer ends, a session whose disconnect was posted is forgotten |
| `session_owner` | 3 workers, 2 buffers, no failure | **violation**: a session refers to itself for ever |
| `recv_buffer` | 5 packets of 2 to 4 units, room for 8 | packets once and in order, only a backlog delays |
| `room` | 2 players, 1 arrow, 3 cells, 3 Zones, queue of 2; one may lose his connection, the other's client answers his death | grid, Zones, positions, views, closed sessions |
| `room_combat` | 2 players, 1 monster, 1 arrow, queue of 2; the archer may lose his connection, both clients answer the monster's deaths | arrows hit once, updates go on, what is gone is met only where one answer overtook another |
| `send_batch` | 2 callers, 3 packets of one unit, 2 of which fill a batch, 1 direct packet | nothing lost or doubled, in order unless batches overlap; a full batch has its flusher, the flag is not stuck, every packet leaves |
| `slabs` | 2 threads, 3 slabs of 2 blocks | implements `BlockAllocator`; an empty slab goes back; only a foreign release can read a deleted `SlabInfo` |
| `items` | 2 logins, 3 rewards, 2 slots, a crash or none, queues of 2 | inventory and rows agree up to the jobs that wait; one bow worn |

The violation is a disagreement between the code and its own documentation, which
`PROJECT.json` quotes. Two more that the models show, without a run of their own:

* README.md:40 says the detector checks that locks and unlocks pair. It keeps one
  count per thread and sets it to 1 whenever a lock gets a new owner
  (`DeadLockDetector.cpp:44`), so nested guards of two locks
  (`Service.cpp:18-21` calls `Session::Send`, which locks again) end a correct
  unlock with "Invalid unlock". In `DeadLockDetector` such a thread goes on no
  further.
* README.md:141 says each refresh spawns the actors that were added. `ViewCube::Update`
  compares with `_prev_objects` only (`ViewCube.cpp:34`), while `Room::Leave` tells the
  client of a despawn at once: a player who leaves and is back in view before the
  next refresh is not shown. `ShownIsKnown` in `room` is therefore about those who never left.

Every module with variables states a `TypeOK`; `job_queue` checks its own, and the
types of every module with theorems are part of the invariant that is proved.
`Heartbeat`, `Lobby`, `SendBuffer` and `PathFinding` have theorems instead of runs:
their properties hold for every instance.

**What the invariants except.** `recv_buffer`: the parser is told the bytes of this
receive, not what is unread (`Session.cpp:217`), so after a receive that ended
inside a packet, complete packets can wait for later receives. `DelayBounded` says
by how much at most. `send_batch`: the lock
covers the swap of a batch and not its way to the session, so when two batches are on
their way the later may arrive first (`overlap`); without that exception the run
fails. Packets given to `Session::Send` at once overtake whatever is reserved.
`room` and `room_combat`: an answer to a death that is overtaken (`raced`) can put a
player on two cells, or a monster out twice, of which the second `Leave` uses a null
pointer (`Room.cpp:159-165`). S_Die goes to everybody in range (`GameObject.cpp:167`) and
the handler does not ask whose client answers, so two clients near one monster are enough:
`NoFault` without its premise is violated in both runs, and says with it that nothing
else leads there. `late` players are excepted as well: their job comes after their `Leave`.
`slabs`: a release of another thread's block can meet a `SlabInfo` that its owner has
deleted; `CrashIsForeign` says that nobody else can. `items`: three things break the agreement of memory and rows
or the rule of one weapon; they are recorded as history, so that the invariants
say that nothing else does.

* Two kills before the first reward has come back choose one slot
  (`DBSerializer.cpp:38` reads it, `Inventory::Add` fills it two jobs later). Both
  rows stay; memory keeps the later one (`shadow`, `collided`), a login the one
  that is fetched last, with its own flag.
* `EquipItemNoti` writes what the item says when the job runs, not what it said
  when it was pushed. When a player changes from one bow to the other and back, the rows can
  say for a while that he wears both. A crash then leaves them so (`torn`).
* A login reads the rows past both queues, so what the last life has pushed and is
  not written yet is missed, and what it writes later the new life does not see
  (`overlap`). The run ends at such a state: it claims nothing of what follows.

**Why the bounds are enough.** Three workers are a pusher, an executor and one
who takes over; a queue's right changes hands between two of them while the
third pushes. Two queues give pushes from inside a job. In `Session` only the
holder of the token touches the event, so three workers give a second sender and
a disconnect at the same time. Three threads and three locks give cycles of two
and of three. The stream of `RecvBuffer` is more than twice the buffer, so it is
moved to the front several times with rests of every length. In `Room` the
corridor has three cells and a Zone border in the middle, views end at the next
cell (in `room`), so that every step changes a Zone or a view; two objects are
enough for a collision, for a view of each other, and for a jump between two
refreshes. One arrow gives deaths of players, monsters and bystanders. In
`room_combat` the two clients give a second answer to a death, and the broken connection
of the archer gives a view that is released during a fight. `MaxQueue` (the jobs waiting; sessions
and timers wait when it is full) lets one job overtake another's reason. In
`Items` two slots and three rewards fill the inventory, make two kills meet in one
slot, and give two bows to change between; two queued packets or kills let an
equip, a drop or a reward wait behind another. In `SendBatch` two callers,
the reserved flush and the loop are four threads that may hold a batch; three packets
of which two fill a batch give a full batch, a partial one and a flag that is down. In
`Slabs` two blocks a slab give releases of one slab by two threads at once, and a third
slab gives a pool from which a slab comes back. An arrow
is never made twice, which bounds the shots. Arrows fly and players look in one
direction in `room_combat`, since the corridor has two ends only.

**Symmetry and views.** Workers, threads, locks, buffers and lives that no constant
distinguishes are symmetric, and symmetry is used only where no liveness is
checked; the players of the two room runs have different parts and are not.
`room_combat` compares states by `Fight`, which leaves out what its properties and the future do not depend on: what clients were shown, targets and
cool-downs that are written before they are read, and where an arrow was that is
gone. `room` compares them by `Walk`, which leaves out of the views the players
who have left at some time (`ShownIsKnown` is about the others) and the position
of a player of whom nothing more will come. `items` compares them by `Future`,
which leaves out the flag of items that are no longer held and that no job will
save. Its constraint `NoOverlap` stops at lives that overlapped, since both
invariants except what follows.

**Deadlock** is checked where the system never stops (`job_queue`, `job_timer`,
whose workers go round for ever). The others may stop: all requests made, the
session closed, the stream read, the room at a fault or empty with nobody
connected.

**Fairness.** A thread that can go on does (weak fairness of each worker's next
step), which preemptive scheduling gives. A worker that comes back to the global
queue or the completion port again and again finds what waits there (strong
fairness of `PopGlobal` and of completions): both are first in, first out, and
the kernel completes what it was given. Nobody is obliged to send, to disconnect
or to push; no lock is fair, `EveryRequestGranted` admits the time-out that ends
the process. `SendBatch` needs the loop: a
packet that finds the flag down while the flush it stands for has swapped already is
found by nobody else, so `EveryPacketFlushed` fails without weak fairness of
`StartLoopFlush`, which the endless loop of `GameServer.cpp:70-78` gives. `Slabs` asks
only that a release that has begun ends; `FullGoesBack` has as its premise that every
thread releases again and again, because nothing else looks through its slabs.
`Room` and `Items` have no fairness: they state safety only.

## 4. Proofs

A proof module has the inductive invariant (`IInv`, or a name of its own where two
systems share the module), a lemma for each part of it and each action that disturbs
the part, and the theorems that follow from it. The invariants that no run lists
were checked by TLC on the runs' instances before they were proved. Every theorem
holds for all values of the constants that satisfy the named assumptions of the
module it is about.

`JobProofs`, for any finite set of workers and any queues, jobs, faulty jobs and
delays, from `WorkerAssumption`, `QueueOfAssumption`, `FaultyAssumption`,
`NoneAssumption` and, for the timer, the assumptions of `JobTimer` (`None` is no time).
About `JobQueue`:

* `TypeCorrect`: the types are kept; in particular `_job_count` is never negative.
* `MutualExclusion` (`OneExecutor`): no two workers execute one queue.
* `RightHeldOnce` (`OneRight`): a queue with a count above 0 has exactly one
  right to execute it, held by its first pusher, its executor or one entry of
  the global queue; a queue at 0 has none.
* `CountCorrect` (`CountExact`): the count is the stored jobs, the executor's
  batch and the pushes between the count and the store.
* `SerialExecution` (`RunsSerially`): `JobQueue` implements `SerialExecutor`.

`OneExecutor` alone is not inductive: a pusher that saw 0 is about to become an
executor. The argument is that the *right* to execute moves but is neither
copied nor lost. `RightHeldOnce` says that, but to keep it one must know that an
executor which takes its batch off the count reaches 0 only if nobody else has
counted a job in between, which is `CountExact`. The invariant is the
conjunction of both with the types and the shape of a worker's locals; each
action has a step, and lemmas say how it changes the cardinalities of the sets
of holders and of counted pushers. The refinement maps the waiting jobs of a queue to
the executor's batch followed by `_jobs`; with `OneExecutor` there is at most one
batch, so a step of a worker is one step of its queue's serial executor or a stutter.

About `JobTimer`: `ReservedJobsKept` (`ReservedOnce`), `DistributesInOrder`
(`DueOrder`), and `TimerKeepsQueues` (`QueuesUnharmed`): a timed system implements
`JobQueue`, so that every theorem above holds with timers. `_processing` is set exactly
while one worker is between the exchange and the store (`OneDistributor`), and only
that one holds items; what it holds was due when it read the clock and is sorted
(`DueItems`). A second distributor with an older or newer clock is what `DueOrder`
must exclude, and `OneDistributor` does.

`RWLockProofs`, for any threads and any number of requests:

* `CountsGuards` (`WordCountsGuards`): the word and `_write_count` count the guards
  alive; no guard that ends meets the `CRASH` for an invalid unlock.
* `CountIsTheOwners` (`CountsAsOwner`): only the owner touches `_write_count`.
* `ImplementsPolicy` (`GrantsByPolicy`): `RWLock` implements `RecursiveLock`.

`WordCountsGuards` is not inductive: that `ReadUnlock` finds a reader counted and
`WriteUnlock` finds none depends on the order in which a thread's guards end. The
invariant adds that read guards of a writer lie on top of its write guards
(`ReadsLast`), that a writer is alone (`Alone`), and what `_write_count` is between the
store of the word and its own update (`Owner`).

`DetectorProofs`, for any finite set of threads (`CheckCycle` visits each once) and any
locks, modes and depth of nesting:

* `NoDeadlockMissed` (`NoMissedOnRecord`), and `AlarmsAreDeadlocks`
  (`AlarmIsDeadlock`), an action property.

That no deadlock is missed is not inductive, since it says nothing of how one comes
about. `NoCircle` is: no set of waiting threads contains, for each of them, the recorded
owner of what it waits for. The last thread to join such a circle would have found
itself in its own search, because the others wait and are noted already (`Noted`), and
an owner that comes or goes later does not wait. For the other direction a recorded
owner must hold its lock (`Recorded`), although `_owner_count` is one count for all the
locks of a thread: it never exceeds the guards on top of the first one of any lock
(`CountBounded`), so when that guard ends it is at most 0, and the owner is dropped or
the process has ended. The search then follows real waits: what it reaches is a chain
(`Chain`) whose only end without a wait is the thread that asks. `ReachRule` is the
lemma about `CheckCycle` that both directions use: the set it reaches is closed under
waits, and has every property that a step of the search keeps.

`SessionProofs`, for any workers and any buffers, with every failure of
the kernel's calls:

* `SendTokenUnique` (`OneSendToken`), `OwnerWhilePending` (`OwnedWhilePending`),
  `SentInOrderOnce` (`InOrderOnce`), `UnregisteredOnce` (`UnregistersOnce`).

Only flags keep the workers apart, and the invariant says who may do what: the send
token is `_send_registered` (`SendToken`); the receive token has no variable, it is the
worker that set the session up and then whoever got the last completion (`RecvToken`);
the close token is whoever found `_connected` set (`CloseToken`), and it does not come
back, because only `EstablishConnect` sets `_connected`, before any other worker can
reach the session (`SetUpAlone`). The four properties follow from the tokens.

And about `RecvBuffer`, for packets, headers and buffers of any size, each packet at
least a header and at most `BufferSize` long:

* `PacketsInOrder` (`HandledInOrder`), `RoomIsMade` (`RoomForNext`).
* `BacklogBoundsDelay` (`DelayBounded`), an action property.

The invariant is the types with the first two: what is unread are the bytes of the
stream from the next packet on, so the parser finds a header at each place where it
looks for one. `PacketsParsed` says what its loop returns then.

`SlabsProofs`, for any finite set of threads and any numbers of slabs and blocks:

* `SlabsAllocateOnce` (`AllocatesOnce`): `Slabs` implements `BlockAllocator`.
* `OnlyForeignCrashes` (`CrashIsForeign`), and `CountIsExact`: `freed_count` lacks of
  the number of blocks exactly those not given out, in use, or released and not counted.

That an address has one user is not visible where it is given out, since `Acquire`
takes it off a list that was filled when its slab arrived. The invariant follows a
block through the life of its slab: it is on one list, with a user or about to be
counted, and never two of them (`OnePlace`); so a slab whose count is full (`Counted`)
has none of them when it goes to the pool; and a slab is with one thread, in the pool
or not made yet (`OneHome`, `Made`).

`RoomProofs`, for maps of any size and origin, any Zone size and any range:

* `CellsAreZoned`: the Zone of a cell exists, so the pointer `GetZone` returns
  in `Enter`, `ApplyLeave` and `SetCurrentZone` is never null.
* `NearIsAdjacent`: who is within range is in an adjacent Zone. Division rounds
  toward zero, so left of and above the map it is not the division of
  mathematics; the lemma `ZoneQuotientMonotone` shows that it keeps the order,
  and the theorem needs no more.

and about paths, for any set of free cells, any start, destination and range:

* `PathsAreWalkable`: what `FindPath` returns leads from a neighbour of the start over
  free cells to a neighbour each time, and never twice to one cell. The invariant is
  that `parent` is a tree whose edges join neighbours and whose `rank` (the round of
  discovery) grows from parent to child.
* `PathsAreFound`: a path that does not end at the destination is returned only if some
  set of cells holds the start, not the destination, and no step leads out of it. Each
  discovered cell is open or closed, a closed one has all its usable neighbours in the
  tree; when nothing is open the tree itself is that set.
* `SearchProgresses`: each step closes one more cell or goes to a cell of smaller rank.

and about `Room`, for any players, monsters and arrows on any map, any packets, broken
connections and answers to deaths, and any `MaxQueue`, from the named assumptions of `Room`
and `WorldMap` (finitely many monsters; a map with a cell; the kinds of objects apart):

* `RoomTypes` (`TypeOK`): nothing is in the grid, a Zone or a view that is no object, no
  position is off the map, and `OnDeadAnim` runs for an object that was found.
* `ShownStaysKnown` (`ShownIsKnown`): no broadcast undoes an update of a view.
* `ArrowsHitOnce` (`ArrowHitsOnce`): an arrow hurts once.
* `NobodyIsForgotten` (`NobodyForgotten`): players in the room, monsters that live and
  arrows in flight have an update to come.

The first two are inductive together (`Well`): a broadcast only adds to what is known, or
takes away somebody who leaves and is in `gone` then. For the other two the invariant
`RoomFine` follows the jobs. A job that a handle names is an update of a player or a monster
(`HeldTicks`), so `Cancel` empties nothing else. An arrow has no update before its `Enter`
has run, one at most from then on, and an arrow that has hit has its `Leave` in the queue
before that update (`ArrowFine`, with `InTurn` about the order in the queue): the update
finds no owner and does nothing. Of a player or a monster the update that the handle names
is the one that counts (`ActorFine`); stray ones come and go, and a monster's is cancelled
only at its death, a player's when he leaves. The room is a record of 21 fields; so that
no step has to look at all of them, a lemma for each operator of `Room` says what it does
to five parts of the room, and the lemmas about jobs and sessions use these only. The
two invariants hold with the network thread's `Leave` and `Enter` of `C_AnimEnd` between
any two jobs, and after a fault, when the room stands still.

Three more theorems are about where everybody is. They assume nothing of the clients:

* `EverybodyHasOnePlace` (`OnePlace`): the grid, the positions and the Zones agree about
  everybody but players with a job pushed after their `Leave` and who was overtaken in
  `OnDeadAnim`.
* `NothingFaults` (`NoFault`): an update of a view meets a cube that was released, or a
  `Leave` an object that is not there, only if an `OnDeadAnim` was overtaken before.
* `TheClosedAreGone` (`ClosedIsGone`): a closed session whose jobs have run
  leaves its player nowhere and no update of his view, from whichever point of whichever
  handler the connection broke, with the same two exceptions.

Both exceptions are what the code does (section 5), and both happen in the runs: `late`
in `room`, `raced` in both.

Their invariant is `Settled`: `RoomInv` and `Ordered`. `Ordered` says that a fault has a
race before it, and has three more parts, about whatever was not overtaken.
* `Sound`, of the room, for each object. Where it is, is told alike by the three records
  (`Stands`), also for an arrow, whose `Leave` is queued only while it is there (`Shot`). An
  actor has one `Enter` in the queue at most and is outside when it runs (`Entered`). The
  updates of a player's view are those of his handle, one at most, and while there is one
  he is in the room (`Viewed`): this is why none is left when he has gone.
* `InSession`, of each session. No job brings a player into the room who has not joined
  (`NotYet`). Until `OnDisconnectCompleted` has pushed his `Leave`, he is in the room with
  all that goes with it or not at all (`Staying`). From then on, if no handler was late,
  the `Leave` is the last job that concerns him, and it is in the queue as long as he is
  in the room (`Departing`). Between the `Leave` and the `Enter` of his `OnDeadAnim`
  (`Away`) he is out and about to be back: `OutStaying` and `OutDeparting` say the same
  of him then. `Placed` chooses.
* `Answering`, of the handlers in `OnDeadAnim`: each is the only one of its object, which
  has no `Enter` in the queue that could put it in a second time, and is in the room until
  the handler has taken it out.

`Stays` is what makes the proof one lemma per job: each operator of the room keeps
`NotYet`, `Staying` and `Departing` of every player, whichever holds, and no job takes a
monster out of the room, since its death only stops its updates. `Kept` is the same for
who is away: a job that does not overtake him leaves his place and his jobs as they are. `Follows` and `Fewer`
carry what is said of the jobs of one object through a queue in which jobs are taken,
emptied and pushed.

`SendProofs`, about `SendBatch`, for any callers and any number of packets
of any sizes:

* `PacketsKeptInOrder` (`KeptInOrder`): until the connection ends no reserved packet is
  lost or doubled between the three flushers, and none is overtaken unless two batches
  were on their way at once.
* `FullBatchHasFlusher` (`FullBatchLeaves`): `_pending_bytes` is what waits, and a full
  batch has a thread about to flush it.
* `FlagComesUp` (`FlagNotStuck`): a flag that is down has somebody to put it up.

Packets are numbered as they are reserved, so the next one is larger than any that
waits, is on its way or was sent (`Numbered`), a batch is held by a thread between its
swap and its push only (`Carried`), and by one thread as long as none overlapped
(`OneOnTheWay`): each move then appends at the right end of an ascending sequence.
What the bytes of a batch are is a recursive function; `BytesOfOneMore` says how it grows.

And about `SendBuffer`, from `ConstantsFit`: no size is above `ChunkSize`, `None` is no
chunk and no packet.

* `PacketsAreIntact` (`NoByteShared`): two live buffers of a chunk share no byte.
* `ChunksGoRound` (`OneHolder`): a chunk is one thread's, never in the vector while in
  use, never there twice, and never lost.
* `AcquireServes` (`Served`): `Acquire` returns a buffer.

`OneHolder` is inductive with the types and the shape of the locals. The bytes need it:
a chunk that comes from the vector has no live buffers (`Empty`), which stays true until
`Reset` since no other thread cuts it; then the live buffers of a chunk end below
`_used_size` (`Below`), so a new one begins behind them.

`GameSessionProofs`, about `Heartbeat`, for any period, limit, delay and word, all naturals:

* `SilentIsDropped`: until the heartbeat fails, the last answer is no older than
  limit, period and two delays. Place by place of the job, the time it is due is
  bounded by `HeartbeatTick`; the tick only grows, so what was read of it is a lower
  bound of what it is.
* `PromptClientStays`: if the answer to one ping is stored before the next starts
  (`Prompt`) and `Period + 2 * Late <= Limit`, the session is never disconnected. The
  premise cannot be weakened to an answer that is merely on its way: a pong between
  the two reads makes the difference wrap around.

And about `Lobby`, from `ConstantsFit`: finite sets of workers and connections, no more
workers than connections, `Nothing` none of the things it stands beside, old players
of old accounts, and names of any `Length`.

* `ConnectionsSuffice` (`PoolSuffices`): `Pop` never returns `nullptr`. Workers that
  hold a connection and the pool share all connections; when the pool is empty the
  holders map onto the connections, so a worker without one would make them fewer than
  the workers, against the assumption.
* `NameFailureIsRace` (`FailureIsRace`): a login that finds its name taken at the `INSERT`
  (`GameSession.cpp:204`) has a rival, another session that inserted the name after this
  one's `SELECT`; and the process ends in the lobby only for such a rival or for a name of
  50 characters or more. Both happen: two clients that log in with one new name at once,
  or one client with a long name. The invariant says it of every state (`Rivals`, `Causes`):
  a session whose `SELECT` found no row has no rival, and the one that inserts the name
  from then on keeps it as its `account`.
* `ListsAreOwn` (`ListIsOwn`): a session lists players of its own account, enters with
  one of them, and does not use the list it has deleted.

The inductive invariant says where the handler of a session's packet is (`PacketInv`:
one worker at most runs it, in the state that `_server_state` names) and what is known
of the session there (`SessionInv`). The lemma `AsideKeeps` shows once that a step of
one worker leaves the rest alone; each action then has only its own worker and session
to show.

And about `Items`, for any lives, slots, kinds, rewards and length of the queues:

* `ItemsTypeCorrect` (`TypeOK`), with what the jobs know: an `AddReward` waits only for
  an item whose `INSERT` has run.
* `MemoryAndRowsAgree` (`Agree`): memory and rows agree up to the jobs that wait.
* `OneOfAGroup` (`OneEquipped`): nothing is worn twice of one type, in memory at any
  time and in the rows when no `EquipItemNoti` waits.

`Agree` is not inductive. `Books` says more of the life that logged in last: what is
about to be deleted is in the rows and not held, what is about to be added is new and
nowhere worn, and the flags agree also for items about to be deleted. The lemmas
`BalancedLogin` to `BalancedDelete` show it for each kind of step, as facts about eight
sets. They need that an item is added and deleted once (`Once`) and that all jobs of
`DBSerializer` are of that life (`Own`), which an overlap of lives breaks.
For `OneEquipped`, two items of one group can be marked at once only if one was dropped
while worn; its deletion is then before the other's update in the queue (`Ordered`),
so that when no update waits there are no two, and a process that dies then leaves none
for the next login (`AtRest`). `SlotsApart` is why nothing else goes out of sight: as
long as no two rows share a slot, a login reads all of them and a reward displaces none.

**Recursive functions.** The stream of `RecvBuffer`, the parser's loop, the bytes of
a batch and the search of the detector are recursive functions over an interval of numbers. Their existence and their
values are proved by `SetInduction`: a set that has 0 and with each number the next one
has all numbers. It is stated for a set instead of a predicate, and follows from finite
sets: up to a number that is missing, the predecessor of a missing number is missing
too, so it maps these finitely many numbers one to one into themselves and still leaves
the largest out.

**Model-checked only.** Liveness (`EveryJobRuns`, `EveryTimerFires`,
`EveryRequestGranted`, `EveryBufferEnds`, `ClosedIsForgotten`, `EveryPacketFlushed`,
`FullGoesBack`) is out of the prover's reach; so is `NoSelfReference`, which is
violated. Every invariant and every action property that a passing run checks is proved.

## 5. What is not modelled

* Weak memory. The acquire and release orders of `Lock.cpp` are taken as
  sequentially consistent.
* The data race between network threads and jobs on one container: `C_AnimEnd`
  runs `Leave` and `Enter` next to the jobs, and `Room` takes each of the two as
  one step. What comes between these steps is modelled, and goes wrong in the ways that
  `raced` records: both of two clients may find a dead monster
  (`ClientPacketHandler.cpp:119-121`) before the first `Leave`, and
  `_monsters[object_id]` makes an entry for the one that has gone, `erase` finds it, and
  a null object is used (`Room.cpp:159-165`); or a player who is between the two steps
  walks, and stands on two cells then. An answer for an object that is not there
  (`at` throws, `Room.cpp:293, 298`) is left out.
* Handlers that run when there is no player or no room yet or any more
  (`ClientPacketHandler.cpp:29-32` dereferences both); a session sends game
  packets after it has entered and before its player is forgotten.
* A room without a free cell, in which `GetRandomPos` never ends (`Room.cpp:507`).
* `ObjectManager`'s counter, which would run into the type bits after 2^24
  objects (`ObjectManager.cpp:7`).
* Listening: `RegisterAccept` calls itself until it succeeds
  (`ListenHandler.cpp:91`). `IocpCore::Dispatch` on an error that carries no event
  (`IocpCore.cpp:44`).
* In the lobby: what the lists show besides ids. `HandleCreatePlayer` inserts a player
  and his stats without a transaction (`GameSession.cpp:237-252`): a login of the same
  account in between, or after a crash, lists him with the stats of the row before. The
  entry with `player_id` 0 of an account without players can be entered by its name.
  Both are known weaknesses and not properties of `Lobby`.
* Of memory: blocks above 512 bytes, `MemoryPool` and `PoolManager` (lists of the
  operating system). `SendBufferManager::count` is raised without a lock
  (`SendBuffer.cpp:61`) and read by nobody.
* Of items: stats and hp that are saved next to them, stacks (counts are stored, and
  nothing changes them), and what clients are told. `RefreshStat` is called by an equip
  only (`Player.cpp:143`): no document says when stats follow the equipment.
* Never: files, configuration and static data, ODBC, the generated protocol code,
  the load client, the packet generator. Of the 44 000 lines of the repository about
  34 000 are generated by protoc, and a third of what remains is covered by a definition.

## 6. Plan

Done, in this order: job queues and their abstraction, proofs of mutual exclusion;
the timer; lock and detector; session; receive buffer; room and map; the proofs
about Zones; items; batched sending; slabs; heartbeat and lobby with their proofs; path
finding and send buffers with theirs.

Next, the composition of `SendBatch` and `Session`: a packet from `ReserveSend` to the
completion of its send.

Proved since: the timer and the implementation of `SerialExecutor`; the lock and its
implementation of `RecursiveLock`; the detector; the session; the receive buffer; batched sending;
slabs and their implementation of `BlockAllocator`; items; the types of the room, its views,
its arrows and its updates.
And last everybody's place in the room, the end of a session and what a fault comes from,
for any clients, so that of what the passing runs check only liveness is left to TLC.
