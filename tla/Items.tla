------------------------------- MODULE Items --------------------------------
(***************************************************************************)
(* The items of one account's player: his inventory in memory, the rows of *)
(* the table items, and the two queues between them.                       *)
(*                                                                         *)
(* The room's queue changes the inventory, the queue of DBSerializer the   *)
(* rows; each runs one job at a time in the order of the pushes (JobQueue),*)
(* so a job is one action.  A reward goes from a job of the room through a *)
(* job of DBSerializer, which gives it its id, back to a job of the room.  *)
(* A login reads the rows directly, past both queues.  A statement that    *)
(* fails ends the process, which loses all but the rows.                   *)
(*                                                                         *)
(* Each login makes a new Player object, a life here; an older one may     *)
(* still have jobs, and earn rewards.  Left out: the stats, what clients   *)
(* are told, and whose item it is, since players share no rows.            *)
(***************************************************************************)
EXTENDS Naturals, Sequences, FiniteSets

CONSTANTS
  Lives,      \* the Player objects that may be made for the account
  None,
  Kinds,      \* the kinds of items monsters leave
  SlotCount,  \* Inventory::kSlotCount
  MaxItems,   \* bound: rewards
  MaxQueue    \* bound: packets and kills wait while so many jobs wait

AllKinds == {"bow", "sword", "helmet", "boots", "potion"}
Slot == 0 .. SlotCount - 1
Id == 1 .. MaxItems

ASSUME LivesAssumption == None \notin Lives
ASSUME KindsAssumption == Kinds \subseteq AllKinds
ASSUME SlotCountAssumption == SlotCount \in Nat \ {0}
ASSUME MaxItemsAssumption == MaxItems \in Nat /\ None \notin Id

VARIABLES
  life,       \* of a Player object: "none" yet, "made", or "lost" in a crash
  last,       \* history: the life that logged in last since the process runs
  inventory,  \* Inventory::_items of a life
  equipped,   \* the items of a life whose GetEquipped() is true
  made,       \* kind and slot of the items inserted so far, by item_id
  rows,       \* the item_ids in the table
  worn,       \* those of them whose column equipped is true
  roomQueue, dbQueue,
  shadow,     \* history: rows whose slot another item of the last life took
  collided,   \* history: two rows had the same slot at some time
  torn,       \* history: the process died when EquipItemNoti jobs waited
  overlap     \* history: a life had a job for the rows when another had read them

memory == <<inventory, equipped>>
table == <<made, rows, worn>>
login == <<life, last>>
vars == <<life, last, inventory, equipped, made, rows, worn, roomQueue, dbQueue,
          shadow, collided, torn, overlap>>

RoomJob ==
  [op : {"equip"}, life : Lives, slot : Slot, on : BOOLEAN]
    \cup [op : {"use", "drop"}, life : Lives, slot : Slot]
    \cup [op : {"add"}, life : Lives, id : Id]
DbJob ==
  [op : {"insert"}, life : Lives, slot : Slot, kind : Kinds]
    \cup [op : {"equip", "delete"}, life : Lives, id : Id]

TypeOK ==
  /\ life \in [Lives -> {"none", "made", "lost"}] /\ last \in Lives \cup {None}
  /\ inventory \in [Lives -> [Slot -> Id \cup {None}]]
  /\ equipped \in [Lives -> SUBSET Id]
  /\ made \in Seq([kind : Kinds, slot : Slot]) /\ Len(made) <= MaxItems
  /\ rows \subseteq DOMAIN made /\ worn \subseteq rows
  /\ roomQueue \in Seq(RoomJob) /\ dbQueue \in Seq(DbJob)
  /\ shadow \subseteq Id
  /\ {collided, torn, overlap} \subseteq BOOLEAN

NoItems == [l \in Lives |-> [s \in Slot |-> None]]

Init ==
  /\ life = [l \in Lives |-> "none"] /\ last = None
  /\ inventory = NoItems /\ equipped = [l \in Lives |-> {}]
  /\ made = <<>> /\ rows = {} /\ worn = {}
  /\ roomQueue = <<>> /\ dbQueue = <<>>
  /\ shadow = {} /\ collided = FALSE /\ torn = FALSE /\ overlap = FALSE
-----------------------------------------------------------------------------
(* Inventory.                                                              *)

Held(l) == {inventory[l][s] : s \in Slot} \ {None}
Count(q, op) == Cardinality({i \in DOMAIN q : q[i].op = op})

\* Inventory::GetEmptySlot: the first free one, nothing when all are taken.
EmptySlot(l) ==
  LET free == {s \in Slot : inventory[l][s] = None}
  IN  {s \in free : \A t \in free : s <= t}

\* A potion cannot be equipped, and of the weapons only a bow.
CanEquip(id) == made[id].kind \notin {"potion", "sword"}

\* Weapons exclude each other, and so do armors of one type.
SameGroup(id, other) ==
  LET group(k) == IF k \in {"bow", "sword"} THEN "weapon" ELSE k
  IN  group(made[id].kind) = group(made[other].kind)

\* Mutant: it does not look whether that is equipped.
ToUnequipAny(l, id) ==
  LET like == {s \in Slot : inventory[l][s] # None /\ SameGroup(inventory[l][s], id)}
  IN  {inventory[l][s] : s \in {t \in like : \A u \in like : t <= u}}

\* Inventory::FindIf: what is equipped in the place of id, the first by slot.
ToUnequip(l, id) ==
  LET on == {s \in Slot : /\ inventory[l][s] \in equipped[l]
                          /\ SameGroup(inventory[l][s], id)}
  IN  {inventory[l][s] : s \in {t \in on : \A u \in on : t <= u}}
-----------------------------------------------------------------------------
(* The network threads.                                                    *)

NoteOverlap ==
  overlap' = (overlap \/ \E i \in DOMAIN dbQueue' : dbQueue'[i].life # last')

\* GameSession::HandleEnterGame makes the player and reads his rows; of two
\* with the same slot the inventory keeps the one that is fetched last.
HandleEnterGame(l) ==
  /\ life[l] = "none"
  /\ life' = [life EXCEPT ![l] = "made"] /\ last' = l
  /\ \E items \in [Slot -> rows \cup {None}] :
       /\ \A s \in Slot : LET here == {id \in rows : made[id].slot = s}
                          IN  items[s] \in IF here = {} THEN {None} ELSE here
       /\ inventory' = [inventory EXCEPT ![l] = items]
       /\ LET loaded == {items[s] : s \in Slot} \ {None}
          IN  /\ equipped' = [equipped EXCEPT ![l] = worn \cap loaded]
              /\ shadow' = rows \ loaded
  /\ UNCHANGED <<table, roomQueue, dbQueue, collided, torn>> /\ NoteOverlap

\* Handle_C_EquipItem, Handle_C_UseItem and Handle_C_DropItem push a job, maybe
\* of a player who has left the room meanwhile.
HandlePacket(l) ==
  /\ life[l] = "made" /\ Len(roomQueue) + Len(dbQueue) < MaxQueue
  /\ \E s \in Slot, on \in BOOLEAN :
       \E job \in {[op |-> "equip", life |-> l, slot |-> s, on |-> on],
                   [op |-> "use", life |-> l, slot |-> s],
                   [op |-> "drop", life |-> l, slot |-> s]} :
         roomQueue' = Append(roomQueue, job)
  /\ UNCHANGED <<login, memory, table, dbQueue, shadow, collided, torn, overlap>>
-----------------------------------------------------------------------------
(* The jobs of the room.                                                   *)

\* A monster dies, in whatever job, and leaves something for its killer:
\* DBSerializer::SavePlayerReward chooses the slot now.
SavePlayerReward(l) ==
  /\ life[l] = "made" /\ Len(roomQueue) + Len(dbQueue) < MaxQueue
  /\ Len(made) + Count(dbQueue, "insert") < MaxItems
  /\ \E kind \in Kinds, s \in EmptySlot(l) :
       dbQueue' = Append(dbQueue, [op |-> "insert", life |-> l, slot |-> s, kind |-> kind])
  /\ UNCHANGED <<login, memory, table, roomQueue, shadow, collided, torn>> /\ NoteOverlap

Runs(q, op) == q # <<>> /\ q[1].op = op
Noti(op, l, id) == <<[op |-> op, life |-> l, id |-> id]>>
NextRoomJob == roomQueue' = Tail(roomQueue)

\* Player::HandleEquipItemPacket: off with what is in its place, then on, or off.
HandleEquipItem ==
  /\ Runs(roomQueue, "equip") /\ NextRoomJob
  /\ LET l == roomQueue[1].life
         on == roomQueue[1].on
         id == inventory[l][roomQueue[1].slot]
         off == IF on THEN ToUnequip(l, id) ELSE {}
     IN  IF id = None \/ ~CanEquip(id) THEN UNCHANGED <<equipped, dbQueue>>
         ELSE /\ equipped' = [equipped EXCEPT
                   ![l] = IF on THEN (@ \ off) \cup {id} ELSE @ \ {id}]
              /\ dbQueue' = dbQueue \o
                   (IF off = {} THEN <<>> ELSE Noti("equip", l, CHOOSE i \in off : TRUE))
                   \o Noti("equip", l, id)
  /\ UNCHANGED <<login, inventory, table, shadow, collided, torn>> /\ NoteOverlap

\* Mutant: what was used up is not deleted.
EraseOnly(l, s) ==
  /\ inventory' = [inventory EXCEPT ![l][s] = None]
  /\ UNCHANGED dbQueue

Erase(l, s) ==
  /\ inventory' = [inventory EXCEPT ![l][s] = None]
  /\ dbQueue' = dbQueue \o Noti("delete", l, inventory[l][s])

\* Player::HandleUseItemPacket: a potion, unless the player's hp is full.
HandleUseItem ==
  /\ Runs(roomQueue, "use") /\ NextRoomJob
  /\ LET l == roomQueue[1].life
         id == inventory[l][roomQueue[1].slot]
     IN  IF id = None \/ made[id].kind # "potion" THEN UNCHANGED <<inventory, dbQueue>>
         ELSE Erase(l, roomQueue[1].slot) \/ UNCHANGED <<inventory, dbQueue>>
  /\ UNCHANGED <<login, equipped, table, shadow, collided, torn>> /\ NoteOverlap

\* Player::HandleDropItemPacket
HandleDropItem ==
  /\ Runs(roomQueue, "drop") /\ NextRoomJob
  /\ LET l == roomQueue[1].life
     IN  IF inventory[l][roomQueue[1].slot] = None THEN UNCHANGED <<inventory, dbQueue>>
         ELSE Erase(l, roomQueue[1].slot)
  /\ UNCHANGED <<login, equipped, table, shadow, collided, torn>> /\ NoteOverlap

\* The last step of a reward: Inventory::Add, over whatever has the slot.
AddReward ==
  /\ Runs(roomQueue, "add") /\ NextRoomJob
  /\ LET l == roomQueue[1].life
         s == made[roomQueue[1].id].slot
     IN  /\ inventory' = [inventory EXCEPT ![l][s] = roomQueue[1].id]
         /\ shadow' = IF l = last THEN shadow \cup ({inventory[l][s]} \ {None})
                      ELSE shadow
  /\ UNCHANGED <<login, equipped, table, dbQueue, collided, torn, overlap>>
-----------------------------------------------------------------------------
(* The jobs of DBSerializer.                                               *)

NextDbJob == dbQueue' = Tail(dbQueue)

\* INSERT, and the room is told the new id.
InsertReward ==
  /\ Runs(dbQueue, "insert") /\ NextDbJob
  /\ LET job == dbQueue[1]
         id == Len(made) + 1
     IN  /\ made' = Append(made, [kind |-> job.kind, slot |-> job.slot])
         /\ rows' = rows \cup {id}
         /\ roomQueue' = Append(roomQueue, [op |-> "add", life |-> job.life, id |-> id])
         /\ collided' = (collided \/ \E i \in rows : made[i].slot = job.slot)
  /\ UNCHANGED <<login, memory, worn, shadow, torn, overlap>>

\* DBSerializer::EquipItemNoti: UPDATE to what the item in memory says by now.
UpdateEquipped ==
  /\ Runs(dbQueue, "equip") /\ NextDbJob
  /\ LET job == dbQueue[1]
     IN  worn' = IF job.id \in equipped[job.life] THEN worn \cup (rows \cap {job.id})
                 ELSE worn \ {job.id}
  /\ UNCHANGED <<login, memory, made, rows, roomQueue, shadow, collided, torn, overlap>>

\* DBSerializer::DropItemNoti: DELETE
DeleteItem ==
  /\ Runs(dbQueue, "delete") /\ NextDbJob
  /\ rows' = rows \ {dbQueue[1].id} /\ worn' = worn \ {dbQueue[1].id}
  /\ UNCHANGED <<login, memory, made, roomQueue, shadow, collided, torn, overlap>>

\* A statement fails: what is thrown is a pointer that nobody catches.
Crash ==
  /\ dbQueue # <<>>
  /\ life' = [l \in Lives |-> IF life[l] = "made" THEN "lost" ELSE life[l]]
  /\ last' = None
  /\ inventory' = NoItems /\ equipped' = [l \in Lives |-> {}]
  /\ roomQueue' = <<>> /\ dbQueue' = <<>> /\ shadow' = {}
  /\ torn' = (torn \/ Count(dbQueue, "equip") > 0)
  /\ UNCHANGED <<table, collided, overlap>>

Next ==
  \/ \E l \in Lives : HandleEnterGame(l) \/ HandlePacket(l) \/ SavePlayerReward(l)
  \/ HandleEquipItem \/ HandleUseItem \/ HandleDropItem \/ AddReward
  \/ InsertReward \/ UpdateEquipped \/ DeleteItem \/ Crash


Spec == Init /\ [][Next]_vars
-----------------------------------------------------------------------------
(* Properties.                                                             *)

Waiting(q, op) == {q[i].id : i \in {j \in DOMAIN q : q[j].op = op /\ q[j].life = last}}

\* The rows, once the jobs that wait have run, are what the player of the last
\* login has, will be given or had his slot taken of, and say of it what he
\* wears; unless an older Player object changed rows that he had read
\* (GameSession.cpp:307, DBSerializer.cpp:33-130, Player.cpp:79-197).
Agree ==
  (last # None /\ ~overlap) =>
    /\ rows \ Waiting(dbQueue, "delete") =
         Held(last) \cup shadow \cup Waiting(roomQueue, "add")
    /\ \A id \in Held(last) \ Waiting(dbQueue, "equip") :
         id \in worn <=> id \in equipped[last]

\* The player never wears two weapons or two armors of one type, and the rows
\* say so no longer than EquipItemNoti jobs wait: such a job writes what the item
\* says when it runs, so it may put one on before another is off.  Excepted is
\* what follows when the process died then, when two kills had chosen one slot,
\* or when lives overlapped (Player.cpp:98-138, DBSerializer.cpp:93).
NoTwo(ids) == \A id, other \in ids : SameGroup(id, other) => id = other
OneEquipped ==
  ~(overlap \/ collided \/ torn) =>
    /\ Count(dbQueue, "equip") = 0 => NoTwo(worn)
    /\ last # None => NoTwo(equipped[last] \cap Held(last))
=============================================================================
