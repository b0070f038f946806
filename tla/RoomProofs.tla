----------------------------- MODULE RoomProofs -----------------------------
(***************************************************************************)
(* Theorems about the room, its Zones and the search on its map, for       *)
(* every map, any players, monsters and arrows, and any packets, answers   *)
(* and breaks of connections.                                              *)
(*                                                                         *)
(* The Zones cover the map, and the Zones GetAdjacentZones returns cover   *)
(* the view.  What FindPath returns can be walked, and leads to the        *)
(* destination if anything does.                                           *)
(*                                                                         *)
(* The room keeps its types, and what a client was shown it knows: Well,   *)
(* the two together, is inductive.  That an arrow hits once, and that      *)
(* nobody is left without an update to come, are not; RoomFine adds what   *)
(* they rest on:                                                           *)
(*   - HeldTicks: the jobs that a handle names are updates of players and  *)
(*     monsters, so cancelling one loses no Enter, no Leave and no arrow;  *)
(*   - ArrowFine: the jobs of an arrow come in turn.  No update is under   *)
(*     way before its Enter has run, there is one at most from then on,    *)
(*     and once it has hit, its Leave is in the queue before that update,  *)
(*     which then finds no owner and does nothing;                         *)
(*   - ActorFine: the reserved job of a player in the room, and of a       *)
(*     monster that lives, is with the timer or in the queue under its     *)
(*     handle.  The jobs that lost their handle do not count: it is the    *)
(*     named one that each update renews.                                  *)
(*                                                                         *)
(* That everybody has one place, that who left is gone and that nothing    *)
(* meets who is not there rests on Ordered, next to RoomFine, which leaves *)
(* out whom something overtook in OnDeadAnim (raced):                      *)
(*   - Sound: the grid, the positions and the Zones agree about everybody  *)
(*     but players with a job pushed after their Leave, who is in the room *)
(*     has its pointer, and a player's view has one update, under its      *)
(*     handle, and only while he is present;                               *)
(*   - InSession: no job of a player who has not joined is in the queue    *)
(*     but maybe his Leave, a session that is not over has pushed no       *)
(*     Leave, and after the Leave no other job of his comes; Placed says   *)
(*     what that makes of him, in the room or, while an OnDeadAnim has     *)
(*     taken him out and not yet brought him back (Away), outside it;      *)
(*   - Answering: an answer under way is the only one for its object, no   *)
(*     Enter of it is in the queue, and it is present until its Leave;     *)
(* and a fault has a race before it.  Who answers the deaths of whom, and  *)
(* what else the clients send, does not matter.                            *)
(*                                                                         *)
(* A room is a record of many fields, so each operator of Room first has   *)
(* a lemma that says what it does to five parts of the room; then come     *)
(* lemmas about each job and each step of a session, and the invariants.   *)
(***************************************************************************)
EXTENDS Room, PathFinding, FiniteSetTheorems, TLAPS

\* What division by a positive number is.
LEMMA Division ==
  ASSUME NEW x \in Nat, NEW n \in Nat \ {0}
  PROVE  /\ x \div n \in Nat
         /\ n * (x \div n) <= x
         /\ x < n * (x \div n) + n
OBVIOUS

\* A quotient is at most k when the number is less than k + 1 times n.
LEMMA QuotientAtMost ==
  ASSUME NEW q \in Int, NEW k \in Int, NEW n \in Nat \ {0}, n * q < n * k + n
  PROVE  q <= k
<1>1. n * (q - k - 1) < 0
  OBVIOUS
<1>2. CASE q - k - 1 >= 0
  <2>1. n * (q - k - 1) >= 0
    BY <1>2
  <2>. QED  BY <1>1, <2>1
<1>. QED  BY <1>2

\* Division is monotone.
LEMMA DivisionMonotone ==
  ASSUME NEW x \in Nat, NEW y \in Nat, NEW n \in Nat \ {0}, x <= y
  PROVE  x \div n <= y \div n
<1>1. /\ x \div n \in Nat /\ n * (x \div n) <= x
      /\ y \div n \in Nat /\ y < n * (y \div n) + n
  BY Division
<1>2. n * (x \div n) < n * (y \div n) + n
  <2> DEFINE a == n * (x \div n)
             b == n * (y \div n)
  <2>1. a \in Int /\ b \in Int /\ a <= x /\ y < b + n
    BY <1>1
  <2>2. a < b + n
    <3> HIDE DEF a, b
    <3>. QED  BY <2>1
  <2>. QED  BY <2>2
<1>. QED  BY <1>1, <1>2, QuotientAtMost

\* Adding n to a number adds 1 to its quotient by n.
LEMMA NextQuotient ==
  ASSUME NEW x \in Nat, NEW n \in Nat \ {0}
  PROVE  (x + n) \div n >= x \div n + 1
<1> DEFINE q == x \div n
           k == (x + n) \div n
<1>1. /\ q \in Nat /\ n * q <= x
      /\ k \in Nat /\ x + n < n * k + n
  BY Division
<1> HIDE DEF q, k
<1>2. n * (q + 1) < n * k + n
  <2>1. n * (q + 1) = n * q + n
    BY <1>1
  <2>. QED  BY <1>1, <2>1
<1>3. q + 1 <= k
  BY <1>1, <1>2, QuotientAtMost
<1>. QED  BY <1>1, <1>3 DEF q, k

\* Rounding toward zero, as C++ does, keeps the order too.
LEMMA ZoneQuotientMonotone ==
  ASSUME NEW x \in Int, NEW y \in Int, x <= y
  PROVE  /\ ZoneQuotient(x) \in Int /\ ZoneQuotient(y) \in Int
         /\ ZoneQuotient(x) <= ZoneQuotient(y)
<1>. USE ZoneSizeAssumption
<1>1. CASE x >= 0
  <2>1. /\ ZoneQuotient(x) = x \div ZoneSize
        /\ ZoneQuotient(y) = y \div ZoneSize
    BY <1>1 DEF ZoneQuotient
  <2>2. x \div ZoneSize \in Nat /\ y \div ZoneSize \in Nat
    BY <1>1, Division
  <2>. QED  BY <1>1, <2>1, <2>2, DivisionMonotone
<1>2. CASE y < 0
  <2>1. /\ ZoneQuotient(x) = -((-x) \div ZoneSize)
        /\ ZoneQuotient(y) = -((-y) \div ZoneSize)
    BY <1>2 DEF ZoneQuotient
  <2>2. (-x) \div ZoneSize \in Nat /\ (-y) \div ZoneSize \in Nat
    BY <1>2, Division
  <2>3. (-y) \div ZoneSize <= (-x) \div ZoneSize
    BY <1>2, DivisionMonotone
  <2>. QED  BY <2>1, <2>2, <2>3
<1>3. CASE x < 0 /\ y >= 0
  <2>1. /\ ZoneQuotient(x) = -((-x) \div ZoneSize)
        /\ ZoneQuotient(y) = y \div ZoneSize
    BY <1>3 DEF ZoneQuotient
  <2>2. (-x) \div ZoneSize \in Nat /\ y \div ZoneSize \in Nat
    BY <1>3, Division
  <2>. QED  BY <2>1, <2>2
<1>. QED  BY <1>1, <1>2, <1>3

\* Every cell of the map is in a Zone that Room::SearchInit made, so that GetZone
\* never returns the null that Enter, ApplyLeave and SetCurrentZone would use
\* (Room.cpp:26-27, 91, 217-223; Map.cpp:97, 131-132).
THEOREM CellsAreZoned == \A c \in Cell : ZoneOf(c) \in Zone
<1>. USE ZoneSizeAssumption, BoundsAssumption
<1>1. ASSUME NEW d \in Nat, NEW D \in Nat, d <= D
      PROVE  ZoneQuotient(d) \in 0 .. ZoneQuotient(D + ZoneSize) - 1
  <2>1. /\ ZoneQuotient(d) = d \div ZoneSize
        /\ ZoneQuotient(D + ZoneSize) = (D + ZoneSize) \div ZoneSize
    BY <1>1 DEF ZoneQuotient
  <2>2. /\ d \div ZoneSize \in Nat /\ D \div ZoneSize \in Nat
        /\ (D + ZoneSize) \div ZoneSize \in Nat
    BY Division
  <2>3. d \div ZoneSize <= D \div ZoneSize
    BY <1>1, DivisionMonotone
  <2>4. (D + ZoneSize) \div ZoneSize >= D \div ZoneSize + 1
    BY NextQuotient
  <2>. QED  BY <2>1, <2>2, <2>3, <2>4
<1>2. TAKE c \in Cell
<1>3. /\ c[1] - MinX \in Nat /\ MaxX - MinX \in Nat /\ c[1] - MinX <= MaxX - MinX
      /\ MaxY - c[2] \in Nat /\ MaxY - MinY \in Nat /\ MaxY - c[2] <= MaxY - MinY
  BY DEF Cell
<1>4. /\ Column(c[1]) \in 0 .. ZoneQuotient(MaxX - MinX + ZoneSize) - 1
      /\ Row(c[2]) \in 0 .. ZoneQuotient(MaxY - MinY + ZoneSize) - 1
  BY <1>1, <1>3 DEF Column, Row
<1>. QED  BY <1>4 DEF ZoneOf, Zone

\* Whoever is near a cell is in one of the Zones adjacent to it: a broadcast, a
\* view and a search that look only there miss nobody in range, at the borders
\* of the map too, where the division rounds a negative number up
\* (Room.cpp:193-207, 302-334; ViewCube.cpp:82-132).
THEOREM NearIsAdjacent ==
  \A a, b \in Cell : Near(a, b) => ZoneOf(b) \in AdjacentZones(a)
<1>. USE BoundsAssumption, RangeAssumption
<1>1. SUFFICES ASSUME NEW a \in Cell, NEW b \in Cell, Near(a, b)
               PROVE  ZoneOf(b) \in AdjacentZones(a)
  OBVIOUS
<1>2. a[1] \in Int /\ a[2] \in Int /\ b[1] \in Int /\ b[2] \in Int
  BY DEF Cell
<1>3. /\ a[1] - ViewRange <= b[1] /\ b[1] <= a[1] + ViewRange
      /\ a[2] - ViewRange <= b[2] /\ b[2] <= a[2] + ViewRange
  BY <1>1, <1>2 DEF Near, Abs
<1>4. /\ Column(b[1]) \in Column(a[1] - ViewRange) .. Column(a[1] + ViewRange)
  <2>1. /\ (a[1] - ViewRange) - MinX <= b[1] - MinX
        /\ b[1] - MinX <= (a[1] + ViewRange) - MinX
    BY <1>2, <1>3
  <2>. QED  BY <1>2, <2>1, ZoneQuotientMonotone DEF Column
<1>5. Row(b[2]) \in Row(a[2] + ViewRange) .. Row(a[2] - ViewRange)
  <2>1. /\ MaxY - (a[2] + ViewRange) <= MaxY - b[2]
        /\ MaxY - b[2] <= MaxY - (a[2] - ViewRange)
    BY <1>2, <1>3
  <2>. QED  BY <1>2, <2>1, ZoneQuotientMonotone DEF Row
<1>6. ZoneOf(b) \in Zone
  BY CellsAreZoned
<1>. QED  BY <1>4, <1>5, <1>6 DEF AdjacentZones, ZoneOf

-----------------------------------------------------------------------------
(* FindPath.  What geometry there is in a neighbour or a heuristic does    *)
(* not matter: the facts are about the tree that parent makes.             *)

\* parent is a tree with Start as its root, and every child was found later.
Tree ==
  /\ Start \in DOMAIN parent /\ parent[Start] = Start
  /\ \A n \in DOMAIN parent \ {Start} :
       /\ parent[n] \in DOMAIN parent
       /\ n \in Neighbours(parent[n]) /\ Usable(n)
       /\ rank[parent[n]] < rank[n]
  /\ \A n \in DOMAIN parent : rank[n] <= round

\* A cell in the tree is open or closed, a closed one has its neighbours in the
\* tree; that Start is not found again is because it is closed first.
Searched ==
  /\ DOMAIN parent = seen \cup {Start}
  /\ DOMAIN parent = open \cup closed /\ open \cap closed = {}
  /\ Start \in closed \/ open = {Start}
  /\ Dest \notin closed
  /\ \A c \in closed : \A n \in Neighbours(c) : Usable(n) => n \in DOMAIN parent

\* The path goes up the tree from the goal to cur.
Walked ==
  /\ phase = "search" => path = <<>>
  /\ phase # "search" =>
       /\ cur \in DOMAIN parent
       /\ open = {} \/ Dest \in open
       /\ Dest \in DOMAIN parent => IF path = <<>> THEN cur = Dest ELSE path[Len(path)] = Dest
  /\ phase = "done" => parent[cur] = cur
  /\ \A i \in 1 .. Len(path) :
       /\ path[i] \in DOMAIN parent \ {Start}
       /\ parent[path[i]] = IF i = 1 THEN cur ELSE path[i - 1]
       /\ rank[cur] < rank[path[i]]
  /\ \A i, j \in 1 .. Len(path) : i < j => rank[path[i]] < rank[path[j]]

PathInv == SearchTypeOK /\ Tree /\ Searched /\ Walked

LEMMA PathInit ==
  ASSUME SearchInit
  PROVE  PathInv
<1>1. SearchTypeOK
  BY DEF SearchInit, SearchTypeOK, Places
<1>2. Tree /\ Searched
  BY DEF SearchInit, Tree, Searched
<1>3. Walked
  BY DEF SearchInit, Walked
<1>. QED
  BY <1>1, <1>2, <1>3 DEF PathInv

\* The cells that Expand adds to the tree are new to it.
LEMMA ExpandAdds ==
  ASSUME PathInv, NEW c \in Places, Expand(c)
  PROVE  /\ c \in DOMAIN parent /\ c \notin closed
         /\ New(c) \cap DOMAIN parent = {}
         /\ New(c) \subseteq Places
         /\ DOMAIN parent' = DOMAIN parent \cup New(c)
         /\ DOMAIN rank' = DOMAIN parent \cup New(c)
         /\ \A n \in DOMAIN parent : parent'[n] = parent[n] /\ rank'[n] = rank[n]
         /\ \A n \in New(c) : parent'[n] = c /\ rank'[n] = round + 1
<1>1. c \in DOMAIN parent /\ c \notin closed
  BY DEF PathInv, Searched, Expand, Top
<1>2. New(c) \cap DOMAIN parent = {}
  BY DEF PathInv, Searched, Expand, Top, New
<1>3. New(c) \subseteq Places
  BY DEF New, Usable, Places
<1>4. /\ parent' = [n \in DOMAIN parent \cup New(c) |-> IF n \in New(c) THEN c ELSE parent[n]]
      /\ rank' = [n \in DOMAIN parent \cup New(c) |-> IF n \in New(c) THEN round + 1 ELSE rank[n]]
  BY DEF Expand
<1>. QED
  BY <1>1, <1>2, <1>3, <1>4

LEMMA ExpandKeeps ==
  ASSUME PathInv, NEW c \in Places, Expand(c)
  PROVE  PathInv'
<1>. DEFINE N == New(c)
<1>1. /\ c \in DOMAIN parent /\ c \notin closed
      /\ N \cap DOMAIN parent = {}
      /\ N \subseteq Places
      /\ DOMAIN parent' = DOMAIN parent \cup N
      /\ DOMAIN rank' = DOMAIN parent \cup N
      /\ \A n \in DOMAIN parent : parent'[n] = parent[n] /\ rank'[n] = rank[n]
      /\ \A n \in N : parent'[n] = c /\ rank'[n] = round + 1
  BY ExpandAdds
<1>2. /\ phase = "search" /\ c # Dest /\ c \in open
      /\ open' = (open \ {c}) \cup N /\ closed' = closed \cup {c} /\ seen' = seen \cup N
      /\ round' = round + 1 /\ phase' = phase /\ cur' = cur /\ path' = path
      /\ parent' = [n \in DOMAIN parent \cup N |-> IF n \in N THEN c ELSE parent[n]]
      /\ rank' = [n \in DOMAIN parent \cup N |-> IF n \in N THEN round' ELSE rank[n]]
  BY DEF Expand, Top
<1>3. \A n \in N : n \in Neighbours(c) /\ Usable(n)
  BY DEF New
<1>4. \A n \in Neighbours(c) : Usable(n) => n \in N \/ n \in seen \cup closed \cup {c}
  BY DEF New
<1>. HIDE DEF N
<1>5. SearchTypeOK'
  <2>1. /\ open' \subseteq Places /\ closed' \subseteq Places /\ seen' \subseteq Places
        /\ DOMAIN parent' \subseteq Places
    BY <1>1, <1>2 DEF PathInv, SearchTypeOK
  <2>2. parent' \in [DOMAIN parent' -> Places]
    BY <1>1, <1>2 DEF PathInv, SearchTypeOK
  <2>3. rank' \in [DOMAIN parent' -> Nat]
    BY <1>1, <1>2 DEF PathInv, SearchTypeOK
  <2>. QED
    BY <1>2, <2>1, <2>2, <2>3 DEF PathInv, SearchTypeOK
<1>6. Tree'
  <2>1. Start \in DOMAIN parent' /\ parent'[Start] = Start
    BY <1>1 DEF PathInv, Tree
  <2>2. ASSUME NEW n \in DOMAIN parent' \ {Start}
        PROVE  /\ parent'[n] \in DOMAIN parent'
               /\ n \in Neighbours(parent'[n]) /\ Usable(n)
               /\ rank'[parent'[n]] < rank'[n]
    <3>1. CASE n \in N
      <4>1. rank[c] \in Nat /\ rank[c] <= round /\ round \in Nat
        BY <1>1 DEF PathInv, Tree, SearchTypeOK
      <4>. QED
        BY <1>1, <1>3, <3>1, <4>1
    <3>2. CASE n \notin N
      <4>1. n \in DOMAIN parent \ {Start} /\ parent[n] \in DOMAIN parent
        BY <1>1, <3>2 DEF PathInv, Tree
      <4>. QED
        BY <1>1, <4>1 DEF PathInv, Tree
    <3>. QED
      BY <3>1, <3>2
  <2>3. ASSUME NEW n \in DOMAIN parent' PROVE rank'[n] <= round'
    BY <1>1, <1>2 DEF PathInv, Tree, SearchTypeOK
  <2>. QED
    BY <2>1, <2>2, <2>3 DEF Tree
<1>7. Searched'
  <2>1. /\ DOMAIN parent' = seen' \cup {Start}
        /\ DOMAIN parent' = open' \cup closed' /\ open' \cap closed' = {}
    BY <1>1, <1>2 DEF PathInv, Searched
  <2>2. Start \in closed' /\ Dest \notin closed'
    BY <1>1, <1>2 DEF PathInv, Searched
  <2>3. ASSUME NEW d \in closed', NEW n \in Neighbours(d), Usable(n)
        PROVE  n \in DOMAIN parent'
    BY <1>1, <1>2, <1>4, <2>3 DEF PathInv, Searched
  <2>. QED
    BY <2>1, <2>2, <2>3 DEF Searched
<1>8. Walked'
  <2>1. path = <<>> /\ path' = <<>> /\ phase' = "search"
    BY <1>2 DEF PathInv, Walked
  <2>. QED
    BY <2>1 DEF Walked
<1>. QED
  BY <1>5, <1>6, <1>7, <1>8 DEF PathInv

\* Up the tree to a cell that was found earlier.
LEMMA WalkClimbs ==
  ASSUME PathInv, Walk
  PROVE  /\ cur \in DOMAIN parent \ {Start}
         /\ cur' = parent[cur] /\ cur' \in DOMAIN parent
         /\ rank[cur'] < rank[cur]
         /\ Len(path') = Len(path) + 1
         /\ path'[1] = cur
         /\ \A i \in 2 .. Len(path') : path'[i] = path[i - 1]
         /\ path' \in Seq(Places)
<1>1. /\ phase = "walk" /\ parent[cur] # cur /\ cur' = parent[cur]
      /\ path' = <<cur>> \o path
  BY DEF Walk
<1>2. cur \in DOMAIN parent \ {Start}
  BY <1>1 DEF PathInv, Walked, Tree
<1>3. cur' \in DOMAIN parent /\ rank[cur'] < rank[cur]
  BY <1>1, <1>2 DEF PathInv, Tree
<1>4. path \in Seq(Places) /\ cur \in Places
  BY DEF PathInv, SearchTypeOK
<1>5. /\ path' \in Seq(Places)
      /\ Len(path') = Len(path) + 1
      /\ path'[1] = cur
      /\ \A i \in 2 .. Len(path') : path'[i] = path[i - 1]
  BY <1>1, <1>4
<1>. QED
  BY <1>1, <1>2, <1>3, <1>5

LEMMA WalkKeeps ==
  ASSUME PathInv, Walk
  PROVE  PathInv'
<1>1. /\ cur \in DOMAIN parent \ {Start}
      /\ cur' = parent[cur] /\ cur' \in DOMAIN parent
      /\ rank[cur'] < rank[cur]
      /\ Len(path') = Len(path) + 1
      /\ path'[1] = cur
      /\ \A i \in 2 .. Len(path') : path'[i] = path[i - 1]
      /\ path' \in Seq(Places)
  BY WalkClimbs
<1>2. /\ phase = "walk" /\ phase' = phase /\ open' = open /\ closed' = closed /\ seen' = seen
      /\ parent' = parent /\ round' = round /\ rank' = rank
  BY DEF Walk
<1>3. SearchTypeOK'
  BY <1>1, <1>2 DEF PathInv, SearchTypeOK
<1>4. Tree' /\ Searched'
  BY <1>2 DEF PathInv, Tree, Searched
<1>5. Walked'
  <2>1. path \in Seq(Places) /\ Len(path) \in Nat
    BY DEF PathInv, SearchTypeOK
  <2>2. \A n \in DOMAIN parent : rank[n] \in Nat
    BY DEF PathInv, SearchTypeOK
  <2>3. path' # <<>>
    BY <1>1, <2>1
  <2>4. Dest \in DOMAIN parent => path'[Len(path')] = Dest
    <3>1. CASE Len(path) = 0
      <4>1. path = <<>>
        BY <2>1, <3>1
      <4>. QED
        BY <1>1, <1>2, <3>1, <4>1 DEF PathInv, Walked
    <3>2. CASE Len(path) # 0
      <4>1. path # <<>> /\ path'[Len(path')] = path[Len(path)]
        BY <1>1, <2>1, <3>2
      <4>. QED
        BY <1>2, <4>1 DEF PathInv, Walked
    <3>. QED
      BY <3>1, <3>2
  <2>5. ASSUME NEW i \in 1 .. Len(path')
        PROVE  /\ path'[i] \in DOMAIN parent \ {Start}
               /\ parent[path'[i]] = IF i = 1 THEN cur' ELSE path'[i - 1]
               /\ rank[cur'] < rank[path'[i]]
    <3>1. CASE i = 1
      BY <1>1, <3>1
    <3>2. CASE i # 1
      <4>1. i \in 2 .. Len(path') /\ i - 1 \in 1 .. Len(path)
        BY <1>1, <2>1, <3>2
      <4>2. /\ path[i - 1] \in DOMAIN parent \ {Start}
            /\ parent[path[i - 1]] = IF i - 1 = 1 THEN cur ELSE path[(i - 1) - 1]
            /\ rank[cur] < rank[path[i - 1]]
        BY <4>1 DEF PathInv, Walked
      <4>3. path'[i] = path[i - 1]
        BY <1>1, <4>1
      <4>4. path'[i - 1] = IF i - 1 = 1 THEN cur ELSE path[(i - 1) - 1]
        <5>1. CASE i = 2
          BY <1>1, <5>1
        <5>2. CASE i # 2
          BY <1>1, <2>1, <4>1, <5>2
        <5>. QED
          BY <5>1, <5>2
      <4>5. rank[cur'] < rank[path[i - 1]]
        BY <1>1, <2>2, <4>2
      <4>. QED
        BY <3>2, <4>2, <4>3, <4>4, <4>5
    <3>. QED
      BY <3>1, <3>2
  <2>6. ASSUME NEW i \in 1 .. Len(path'), NEW j \in 1 .. Len(path'), i < j
        PROVE  rank[path'[i]] < rank[path'[j]]
    <3>1. j \in 2 .. Len(path') /\ j - 1 \in 1 .. Len(path) /\ path'[j] = path[j - 1]
      BY <1>1, <2>1, <2>6
    <3>2. CASE i = 1
      BY <1>1, <3>1, <3>2 DEF PathInv, Walked
    <3>3. CASE i # 1
      <4>1. i - 1 \in 1 .. Len(path) /\ path'[i] = path[i - 1] /\ i - 1 < j - 1
        BY <1>1, <2>1, <2>6, <3>3
      <4>. QED
        BY <3>1, <4>1 DEF PathInv, Walked
    <3>. QED
      BY <3>2, <3>3
  <2>7. open = {} \/ Dest \in open
    BY <1>2 DEF PathInv, Walked
  <2>. QED
    BY <1>1, <1>2, <2>3, <2>4, <2>5, <2>6, <2>7 DEF Walked
<1>. QED
  BY <1>3, <1>4, <1>5 DEF PathInv

LEMMA PathStep ==
  ASSUME PathInv, [SearchNext]_searchVars
  PROVE  PathInv'
<1>1. CASE \E c \in Places : Expand(c)
  BY <1>1, ExpandKeeps
<1>2. CASE StartWalk
  <2>1. /\ phase = "search" /\ phase' = "walk" /\ cur' \in DOMAIN parent
        /\ Dest \in DOMAIN parent => cur' = Dest
        /\ open = {} \/ Dest \in open
        /\ open' = open /\ closed' = closed /\ seen' = seen /\ parent' = parent
        /\ path' = path /\ round' = round /\ rank' = rank
    BY <1>2 DEF StartWalk, Goal, Top
  <2>2. path = <<>>
    BY <2>1 DEF PathInv, Walked
  <2>3. SearchTypeOK' /\ Tree' /\ Searched'
    BY <2>1 DEF PathInv, SearchTypeOK, Tree, Searched
  <2>4. Walked'
    BY <2>1, <2>2 DEF Walked
  <2>. QED
    BY <2>3, <2>4 DEF PathInv
<1>3. CASE Walk
  BY <1>3, WalkKeeps
<1>4. CASE Return
  <2>1. /\ phase = "walk" /\ phase' = "done" /\ parent[cur] = cur
        /\ open' = open /\ closed' = closed /\ seen' = seen /\ parent' = parent
        /\ cur' = cur /\ path' = path /\ round' = round /\ rank' = rank
    BY <1>4 DEF Return
  <2>2. SearchTypeOK' /\ Tree' /\ Searched'
    BY <2>1 DEF PathInv, SearchTypeOK, Tree, Searched
  <2>3. Walked'
    BY <2>1 DEF PathInv, Walked
  <2>. QED
    BY <2>2, <2>3 DEF PathInv
<1>5. CASE UNCHANGED searchVars
  BY <1>5 DEF searchVars, PathInv, SearchTypeOK, Tree, Searched, Walked
<1>. QED
  BY <1>1, <1>2, <1>3, <1>4, <1>5, [SearchNext]_searchVars DEF SearchNext

LEMMA PathInvHolds == SearchSpec => []PathInv
<1>1. SearchInit => PathInv
  BY PathInit
<1>2. PathInv /\ [SearchNext]_searchVars => PathInv'
  BY PathStep
<1>. QED
  BY <1>1, <1>2, PTL DEF SearchSpec

LEMMA DoneAtStart ==
  ASSUME PathInv, phase = "done"
  PROVE  cur = Start
<1>1. cur \in DOMAIN parent /\ parent[cur] = cur /\ rank[cur] \in Nat
  BY DEF PathInv, Walked, SearchTypeOK
<1>. QED
  BY <1>1 DEF PathInv, Tree

\* FindPath returns a path that can be walked from Start without crossing a wall, an
\* object or itself (Map.cpp:191-289).
THEOREM PathsAreWalkable == SearchSpec => []PathWalkable
<1>1. ASSUME PathInv, phase = "done"
      PROVE  /\ path # <<>> => path[1] \in Neighbours(Start)
             /\ \A i \in 1 .. Len(path) - 1 : path[i + 1] \in Neighbours(path[i])
             /\ \A i \in 1 .. Len(path) : path[i] # Start /\ Usable(path[i])
             /\ \A i, j \in 1 .. Len(path) : path[i] = path[j] => i = j
  <2>1. cur = Start
    BY <1>1, DoneAtStart
  <2>2. path \in Seq(Places) /\ Len(path) \in Nat
    BY <1>1 DEF PathInv, SearchTypeOK
  <2>3. \A i \in 1 .. Len(path) :
          /\ path[i] \in DOMAIN parent \ {Start}
          /\ parent[path[i]] = IF i = 1 THEN cur ELSE path[i - 1]
    BY <1>1 DEF PathInv, Walked
  <2>4. \A n \in DOMAIN parent \ {Start} : n \in Neighbours(parent[n]) /\ Usable(n)
    BY <1>1 DEF PathInv, Tree
  <2>5. path # <<>> => path[1] \in Neighbours(Start)
    <3>1. path # <<>> => 1 \in 1 .. Len(path)
      BY <2>2
    <3>. QED
      BY <2>1, <2>3, <2>4, <3>1
  <2>6. ASSUME NEW i \in 1 .. Len(path) - 1 PROVE path[i + 1] \in Neighbours(path[i])
    <3>1. i + 1 \in 1 .. Len(path) /\ i + 1 # 1 /\ (i + 1) - 1 = i
      BY <2>2
    <3>. QED
      BY <2>3, <2>4, <3>1
  <2>7. \A i \in 1 .. Len(path) : path[i] # Start /\ Usable(path[i])
    BY <2>3, <2>4
  <2>8. ASSUME NEW i \in 1 .. Len(path), NEW j \in 1 .. Len(path), path[i] = path[j]
        PROVE  i = j
    <3>1. rank[path[i]] \in Nat
      BY <1>1, <2>3 DEF PathInv, SearchTypeOK
    <3>2. ~ (i < j) /\ ~ (j < i)
      BY <1>1, <2>8, <3>1 DEF PathInv, Walked
    <3>. QED
      BY <2>2, <3>2
  <2>. QED
    BY <2>5, <2>6, <2>7, <2>8
<1>2. PathInv => PathWalkable
  BY <1>1 DEF PathWalkable
<1>. QED
  BY <1>2, PathInvHolds, PTL

\* It leads to the destination if any way within max_distance does (Map.cpp:266-285).
THEOREM PathsAreFound == SearchSpec => []FoundIfReachable
<1>1. ASSUME PathInv, phase = "done", Dest \in DOMAIN parent PROVE LeadsToDest
  <2>1. cur = Start
    BY <1>1, DoneAtStart
  <2>. QED
    BY <1>1, <2>1 DEF PathInv, Walked, LeadsToDest
<1>2. ASSUME PathInv, phase = "done", Dest \notin DOMAIN parent
      PROVE  \E S \in SUBSET Places : Enclosed(S)
  <2>1. open = {}
    BY <1>2 DEF PathInv, Walked, Searched
  <2>2. Enclosed(DOMAIN parent)
    BY <1>2, <2>1 DEF PathInv, Searched, Tree, Enclosed
  <2>3. DOMAIN parent \in SUBSET Places
    BY <1>2 DEF PathInv, SearchTypeOK
  <2>. QED
    BY <2>2, <2>3
<1>3. PathInv => FoundIfReachable
  BY <1>1, <1>2 DEF FoundIfReachable
<1>. QED
  BY <1>3, PathInvHolds, PTL

\* And it ends: every step makes progress that cannot go on for ever
\* (Map.cpp:214-218, 246-286).
THEOREM SearchProgresses == SearchSpec => Progress
<1>1. ASSUME PathInv, [SearchNext]_searchVars
      PROVE  [ \/ phase' # phase
               \/ \E c \in Places \ closed : closed' = closed \cup {c}
               \/ rank[cur'] < rank[cur] ]_searchVars
  <2>1. CASE \E c \in Places : Expand(c)
    <3>1. PICK c \in Places : Expand(c)
      BY <2>1
    <3>2. c \notin closed /\ closed' = closed \cup {c}
      BY <1>1, <3>1, ExpandAdds DEF Expand
    <3>. QED
      BY <3>2
  <2>2. CASE StartWalk
    BY <2>2 DEF StartWalk
  <2>3. CASE Walk
    BY <1>1, <2>3, WalkClimbs
  <2>4. CASE Return
    BY <2>4 DEF Return
  <2>. QED
    BY <1>1, <2>1, <2>2, <2>3, <2>4 DEF SearchNext
<1>. QED
  BY <1>1, PathInvHolds, PTL DEF SearchSpec, Progress

-----------------------------------------------------------------------------
(* What the operators of Room do to the parts of a room.                   *)

\* The room in five parts: where everybody is, what the clients see, the fights,
\* the jobs, and the arrows.
PlaceOf(r) == <<r.present, r.inRoom, r.cell, r.grid, r.zone>>
ViewsOf(r) == <<r.prev, r.known, r.gone>>
FightOf(r) == <<r.dir, r.idle, r.hp, r.fsm, r.target, r.ready, r.deaths>>
JobsOf(r) == <<r.queue, r.held, r.stray>>
FlightOf(r) == <<r.owner, r.used, r.hits, r.fault>>

\* The room with one part replaced.
WithJobs(r, q, H, S) == [r EXCEPT !.queue = q, !.held = H, !.stray = S]
WithPlace(r, P, I, C, G, Z) ==
  [r EXCEPT !.present = P, !.inRoom = I, !.cell = C, !.grid = G, !.zone = Z]
WithViews(r, P, K, G) == [r EXCEPT !.prev = P, !.known = K, !.gone = G]
WithFight(r, D, I, H, F, T, R, X) ==
  [r EXCEPT !.dir = D, !.idle = I, !.hp = H, !.fsm = F, !.target = T, !.ready = R, !.deaths = X]
WithFlight(r, O, U, H, F) == [r EXCEPT !.owner = O, !.used = U, !.hits = H, !.fault = F]

\* The fields of a job.
LEMMA JobIs == ASSUME NEW j \in Job PROVE j.op \in Op /\ j.obj \in Object /\ j.held \in BOOLEAN
BY DEF Job

\* A job that is pushed is a job, and no handle names it.
LEMMA NewJobIs ==
  ASSUME NEW op \in Op, NEW o \in Object
  PROVE  /\ NewJob(op, o) \in Job
         /\ NewJob(op, o).op = op /\ NewJob(op, o).obj = o /\ NewJob(op, o).held = FALSE
BY DEF Job, NewJob

\* A queue with the handle of o taken away differs from it in `held` alone.
LEMMA UnnamedIs ==
  ASSUME NEW q \in Seq(Job), NEW o \in Object
  PROVE  /\ Unnamed(q, o) \in Seq(Job) /\ DOMAIN Unnamed(q, o) = DOMAIN q
         /\ \A i \in DOMAIN q : 
              /\ Unnamed(q, o)[i].op = q[i].op /\ Unnamed(q, o)[i].obj = q[i].obj
              /\ Unnamed(q, o)[i].held = (q[i].held /\ q[i].obj # o)
              /\ q[i].obj # o => Unnamed(q, o)[i] = q[i]
<1>1. \A i \in DOMAIN q : q[i] \in Job
  OBVIOUS
<1>2. \A i \in DOMAIN q : Unnamed(q, o)[i] \in Job
  BY <1>1 DEF Job, Unnamed
<1>3. DOMAIN Unnamed(q, o) = 1 .. Len(q) /\ Len(q) \in Nat
  BY DEF Unnamed
<1>4. Unnamed(q, o) \in Seq(Job)
  BY <1>2, <1>3 DEF Unnamed
<1> QED BY <1>1, <1>3, <1>4 DEF Unnamed, Job

\* A queue with the job of o emptied differs from it in that job alone.
LEMMA EmptiedIs ==
  ASSUME NEW q \in Seq(Job), NEW o \in Object
  PROVE  /\ Emptied(q, o) \in Seq(Job) /\ DOMAIN Emptied(q, o) = DOMAIN q
         /\ \A i \in DOMAIN q : 
              /\ Emptied(q, o)[i].obj = q[i].obj
              /\ Emptied(q, o)[i] = IF q[i].obj = o /\ q[i].held THEN NewJob("none", o) ELSE q[i]
<1>1. \A i \in DOMAIN q : q[i] \in Job
  OBVIOUS
<1>2. \A i \in DOMAIN q : Emptied(q, o)[i] \in Job
  BY <1>1, NewJobIs DEF Emptied, Op
<1>3. DOMAIN Emptied(q, o) = 1 .. Len(q) /\ Len(q) \in Nat
  BY DEF Emptied
<1>4. Emptied(q, o) \in Seq(Job)
  BY <1>2, <1>3 DEF Emptied
<1> QED BY <1>1, <1>3, <1>4 DEF Emptied, NewJob

\* Other jobs leave the other four parts alone.
LEMMA PutJobs ==
  ASSUME NEW r \in RoomType, NEW q \in Seq(Job), NEW H \in SUBSET Object, NEW S \in [Object -> Nat],
         NEW s, s = WithJobs(r, q, H, S)
  PROVE  /\ s \in RoomType /\ s.queue = q /\ s.held = H /\ s.stray = S
         /\ PlaceOf(s) = PlaceOf(r) /\ ViewsOf(s) = ViewsOf(r)
         /\ FightOf(s) = FightOf(r) /\ FlightOf(s) = FlightOf(r)
BY ZenonT(40) DEF WithJobs, RoomType, PlaceOf, ViewsOf, FightOf, FlightOf

\* So do other places.
LEMMA PutPlace ==
  ASSUME NEW r \in RoomType, NEW P \in SUBSET Object, NEW I \in SUBSET Object,
         NEW C \in [Object -> Cell], NEW G \in [Cell -> Object \cup {None}],
         NEW Z \in [Zone -> SUBSET Object],
         NEW s, s = WithPlace(r, P, I, C, G, Z)
  PROVE  /\ s \in RoomType /\ PlaceOf(s) = <<P, I, C, G, Z>>
         /\ JobsOf(s) = JobsOf(r) /\ ViewsOf(s) = ViewsOf(r)
         /\ FightOf(s) = FightOf(r) /\ FlightOf(s) = FlightOf(r)
BY ZenonT(40) DEF WithPlace, RoomType, PlaceOf, ViewsOf, FightOf, FlightOf, JobsOf

\* So do other views.
LEMMA PutViews ==
  ASSUME NEW r \in RoomType, NEW P \in [Players -> SUBSET Object],
         NEW K \in [Players -> SUBSET Object], NEW G \in SUBSET Object,
         NEW s, s = WithViews(r, P, K, G)
  PROVE  /\ s \in RoomType /\ ViewsOf(s) = <<P, K, G>>
         /\ JobsOf(s) = JobsOf(r) /\ PlaceOf(s) = PlaceOf(r)
         /\ FightOf(s) = FightOf(r) /\ FlightOf(s) = FlightOf(r)
BY ZenonT(40) DEF WithViews, RoomType, PlaceOf, ViewsOf, FightOf, FlightOf, JobsOf

\* So does a fight.
LEMMA PutFight ==
  ASSUME NEW r \in RoomType, NEW D \in [Players \cup Arrows -> Dir], NEW I \in SUBSET Players,
         NEW H \in [Actor -> 0 .. MaxHp], NEW F \in [Monsters -> {"IDLE", "MOVING", "SKILL"}],
         NEW T \in [Monsters -> Players \cup {None}], NEW R \in SUBSET Monsters,
         NEW X \in SUBSET (Players \X Actor),
         NEW s, s = WithFight(r, D, I, H, F, T, R, X)
  PROVE  /\ s \in RoomType /\ FightOf(s) = <<D, I, H, F, T, R, X>>
         /\ JobsOf(s) = JobsOf(r) /\ PlaceOf(s) = PlaceOf(r)
         /\ ViewsOf(s) = ViewsOf(r) /\ FlightOf(s) = FlightOf(r)
BY ZenonT(40) DEF WithFight, RoomType, PlaceOf, ViewsOf, FightOf, FlightOf, JobsOf

\* So does the flight of an arrow.
LEMMA PutFlight ==
  ASSUME NEW r \in RoomType, NEW O \in [Arrows -> Players \cup {None}], NEW U \in SUBSET Arrows,
         NEW H \in [Arrows -> Nat], NEW F \in BOOLEAN,
         NEW s, s = WithFlight(r, O, U, H, F)
  PROVE  /\ s \in RoomType /\ FlightOf(s) = <<O, U, H, F>>
         /\ JobsOf(s) = JobsOf(r) /\ PlaceOf(s) = PlaceOf(r)
         /\ ViewsOf(s) = ViewsOf(r) /\ FightOf(s) = FightOf(r)
BY ZenonT(40) DEF WithFlight, RoomType, PlaceOf, ViewsOf, FightOf, FlightOf, JobsOf

\* What the operators on reserved jobs replace.
LEMMA LoseHandleIs ==
  ASSUME NEW r \in RoomType, NEW o \in Object
  PROVE  LoseHandle(r, o) =
           WithJobs(r, Unnamed(r.queue, o), r.held \ {o},
                    [r.stray EXCEPT ![o] = IF o \in r.held THEN @ + 1 ELSE @])
BY DEF WithJobs, LoseHandle, RoomType

\* Job::Cancel replaces jobs only (Job.cpp:4-7).
LEMMA CancelIs ==
  ASSUME NEW r \in RoomType, NEW o \in Object
  PROVE  Cancel(r, o) = WithJobs(r, Emptied(r.queue, o), r.held \ {o}, r.stray)
BY DEF WithJobs, Cancel, RoomType

\* A push replaces jobs only.
LEMMA PushIs ==
  ASSUME NEW r \in RoomType, NEW j
  PROVE  PushJob(r, j) = WithJobs(r, Append(r.queue, j), r.held, r.stray)
BY DEF WithJobs, PushJob, RoomType

\* So does a reservation.
LEMMA ReserveIs ==
  ASSUME NEW r \in RoomType, NEW o \in Object
  PROVE  Reserve(r, o) =
           WithJobs(r, Unnamed(r.queue, o), r.held \cup {o},
                    [r.stray EXCEPT ![o] = IF o \in r.held THEN @ + 1 ELSE @])
BY ZenonT(40) DEF WithJobs, LoseHandle, Reserve, RoomType

\* The handle is lost and its job with the timer is a stray one.
LEMMA LoseHandleDoes ==
  ASSUME NEW r \in RoomType, NEW o \in Object, NEW s, s = LoseHandle(r, o)
  PROVE  /\ s \in RoomType /\ s.queue = Unnamed(r.queue, o) /\ s.held = r.held \ {o}
         /\ s.stray = [r.stray EXCEPT ![o] = IF o \in r.held THEN @ + 1 ELSE @]
         /\ PlaceOf(s) = PlaceOf(r) /\ ViewsOf(s) = ViewsOf(r)
         /\ FightOf(s) = FightOf(r) /\ FlightOf(s) = FlightOf(r)
<1> DEFINE Q == Unnamed(r.queue, o)  H == r.held \ {o}
           S == [r.stray EXCEPT ![o] = IF o \in r.held THEN @ + 1 ELSE @]
<1>1. r.queue \in Seq(Job) /\ r.held \in SUBSET Object /\ r.stray \in [Object -> Nat]
  BY DEF RoomType
<1>2. Q \in Seq(Job) /\ H \in SUBSET Object /\ S \in [Object -> Nat]
  BY <1>1, UnnamedIs
<1>3. s = WithJobs(r, Q, H, S)
  BY LoseHandleIs, Zenon
<1> HIDE DEF Q, H, S
<1>4. /\ s \in RoomType /\ s.queue = Q /\ s.held = H /\ s.stray = S
      /\ PlaceOf(s) = PlaceOf(r) /\ ViewsOf(s) = ViewsOf(r)
      /\ FightOf(s) = FightOf(r) /\ FlightOf(s) = FlightOf(r)
  BY <1>2, <1>3, PutJobs
<1> QED BY <1>4 DEF Q, H, S

\* o has a reserved job with the timer, and the one it had is a stray one.
LEMMA ReserveDoes ==
  ASSUME NEW r \in RoomType, NEW o \in Object, NEW s, s = Reserve(r, o)
  PROVE  /\ s \in RoomType /\ s.queue = Unnamed(r.queue, o) /\ s.held = r.held \cup {o}
         /\ s.stray = [r.stray EXCEPT ![o] = IF o \in r.held THEN @ + 1 ELSE @]
         /\ PlaceOf(s) = PlaceOf(r) /\ ViewsOf(s) = ViewsOf(r)
         /\ FightOf(s) = FightOf(r) /\ FlightOf(s) = FlightOf(r)
<1> DEFINE Q == Unnamed(r.queue, o)  H == r.held \cup {o}
           S == [r.stray EXCEPT ![o] = IF o \in r.held THEN @ + 1 ELSE @]
<1>1. r.queue \in Seq(Job) /\ r.held \in SUBSET Object /\ r.stray \in [Object -> Nat]
  BY DEF RoomType
<1>2. Q \in Seq(Job) /\ H \in SUBSET Object /\ S \in [Object -> Nat]
  BY <1>1, UnnamedIs
<1>3. s = WithJobs(r, Q, H, S)
  BY ReserveIs, Zenon
<1> HIDE DEF Q, H, S
<1>4. /\ s \in RoomType /\ s.queue = Q /\ s.held = H /\ s.stray = S
      /\ PlaceOf(s) = PlaceOf(r) /\ ViewsOf(s) = ViewsOf(r)
      /\ FightOf(s) = FightOf(r) /\ FlightOf(s) = FlightOf(r)
  BY <1>2, <1>3, PutJobs
<1> QED BY <1>4 DEF Q, H, S

\* o has no reserved job; one in the queue has become empty.
LEMMA CancelDoes ==
  ASSUME NEW r \in RoomType, NEW o \in Object, NEW s, s = Cancel(r, o)
  PROVE  /\ s \in RoomType /\ s.queue = Emptied(r.queue, o) /\ s.held = r.held \ {o}
         /\ s.stray = r.stray
         /\ PlaceOf(s) = PlaceOf(r) /\ ViewsOf(s) = ViewsOf(r)
         /\ FightOf(s) = FightOf(r) /\ FlightOf(s) = FlightOf(r)
<1> DEFINE Q == Emptied(r.queue, o)  H == r.held \ {o}
           S == r.stray
<1>1. r.queue \in Seq(Job) /\ r.held \in SUBSET Object /\ r.stray \in [Object -> Nat]
  BY DEF RoomType
<1>2. Q \in Seq(Job) /\ H \in SUBSET Object /\ S \in [Object -> Nat]
  BY <1>1, EmptiedIs
<1>3. s = WithJobs(r, Q, H, S)
  BY CancelIs, Zenon
<1> HIDE DEF Q, H, S
<1>4. /\ s \in RoomType /\ s.queue = Q /\ s.held = H /\ s.stray = S
      /\ PlaceOf(s) = PlaceOf(r) /\ ViewsOf(s) = ViewsOf(r)
      /\ FightOf(s) = FightOf(r) /\ FlightOf(s) = FlightOf(r)
  BY <1>2, <1>3, PutJobs
<1> QED BY <1>4 DEF Q, H, S

\* The queue has one more job, and all else is as it was.
LEMMA PushDoes ==
  ASSUME NEW r \in RoomType, NEW j \in Job, NEW s, s = PushJob(r, j)
  PROVE  /\ s \in RoomType /\ s.queue = Append(r.queue, j) /\ s.held = r.held
         /\ s.stray = r.stray
         /\ PlaceOf(s) = PlaceOf(r) /\ ViewsOf(s) = ViewsOf(r)
         /\ FightOf(s) = FightOf(r) /\ FlightOf(s) = FlightOf(r)
<1> DEFINE Q == Append(r.queue, j)  H == r.held
           S == r.stray
<1>1. r.queue \in Seq(Job) /\ r.held \in SUBSET Object /\ r.stray \in [Object -> Nat]
  BY DEF RoomType
<1>2. Q \in Seq(Job) /\ H \in SUBSET Object /\ S \in [Object -> Nat]
  BY <1>1
<1>3. s = WithJobs(r, Q, H, S)
  BY PushIs, Zenon
<1> HIDE DEF Q, H, S
<1>4. /\ s \in RoomType /\ s.queue = Q /\ s.held = H /\ s.stray = S
      /\ PlaceOf(s) = PlaceOf(r) /\ ViewsOf(s) = ViewsOf(r)
      /\ FightOf(s) = FightOf(r) /\ FlightOf(s) = FlightOf(r)
  BY <1>2, <1>3, PutJobs
<1> QED BY <1>4 DEF Q, H, S

-----------------------------------------------------------------------------
(* Map and Zones.                                                          *)

\* The grid and the Zones after o moved to c, and after o left.
MovedGrid(r, o, c) ==
  LET lifted == IF r.grid[r.cell[o]] = o THEN [r.grid EXCEPT ![r.cell[o]] = None] ELSE r.grid
  IN  [lifted EXCEPT ![c] = o]
MovedZone(r, o, c) ==
  LET before == ZoneOf(r.cell[o])  after == ZoneOf(c)
  IN  IF before = after THEN r.zone
      ELSE [r.zone EXCEPT ![before] = @ \ {o}, ![after] = @ \cup {o}]
LeftGrid(r, o) ==
  IF r.grid[r.cell[o]] = o THEN [r.grid EXCEPT ![r.cell[o]] = None] ELSE r.grid
LeftZone(r, o) ==
  IF o \in Monsters THEN r.zone ELSE [r.zone EXCEPT ![ZoneOf(r.cell[o])] = @ \ {o}]

\* The fields of a room.
LEMMA RoomIs ==
  ASSUME NEW r \in RoomType
  PROVE  /\ r.present \in SUBSET Object /\ r.inRoom \in SUBSET Object
         /\ r.cell \in [Object -> Cell] /\ r.grid \in [Cell -> Object \cup {None}]
         /\ r.zone \in [Zone -> SUBSET Object]
         /\ r.prev \in [Players -> SUBSET Object] /\ r.known \in [Players -> SUBSET Object]
         /\ r.gone \in SUBSET Object
         /\ r.dir \in [Players \cup Arrows -> Dir] /\ r.idle \in SUBSET Players
         /\ r.hp \in [Actor -> 0 .. MaxHp] /\ r.fsm \in [Monsters -> {"IDLE", "MOVING", "SKILL"}]
         /\ r.target \in [Monsters -> Players \cup {None}] /\ r.ready \in SUBSET Monsters
         /\ r.deaths \in SUBSET (Players \X Actor)
         /\ r.queue \in Seq(Job) /\ r.held \in SUBSET Object /\ r.stray \in [Object -> Nat]
         /\ r.owner \in [Arrows -> Players \cup {None}] /\ r.used \in SUBSET Arrows
         /\ r.hits \in [Arrows -> Nat] /\ r.fault \in BOOLEAN
BY DEF RoomType

\* Map::SetCurrentZone replaces the Zones (Map.cpp:126-163).
LEMMA SetZoneIs ==
  ASSUME NEW r \in RoomType, NEW o \in Object, NEW c, NEW G
  PROVE  [SetCurrentZone([r EXCEPT !.grid = G], o, c) EXCEPT !.cell[o] = c] =
           WithPlace(r, r.present, r.inRoom, [r.cell EXCEPT ![o] = c], G, MovedZone(r, o, c))
<1>1. CASE ZoneOf(r.cell[o]) = ZoneOf(c)
  BY <1>1 DEF SetCurrentZone, WithPlace, MovedZone, RoomType
<1>2. CASE ZoneOf(r.cell[o]) # ZoneOf(c)
  <2> DEFINE Z == [r.zone EXCEPT ![ZoneOf(r.cell[o])] = @ \ {o}, ![ZoneOf(c)] = @ \cup {o}]
  <2>1. SetCurrentZone([r EXCEPT !.grid = G], o, c) = [r EXCEPT !.grid = G, !.zone = Z]
    BY <1>2 DEF SetCurrentZone, RoomType
  <2>2. MovedZone(r, o, c) = Z
    BY <1>2 DEF MovedZone
  <2> HIDE DEF Z
  <2>3. [[r EXCEPT !.grid = G, !.zone = Z] EXCEPT !.cell[o] = c] =
           WithPlace(r, r.present, r.inRoom, [r.cell EXCEPT ![o] = c], G, Z)
    BY DEF WithPlace, RoomType
  <2> QED BY <2>1, <2>2, <2>3
<1> QED BY <1>1, <1>2

\* Map::ApplyMove replaces the grid, the Zones and a position (Map.cpp:58-84).
LEMMA ApplyMoveIs ==
  ASSUME NEW r \in RoomType, NEW o \in Object, NEW c, MayMove(r, o, c)
  PROVE  ApplyMove(r, o, c) =
           WithPlace(r, r.present, r.inRoom, [r.cell EXCEPT ![o] = c],
                     MovedGrid(r, o, c), MovedZone(r, o, c))
<1> DEFINE lifted == IF r.grid[r.cell[o]] = o THEN [r EXCEPT !.grid[r.cell[o]] = None] ELSE r
<1>1. ApplyMove(r, o, c) =
        [SetCurrentZone([lifted EXCEPT !.grid[c] = o], o, c) EXCEPT !.cell[o] = c]
  BY DEF ApplyMove
<1>2. [lifted EXCEPT !.grid[c] = o] = [r EXCEPT !.grid = MovedGrid(r, o, c)]
  <2>1. CASE r.grid[r.cell[o]] = o
    BY <2>1 DEF MovedGrid, RoomType
  <2>2. CASE r.grid[r.cell[o]] # o
    BY <2>2 DEF MovedGrid, RoomType
  <2> QED BY <2>1, <2>2
<1>3. [SetCurrentZone([r EXCEPT !.grid = MovedGrid(r, o, c)], o, c) EXCEPT !.cell[o] = c] =
           WithPlace(r, r.present, r.inRoom, [r.cell EXCEPT ![o] = c],
                     MovedGrid(r, o, c), MovedZone(r, o, c))
  BY SetZoneIs, Zenon
<1> HIDE DEF lifted
<1> QED BY <1>1, <1>2, <1>3, Zenon

\* Map::ApplyLeave replaces the grid and the Zones (Map.cpp:86-103).
LEMMA ApplyLeaveIs ==
  ASSUME NEW r \in RoomType, NEW o \in Object, o \in r.inRoom
  PROVE  ApplyLeave(r, o) =
           WithPlace(r, r.present, r.inRoom, r.cell, LeftGrid(r, o), LeftZone(r, o))
<1>1. CASE r.grid[r.cell[o]] = o
  <2>1. CASE o \in Monsters
    BY <1>1, <2>1 DEF ApplyLeave, WithPlace, LeftGrid, LeftZone, RoomType
  <2>2. CASE o \notin Monsters
    BY <1>1, <2>2 DEF ApplyLeave, WithPlace, LeftGrid, LeftZone, RoomType
  <2> QED BY <2>1, <2>2
<1>2. CASE r.grid[r.cell[o]] # o
  <2>1. CASE o \in Monsters
    BY <1>2, <2>1 DEF ApplyLeave, WithPlace, LeftGrid, LeftZone, RoomType
  <2>2. CASE o \notin Monsters
    BY <1>2, <2>2 DEF ApplyLeave, WithPlace, LeftGrid, LeftZone, RoomType
  <2> QED BY <2>1, <2>2
<1> QED BY <1>1, <1>2

\* They still are a grid and Zones.
LEMMA MovedTypes ==
  ASSUME NEW r \in RoomType, NEW o \in Object, NEW c \in Cell
  PROVE  /\ MovedGrid(r, o, c) \in [Cell -> Object \cup {None}]
         /\ MovedZone(r, o, c) \in [Zone -> SUBSET Object]
         /\ LeftGrid(r, o) \in [Cell -> Object \cup {None}]
         /\ LeftZone(r, o) \in [Zone -> SUBSET Object]
         /\ [r.cell EXCEPT ![o] = c] \in [Object -> Cell]
<1>1. r.cell[o] \in Cell /\ r.grid \in [Cell -> Object \cup {None}] /\ r.zone \in [Zone -> SUBSET Object]
  BY RoomIs
<1>2. \A x \in Cell, y \in Object \cup {None}, g \in [Cell -> Object \cup {None}] :
        [g EXCEPT ![x] = y] \in [Cell -> Object \cup {None}]
  OBVIOUS
<1>3. LeftGrid(r, o) \in [Cell -> Object \cup {None}]
  BY <1>1, <1>2 DEF LeftGrid
<1>4. MovedGrid(r, o, c) = [LeftGrid(r, o) EXCEPT ![c] = o]
  BY DEF MovedGrid, LeftGrid
<1>5. MovedZone(r, o, c) \in [Zone -> SUBSET Object]
  BY <1>1 DEF MovedZone
<1>6. LeftZone(r, o) \in [Zone -> SUBSET Object]
  BY <1>1 DEF LeftZone
<1>7. [r.cell EXCEPT ![o] = c] \in [Object -> Cell]
  BY RoomIs
<1> QED BY <1>2, <1>3, <1>4, <1>5, <1>6, <1>7

\* Object o has moved by one ApplyMove at most.
Moves(r, o, s) ==
  /\ s.present = r.present /\ s.inRoom = r.inRoom
  /\ \/ s.cell = r.cell /\ s.grid = r.grid /\ s.zone = r.zone
     \/ \E c \in Cell :
          /\ MayMove(r, o, c) /\ s.cell = [r.cell EXCEPT ![o] = c]
          /\ s.grid = MovedGrid(r, o, c) /\ s.zone = MovedZone(r, o, c)

\* ApplyMove moves o or nobody.
LEMMA ApplyMoveDoes ==
  ASSUME NEW r \in RoomType, NEW o \in Object, NEW c, NEW s, s = ApplyMove(r, o, c)
  PROVE  /\ s \in RoomType /\ Moves(r, o, s)
         /\ JobsOf(s) = JobsOf(r) /\ ViewsOf(s) = ViewsOf(r)
         /\ FightOf(s) = FightOf(r) /\ FlightOf(s) = FlightOf(r)
<1>1. CASE ~MayMove(r, o, c)
  BY <1>1 DEF ApplyMove, Moves
<1>2. CASE MayMove(r, o, c)
  <2>1. c \in Cell
    BY <1>2 DEF MayMove, CanGo
  <2>2. s = WithPlace(r, r.present, r.inRoom, [r.cell EXCEPT ![o] = c],
                     MovedGrid(r, o, c), MovedZone(r, o, c))
    BY <1>2, ApplyMoveIs
  <2> DEFINE C == [r.cell EXCEPT ![o] = c]
  <2>4. C \in [Object -> Cell]
    BY <2>1, RoomIs
  <2> HIDE DEF C
  <2>3. /\ s \in RoomType
        /\ PlaceOf(s) = <<r.present, r.inRoom, C, MovedGrid(r, o, c), MovedZone(r, o, c)>>
        /\ JobsOf(s) = JobsOf(r) /\ ViewsOf(s) = ViewsOf(r)
        /\ FightOf(s) = FightOf(r) /\ FlightOf(s) = FlightOf(r)
    <3>1. s = WithPlace(r, r.present, r.inRoom, C, MovedGrid(r, o, c), MovedZone(r, o, c))
      BY <2>2 DEF C
    <3>2. /\ r.present \in SUBSET Object /\ r.inRoom \in SUBSET Object
          /\ MovedGrid(r, o, c) \in [Cell -> Object \cup {None}]
          /\ MovedZone(r, o, c) \in [Zone -> SUBSET Object]
      BY <2>1, MovedTypes, RoomIs
    <3> QED BY <2>4, <3>1, <3>2, PutPlace
  <2>5. Moves(r, o, s)
    BY <1>2, <2>1, <2>3 DEF PlaceOf, C, Moves
  <2> QED BY <2>3, <2>5
<1> QED BY <1>1, <1>2

\* ApplyLeave changes where o is recorded, and nothing else.
LEMMA ApplyLeaveDoes ==
  ASSUME NEW r \in RoomType, NEW o \in Object, NEW s, s = ApplyLeave(r, o)
  PROVE  /\ s \in RoomType /\ s.present = r.present /\ s.inRoom = r.inRoom /\ s.cell = r.cell
         /\ JobsOf(s) = JobsOf(r) /\ ViewsOf(s) = ViewsOf(r)
         /\ FightOf(s) = FightOf(r) /\ FlightOf(s) = FlightOf(r)
         /\ o \notin r.inRoom => s = r
         /\ o \in r.inRoom => s.grid = LeftGrid(r, o) /\ s.zone = LeftZone(r, o)
<1>1. CASE o \notin r.inRoom
  BY <1>1 DEF ApplyLeave
<1>2. CASE o \in r.inRoom
  <2>2. s = WithPlace(r, r.present, r.inRoom, r.cell, LeftGrid(r, o), LeftZone(r, o))
    BY <1>2, ApplyLeaveIs
  <2>3. r.cell[o] \in Cell
    BY RoomIs
  <2>4. /\ s \in RoomType
        /\ PlaceOf(s) = <<r.present, r.inRoom, r.cell, LeftGrid(r, o), LeftZone(r, o)>>
        /\ JobsOf(s) = JobsOf(r) /\ ViewsOf(s) = ViewsOf(r)
        /\ FightOf(s) = FightOf(r) /\ FlightOf(s) = FlightOf(r)
    BY <2>2, <2>3, MovedTypes, RoomIs, PutPlace
  <2> QED BY <1>2, <2>4 DEF PlaceOf
<1> QED BY <1>1, <1>2

-----------------------------------------------------------------------------
(* Broadcasts and views.                                                   *)

\* ShownIsKnown, of a room and of all its players.
Seen(r) == \A p \in Players : r.prev[p] \ r.gone \subseteq r.known[p]

\* What the clients know after S_Spawn or S_Despawn of o.
SpawnKnown(r, pos, o) ==
  [p \in Players |-> IF p \in Listeners(r, pos) THEN r.known[p] \cup {o} ELSE r.known[p]]
DespawnKnown(r, pos, o) ==
  [p \in Players |-> IF p \in Listeners(r, pos) THEN r.known[p] \ {o} ELSE r.known[p]]

\* Broadcasts replace what is known.
LEMMA SpawnIs ==
  ASSUME NEW r \in RoomType, NEW pos, NEW o
  PROVE  /\ Spawn(r, pos, o) = WithViews(r, r.prev, SpawnKnown(r, pos, o), r.gone)
         /\ Despawn(r, pos, o) = WithViews(r, r.prev, DespawnKnown(r, pos, o), r.gone)
<1>1. Spawn(r, pos, o) = WithViews(r, r.prev, SpawnKnown(r, pos, o), r.gone)
  BY DEF Spawn, WithViews, SpawnKnown, RoomType
<1>2. Despawn(r, pos, o) = WithViews(r, r.prev, DespawnKnown(r, pos, o), r.gone)
  BY DEF Despawn, WithViews, DespawnKnown, RoomType
<1> QED BY <1>1, <1>2

\* S_Spawn takes no knowledge away.
LEMMA SpawnDoes ==
  ASSUME NEW r \in RoomType, NEW pos, NEW o \in Object, NEW s, s = Spawn(r, pos, o)
  PROVE  /\ s \in RoomType
         /\ Seen(r) => Seen(s)
         /\ PlaceOf(s) = PlaceOf(r) /\ JobsOf(s) = JobsOf(r)
         /\ FightOf(s) = FightOf(r) /\ FlightOf(s) = FlightOf(r)
<1> DEFINE K == SpawnKnown(r, pos, o)
<1>1. K \in [Players -> SUBSET Object] /\ \A p \in Players : r.known[p] \subseteq K[p]
  BY RoomIs DEF SpawnKnown
<1>2. s = WithViews(r, r.prev, K, r.gone)
  BY SpawnIs
<1>3. r.prev \in [Players -> SUBSET Object] /\ r.gone \in SUBSET Object
  BY RoomIs
<1> HIDE DEF K
<1>4. /\ s \in RoomType /\ ViewsOf(s) = <<r.prev, K, r.gone>>
      /\ PlaceOf(s) = PlaceOf(r) /\ JobsOf(s) = JobsOf(r)
      /\ FightOf(s) = FightOf(r) /\ FlightOf(s) = FlightOf(r)
  BY <1>1, <1>2, <1>3, PutViews
<1>5. s.prev = r.prev /\ s.gone = r.gone /\ s.known = K
  BY <1>4 DEF ViewsOf
<1> QED BY <1>1, <1>4, <1>5 DEF Seen

\* S_Despawn takes away knowledge of one who has left.
LEMMA DespawnDoes ==
  ASSUME NEW r \in RoomType, NEW pos, NEW o \in Object, NEW s, s = Despawn(r, pos, o)
  PROVE  /\ s \in RoomType
         /\ (Seen(r) /\ o \in r.gone) => Seen(s)
         /\ PlaceOf(s) = PlaceOf(r) /\ JobsOf(s) = JobsOf(r)
         /\ FightOf(s) = FightOf(r) /\ FlightOf(s) = FlightOf(r)
<1> DEFINE K == DespawnKnown(r, pos, o)
<1>1. K \in [Players -> SUBSET Object] /\ \A p \in Players : r.known[p] \ {o} \subseteq K[p]
  BY RoomIs DEF DespawnKnown
<1>2. s = WithViews(r, r.prev, K, r.gone)
  BY SpawnIs
<1>3. r.prev \in [Players -> SUBSET Object] /\ r.gone \in SUBSET Object
  BY RoomIs
<1> HIDE DEF K
<1>4. /\ s \in RoomType /\ ViewsOf(s) = <<r.prev, K, r.gone>>
      /\ PlaceOf(s) = PlaceOf(r) /\ JobsOf(s) = JobsOf(r)
      /\ FightOf(s) = FightOf(r) /\ FlightOf(s) = FlightOf(r)
  BY <1>1, <1>2, <1>3, PutViews
<1>5. s.prev = r.prev /\ s.gone = r.gone /\ s.known = K
  BY <1>4 DEF ViewsOf
<1> QED BY <1>1, <1>4, <1>5 DEF Seen

\* What the client of p knows after its view was updated.
NewKnown(r, p) ==
  [r.known EXCEPT ![p] = (@ \cup (Visible(r, p) \ r.prev[p])) \ (r.prev[p] \ Visible(r, p))]

\* ViewCube::Update replaces the view and reserves a job (ViewCube.cpp:16-65).
LEMMA ViewUpdateIs ==
  ASSUME NEW r \in RoomType, NEW p \in Players
  PROVE  ViewUpdate(r, p) =
           Reserve(WithViews(r, [r.prev EXCEPT ![p] = Visible(r, p)], NewKnown(r, p), r.gone), p)
<1> DEFINE V == Visible(r, p)
           K == [r.known EXCEPT ![p] = (@ \cup (V \ r.prev[p])) \ (r.prev[p] \ V)]
<1>1. [r EXCEPT !.known[p] = (@ \cup (V \ r.prev[p])) \ (r.prev[p] \ V), !.prev[p] = V]
        = WithViews(r, [r.prev EXCEPT ![p] = V], K, r.gone)
  <2> HIDE DEF V
  <2> QED BY DEF RoomType, WithViews
<1>2. K = NewKnown(r, p)
  BY DEF NewKnown
<1> HIDE DEF K
<1> QED BY <1>1, <1>2 DEF ViewUpdate

\* After an update what is shown is known, and the next update is reserved.
LEMMA ViewUpdateDoes ==
  ASSUME NEW r \in RoomType, NEW p \in Players, NEW s, s = ViewUpdate(r, p)
  PROVE  /\ s \in RoomType
         /\ Seen(r) => Seen(s)
         /\ s.queue = Unnamed(r.queue, p) /\ s.held = r.held \cup {p}
         /\ s.stray = [r.stray EXCEPT ![p] = IF p \in r.held THEN @ + 1 ELSE @]
         /\ PlaceOf(s) = PlaceOf(r)
         /\ FightOf(s) = FightOf(r) /\ FlightOf(s) = FlightOf(r)
<1> DEFINE V == Visible(r, p)  P == [r.prev EXCEPT ![p] = V]  K == NewKnown(r, p)
<1>1. V \in SUBSET Object
  BY RoomIs DEF Visible, Members, AdjacentZones
<1>2. P \in [Players -> SUBSET Object]
  BY <1>1, RoomIs
<1>3. K \in [Players -> SUBSET Object]
  BY <1>1, RoomIs DEF NewKnown
<1>4. Seen(r) => \A q \in Players : P[q] \ r.gone \subseteq K[q]
  <2>1. /\ K[p] = (r.known[p] \cup (V \ r.prev[p])) \ (r.prev[p] \ V)
        /\ \A q \in Players \ {p} : K[q] = r.known[q] /\ P[q] = r.prev[q]
        /\ P[p] = V
    BY RoomIs DEF NewKnown
  <2> HIDE DEF V, P, K
  <2> QED BY <2>1 DEF Seen
<1>5. r.gone \in SUBSET Object
  BY RoomIs
<1>6. PICK t : t = WithViews(r, P, K, r.gone)
  OBVIOUS
<1>7. s = Reserve(t, p)
  BY <1>6, ViewUpdateIs
<1> HIDE DEF V, P, K
<1>8. /\ t \in RoomType /\ ViewsOf(t) = <<P, K, r.gone>>
      /\ PlaceOf(t) = PlaceOf(r) /\ JobsOf(t) = JobsOf(r)
      /\ FightOf(t) = FightOf(r) /\ FlightOf(t) = FlightOf(r)
  BY <1>2, <1>3, <1>5, <1>6, PutViews
<1>9. /\ s \in RoomType /\ s.queue = Unnamed(t.queue, p) /\ s.held = t.held \cup {p}
      /\ s.stray = [t.stray EXCEPT ![p] = IF p \in t.held THEN @ + 1 ELSE @]
      /\ PlaceOf(s) = PlaceOf(t) /\ ViewsOf(s) = ViewsOf(t)
      /\ FightOf(s) = FightOf(t) /\ FlightOf(s) = FlightOf(t)
  BY <1>7, <1>8, ReserveDoes DEF Object, Actor
<1>10. t.queue = r.queue /\ t.held = r.held /\ t.stray = r.stray
  BY <1>8 DEF JobsOf
<1>11. s.prev = P /\ s.known = K /\ s.gone = r.gone
  BY <1>8, <1>9 DEF ViewsOf
<1>12. Seen(r) => Seen(s)
  BY <1>4, <1>11 DEF Seen
<1> QED BY <1>8, <1>9, <1>10, <1>12

\* The kinds of objects are apart.
LEMMA ObjectIs ==
  /\ Players \subseteq Object /\ Monsters \subseteq Object /\ Arrows \subseteq Object
  /\ Actor \subseteq Object /\ Players \subseteq Actor /\ Monsters \subseteq Actor
  /\ \A o \in Object : o \in Players \/ o \in Monsters \/ o \in Arrows
  /\ \A o \in Players : o \notin Monsters /\ o \notin Arrows
  /\ \A o \in Monsters : o \notin Players /\ o \notin Arrows
  /\ \A o \in Arrows : o \notin Players /\ o \notin Monsters /\ o \notin Actor
  /\ None \notin Object
BY KindsAssumption DEF Object, Actor

-----------------------------------------------------------------------------
(* Blows and deaths.                                                       *)

\* All that is not about a fight is as it was.
Elsewhere(r, s) ==
  /\ s \in RoomType
  /\ JobsOf(s) = JobsOf(r) /\ PlaceOf(s) = PlaceOf(r)
  /\ ViewsOf(s) = ViewsOf(r) /\ FlightOf(s) = FlightOf(r)

\* Only a monster that is dead has a job emptied.
LEMMA OnDeadDoes ==
  ASSUME NEW r \in RoomType, NEW o \in Actor, NEW s, s = OnDead(r, o)
  PROVE  /\ s \in RoomType /\ s.hp = r.hp
         /\ PlaceOf(s) = PlaceOf(r) /\ ViewsOf(s) = ViewsOf(r) /\ FlightOf(s) = FlightOf(r)
         /\ o \notin Monsters => JobsOf(s) = JobsOf(r)
         /\ o \in Monsters =>
              s.queue = Emptied(r.queue, o) /\ s.held = r.held \ {o} /\ s.stray = r.stray
<1>1. PICK t : t = IF o \in Monsters THEN Cancel(r, o) ELSE r
  OBVIOUS
<1>2. /\ t \in RoomType /\ FightOf(t) = FightOf(r)
      /\ PlaceOf(t) = PlaceOf(r) /\ ViewsOf(t) = ViewsOf(r) /\ FlightOf(t) = FlightOf(r)
      /\ o \notin Monsters => JobsOf(t) = JobsOf(r)
      /\ o \in Monsters =>
           t.queue = Emptied(r.queue, o) /\ t.held = r.held \ {o} /\ t.stray = r.stray
  BY <1>1, CancelDoes, ObjectIs
<1>3. PICK D : D = t.deaths \cup (Reports \cap (Listeners(r, r.cell[o]) \X {o}))
  OBVIOUS
<1>4. s = [t EXCEPT !.deaths = D]
  BY <1>1, <1>2, <1>3 DEF OnDead, RoomType
<1>5. D \in SUBSET (Players \X Actor)
  <2>1. t.deaths \in SUBSET (Players \X Actor)
    BY <1>2, RoomIs
  <2> QED BY <1>3, <2>1, ReportsAssumption
<1>6. Elsewhere(t, s) /\ s.hp = t.hp
  <2>1. t \in RoomType
    BY <1>2
  <2> QED BY <1>4, <1>5, <2>1, ZenonT(40) DEF RoomType, Elsewhere, PlaceOf, ViewsOf, FlightOf, JobsOf
<1>7. s.queue = t.queue /\ s.held = t.held /\ s.stray = t.stray /\ t.hp = r.hp
  BY <1>2, <1>6 DEF Elsewhere, JobsOf, FightOf
<1> QED BY <1>2, <1>6, <1>7 DEF Elsewhere

\* A blow takes hp from o at most, and a job from none but a monster that is dead.
LEMMA OnDamagedDoes ==
  ASSUME NEW r \in RoomType, NEW o \in Object, NEW s, s = OnDamaged(r, o)
  PROVE  /\ s \in RoomType
         /\ \A x \in Actor : (x # o => s.hp[x] = r.hp[x]) /\ s.hp[x] <= r.hp[x]
         /\ PlaceOf(s) = PlaceOf(r) /\ ViewsOf(s) = ViewsOf(r) /\ FlightOf(s) = FlightOf(r)
         /\ \/ JobsOf(s) = JobsOf(r)
            \/ /\ o \in Monsters /\ s.hp[o] = 0
               /\ s.queue = Emptied(r.queue, o) /\ s.held = r.held \ {o} /\ s.stray = r.stray
<1>0. r.hp \in [Actor -> 0 .. MaxHp] /\ \A x \in Actor : r.hp[x] \in Nat /\ Damage[x] \in Nat
  BY RoomIs, MaxHpAssumption
<1>1. CASE o \notin r.inRoom \/ o \notin Actor
  BY <1>0, <1>1 DEF OnDamaged
<1>2. CASE o \in r.inRoom /\ o \in Actor
  <2>1. PICK h : h = [r.hp EXCEPT ![o] = IF @ <= Damage[o] THEN 0 ELSE @ - Damage[o]]
    OBVIOUS
  <2>2. h \in [Actor -> 0 .. MaxHp] /\ \A x \in Actor : (x # o => h[x] = r.hp[x]) /\ h[x] <= r.hp[x]
    BY <1>0, <1>2, <2>1, MaxHpAssumption
  <2>3. PICK t : t = [r EXCEPT !.hp[o] = IF @ <= Damage[o] THEN 0 ELSE @ - Damage[o]]
    OBVIOUS
  <2>4. t = [r EXCEPT !.hp = h]
    BY <2>1, <2>3 DEF RoomType
  <2>5. Elsewhere(r, t) /\ t.hp = h
    BY <2>2, <2>4, ZenonT(40) DEF RoomType, Elsewhere, PlaceOf, ViewsOf, FlightOf, JobsOf
  <2>6. s = IF t.hp[o] = 0 THEN OnDead(t, o) ELSE t
    BY <1>2, <2>3 DEF OnDamaged
  <2>7. CASE t.hp[o] = 0
    <3>1. /\ s \in RoomType /\ s.hp = t.hp
          /\ PlaceOf(s) = PlaceOf(t) /\ ViewsOf(s) = ViewsOf(t) /\ FlightOf(s) = FlightOf(t)
          /\ o \notin Monsters => JobsOf(s) = JobsOf(t)
          /\ o \in Monsters =>
               s.queue = Emptied(t.queue, o) /\ s.held = t.held \ {o} /\ s.stray = t.stray
      BY <1>2, <2>5, <2>6, <2>7, OnDeadDoes DEF Elsewhere
    <3>2. t.queue = r.queue /\ t.held = r.held /\ t.stray = r.stray
      BY <2>5 DEF Elsewhere, JobsOf
    <3> QED BY <2>2, <2>5, <2>7, <3>1, <3>2 DEF Elsewhere
  <2>8. CASE t.hp[o] # 0
    BY <2>2, <2>5, <2>6, <2>8 DEF Elsewhere
  <2> QED BY <2>7, <2>8
<1> QED BY <1>1, <1>2

-----------------------------------------------------------------------------
(* Monsters and arrows.                                                    *)

\* Only the places matter to whether somebody has moved.
LEMMA SamePlace ==
  ASSUME NEW r, NEW s, NEW t, NEW o
  PROVE  /\ PlaceOf(s) = PlaceOf(r) => Moves(r, o, s)
         /\ (PlaceOf(s) = PlaceOf(r) /\ Moves(r, o, t)) => Moves(s, o, t)
         /\ (PlaceOf(t) = PlaceOf(s) /\ Moves(r, o, s)) => Moves(r, o, t)
<1>1. PlaceOf(s) = PlaceOf(r) => Moves(r, o, s)
  BY DEF PlaceOf, Moves
<1>2. ASSUME PlaceOf(s) = PlaceOf(r), Moves(r, o, t) PROVE Moves(s, o, t)
  <2>1. /\ s.present = r.present /\ s.inRoom = r.inRoom /\ s.cell = r.cell /\ s.grid = r.grid
        /\ s.zone = r.zone
    BY <1>2 DEF PlaceOf
  <2>2. \A c : /\ MayMove(s, o, c) <=> MayMove(r, o, c)
               /\ MovedGrid(s, o, c) = MovedGrid(r, o, c) /\ MovedZone(s, o, c) = MovedZone(r, o, c)
    BY <2>1 DEF MayMove, CanGo, MovedGrid, MovedZone
  <2> QED BY <1>2, <2>1, <2>2 DEF Moves
<1>3. (PlaceOf(t) = PlaceOf(s) /\ Moves(r, o, s)) => Moves(r, o, t)
  BY DEF PlaceOf, Moves
<1> QED BY <1>1, <1>2, <1>3

\* Monster m has moved by a cell at most, and nobody has more hp.
Acted(r, m, s) ==
  /\ s \in RoomType /\ Moves(r, m, s)
  /\ ViewsOf(s) = ViewsOf(r) /\ FlightOf(s) = FlightOf(r)
  /\ \A x \in Actor : s.hp[x] <= r.hp[x]

\* hp are numbers.
LEMMA HpIsNumber == ASSUME NEW r \in RoomType PROVE \A x \in Actor : r.hp[x] \in Nat
BY RoomIs, MaxHpAssumption

\* Who only fights has acted.
LEMMA ElsewhereActed ==
  ASSUME NEW r \in RoomType, NEW m \in Monsters, NEW s, Elsewhere(r, s), s.hp = r.hp
  PROVE  Acted(r, m, s) /\ JobsOf(s) = JobsOf(r)
BY HpIsNumber, SamePlace DEF Elsewhere, Acted

\* Each thing a monster may do leaves the views and the arrows alone, and gives
\* nobody hp (Monster.cpp:86-229).
LEMMA StopTargetingActs ==
  ASSUME NEW r \in RoomType, NEW m \in Monsters, NEW s, s = StopTargeting(r, m)
  PROVE  Acted(r, m, s) /\ JobsOf(s) = JobsOf(r)
<1>1. Elsewhere(r, s) /\ s.hp = r.hp
  BY ZenonT(40) DEF StopTargeting, RoomType, Elsewhere, PlaceOf, ViewsOf, FlightOf, JobsOf
<1> QED BY <1>1, ElsewhereActed

\* An idle monster looks for a player.
LEMMA UpdateIdleActs ==
  ASSUME NEW r \in RoomType, NEW m \in Monsters, NEW s \in UpdateIdle(r, m)
  PROVE  Acted(r, m, s) /\ JobsOf(s) = JobsOf(r)
<1>1. CASE s = r
  BY <1>1, ElsewhereActed DEF Elsewhere
<1>2. CASE s = [r EXCEPT !.target[m] = None]
  <2>1. Elsewhere(r, s) /\ s.hp = r.hp
    BY <1>2, ZenonT(40) DEF RoomType, Elsewhere, PlaceOf, ViewsOf, FlightOf, JobsOf
  <2> QED BY <2>1, ElsewhereActed
<1>3. ASSUME NEW p \in Players, s = [r EXCEPT !.target[m] = p, !.fsm[m] = "MOVING"]
      PROVE  Acted(r, m, s) /\ JobsOf(s) = JobsOf(r)
  <2>1. Elsewhere(r, s) /\ s.hp = r.hp
    BY <1>3, ZenonT(40) DEF RoomType, Elsewhere, PlaceOf, ViewsOf, FlightOf, JobsOf
  <2> QED BY <2>1, ElsewhereActed
<1> QED BY <1>1, <1>2, <1>3 DEF UpdateIdle

\* A moving one takes a step at most.
LEMMA UpdateMovingActs ==
  ASSUME NEW r \in RoomType, NEW m \in Monsters, NEW s \in UpdateMoving(r, m)
  PROVE  Acted(r, m, s) /\ JobsOf(s) = JobsOf(r)
<1>1. CASE s = r
  BY <1>1, ElsewhereActed DEF Elsewhere
<1>2. CASE s = StopTargeting(r, m)
  BY <1>2, StopTargetingActs
<1>3. CASE s = [r EXCEPT !.ready = @ \cup {m}, !.fsm[m] = "SKILL"]
  <2>1. Elsewhere(r, s) /\ s.hp = r.hp
    BY <1>3, ZenonT(40) DEF RoomType, Elsewhere, PlaceOf, ViewsOf, FlightOf, JobsOf
  <2> QED BY <2>1, ElsewhereActed
<1>4. ASSUME NEW c, s = ApplyMove(r, m, c)
      PROVE  Acted(r, m, s) /\ JobsOf(s) = JobsOf(r)
  <2>1. m \in Object
    BY ObjectIs
  <2>2. /\ s \in RoomType /\ Moves(r, m, s) /\ JobsOf(s) = JobsOf(r) /\ ViewsOf(s) = ViewsOf(r)
        /\ FightOf(s) = FightOf(r) /\ FlightOf(s) = FlightOf(r)
    BY <1>4, <2>1, ApplyMoveDoes
  <2>3. s.hp = r.hp
    BY <2>2 DEF FightOf
  <2> QED BY <2>2, <2>3, HpIsNumber DEF Acted
<1>5. \/ s = r \/ s = StopTargeting(r, m)
      \/ s = [r EXCEPT !.ready = @ \cup {m}, !.fsm[m] = "SKILL"]
      \/ \E c : s = ApplyMove(r, m, c)
  BY DEF UpdateMoving
<1> QED BY <1>1, <1>2, <1>3, <1>4, <1>5

\* A fighting one strikes its target at most.
LEMMA UpdateSkillActs ==
  ASSUME NEW r \in RoomType, NEW m \in Monsters, NEW s \in UpdateSkill(r, m)
  PROVE  Acted(r, m, s) /\ JobsOf(s) = JobsOf(r)
<1>1. CASE s = r
  BY <1>1, ElsewhereActed DEF Elsewhere
<1>2. CASE s = StopTargeting(r, m)
  BY <1>2, StopTargetingActs
<1>3. CASE s = [r EXCEPT !.ready = @ \cup {m}]
  <2>1. Elsewhere(r, s) /\ s.hp = r.hp
    BY <1>3, ZenonT(40) DEF RoomType, Elsewhere, PlaceOf, ViewsOf, FlightOf, JobsOf
  <2> QED BY <2>1, ElsewhereActed
<1>4. CASE Connected(r.target[m]) /\ s = [OnDamaged(r, r.target[m]) EXCEPT !.ready = @ \ {m}]
  <2>1. r.target[m] \in Players
    BY <1>4, RoomIs DEF Connected
  <2>2. PICK t : t = OnDamaged(r, r.target[m])
    OBVIOUS
  <2>3. /\ t \in RoomType /\ \A x \in Actor : t.hp[x] <= r.hp[x]
        /\ PlaceOf(t) = PlaceOf(r) /\ ViewsOf(t) = ViewsOf(r) /\ FlightOf(t) = FlightOf(r)
        /\ JobsOf(t) = JobsOf(r)
    BY <2>1, <2>2, OnDamagedDoes, ObjectIs
  <2>4. t \in RoomType
    BY <2>3
  <2>5. s = [t EXCEPT !.ready = @ \ {m}]
    BY <1>4, <2>2
  <2>6. Elsewhere(t, s) /\ s.hp = t.hp
    BY <2>4, <2>5, ZenonT(40) DEF RoomType, Elsewhere, PlaceOf, ViewsOf, FlightOf, JobsOf
  <2> QED BY <2>3, <2>6, SamePlace DEF Elsewhere, Acted
<1>5. \/ s = r \/ s = StopTargeting(r, m) \/ s = [r EXCEPT !.ready = @ \cup {m}]
      \/ Connected(r.target[m]) /\ s = [OnDamaged(r, r.target[m]) EXCEPT !.ready = @ \ {m}]
  BY DEF UpdateSkill
<1> QED BY <1>1, <1>2, <1>3, <1>4, <1>5

\* A monster in the room acts and reserves its next update, with nothing in between
\* that returns without it (Monster.cpp:37-60).
LEMMA MonsterUpdateDoes ==
  ASSUME NEW r \in RoomType, NEW m \in Monsters, NEW s \in MonsterUpdate(r, m), m \in r.inRoom
  PROVE  /\ Acted(r, m, s)
         /\ s.queue = Unnamed(r.queue, m) /\ s.held = r.held \cup {m}
         /\ s.stray = [r.stray EXCEPT ![m] = IF m \in r.held THEN @ + 1 ELSE @]
<1>1. r.fsm[m] \in {"IDLE", "MOVING", "SKILL"}
  BY RoomIs
<1>2. PICK t \in UpdateIdle(r, m) \cup UpdateMoving(r, m) \cup UpdateSkill(r, m) : s = Reserve(t, m)
  BY <1>1 DEF MonsterUpdate
<1>3. Acted(r, m, t) /\ JobsOf(t) = JobsOf(r)
  BY UpdateIdleActs, UpdateMovingActs, UpdateSkillActs
<1>4. t.queue = r.queue /\ t.held = r.held /\ t.stray = r.stray
  BY <1>3 DEF JobsOf
<1>5. /\ s \in RoomType /\ s.queue = Unnamed(t.queue, m) /\ s.held = t.held \cup {m}
      /\ s.stray = [t.stray EXCEPT ![m] = IF m \in t.held THEN @ + 1 ELSE @]
      /\ PlaceOf(s) = PlaceOf(t) /\ ViewsOf(s) = ViewsOf(t)
      /\ FightOf(s) = FightOf(t) /\ FlightOf(s) = FlightOf(t)
  BY <1>2, <1>3, ReserveDoes, ObjectIs DEF Acted
<1>6. s.hp = t.hp
  BY <1>5 DEF FightOf
<1> QED BY <1>3, <1>4, <1>5, <1>6, SamePlace DEF Acted

\* The arrow has reserved its next update.
Armed(r, a) == [r EXCEPT !.stray[a] = @ + 1]

\* That is one more stray job, and no other change.
LEMMA ArmedDoes ==
  ASSUME NEW r \in RoomType, NEW a \in Arrows, NEW s, s = Armed(r, a)
  PROVE  /\ s \in RoomType /\ s.queue = r.queue /\ s.held = r.held
         /\ s.stray = [r.stray EXCEPT ![a] = @ + 1]
         /\ PlaceOf(s) = PlaceOf(r) /\ ViewsOf(s) = ViewsOf(r)
         /\ FightOf(s) = FightOf(r) /\ FlightOf(s) = FlightOf(r)
<1>1. a \in Object
  BY ObjectIs
<1>2. [r.stray EXCEPT ![a] = @ + 1] \in [Object -> Nat]
  BY <1>1, RoomIs
<1> QED BY <1>2, ZenonT(40) DEF Armed, RoomType, PlaceOf, ViewsOf, FightOf, FlightOf

\* The jobs but for those of monsters that died.
Thinned(r, s) ==
  \/ s.queue = r.queue /\ s.held = r.held
  \/ \E x \in Monsters :
       s.hp[x] = 0 /\ s.queue = Emptied(r.queue, x) /\ s.held = r.held \ {x}

\* What arrow a does before it queues its Leave.
Struck(r, a, s) ==
  /\ s \in RoomType /\ PlaceOf(s) = PlaceOf(r) /\ ViewsOf(s) = ViewsOf(r)
  /\ s.owner = r.owner /\ s.used = r.used /\ s.fault = r.fault
  /\ \A b \in Arrows : s.hits[b] <= r.hits[b] + (IF b = a THEN 1 ELSE 0)
  /\ s.stray = [r.stray EXCEPT ![a] = @ + 1] /\ Thinned(r, s)
  /\ \A x \in Actor : s.hp[x] <= r.hp[x]

\* One more hit of arrow a at most is counted.
Counted(u, a, s) ==
  /\ s.owner = u.owner /\ s.used = u.used /\ s.fault = u.fault
  /\ \A b \in Arrows : s.hits[b] <= u.hits[b] + (IF b = a THEN 1 ELSE 0)

\* Counting a hit of a.
LEMMA HitsCounted ==
  ASSUME NEW u \in RoomType, NEW a \in Arrows, NEW s, s = [u EXCEPT !.hits[a] = @ + 1]
  PROVE  /\ s \in RoomType /\ JobsOf(s) = JobsOf(u) /\ PlaceOf(s) = PlaceOf(u)
         /\ ViewsOf(s) = ViewsOf(u) /\ FightOf(s) = FightOf(u) /\ Counted(u, a, s)
<1>1. PICK h : h = [u.hits EXCEPT ![a] = @ + 1]
  OBVIOUS
<1>2. u.hits \in [Arrows -> Nat]
  BY RoomIs
<1>3. h \in [Arrows -> Nat] /\ \A b \in Arrows : h[b] <= u.hits[b] + (IF b = a THEN 1 ELSE 0)
  BY <1>1, <1>2
<1>4. [u EXCEPT !.hits[a] = @ + 1] = [u EXCEPT !.hits = h]
  BY <1>1 DEF RoomType
<1>5. PICK t : t = [u EXCEPT !.hits = h]
  OBVIOUS
<1>6. t \in RoomType
  BY <1>3, <1>5, ZenonT(40) DEF RoomType
<1>7. /\ JobsOf(t) = JobsOf(u) /\ PlaceOf(t) = PlaceOf(u)
      /\ ViewsOf(t) = ViewsOf(u) /\ FightOf(t) = FightOf(u)
  BY <1>5 DEF RoomType, PlaceOf, ViewsOf, FightOf, JobsOf
<1>8. t.owner = u.owner /\ t.used = u.used /\ t.fault = u.fault /\ t.hits = h
  BY <1>5 DEF RoomType
<1>9. Counted(u, a, t)
  BY <1>3, <1>8 DEF Counted
<1>10. s = t
  BY <1>4, <1>5
<1> QED BY <1>6, <1>7, <1>9, <1>10

\* An arrow that hits strikes once.
LEMMA HitStrikes ==
  ASSUME NEW r \in RoomType, NEW a \in Arrows, NEW t, t = Armed(r, a),
         NEW o \in Object, NEW s, s = [OnDamaged(t, o) EXCEPT !.hits[a] = @ + 1]
  PROVE  Struck(r, a, s)
<1>1. /\ t \in RoomType /\ t.queue = r.queue /\ t.held = r.held
      /\ t.stray = [r.stray EXCEPT ![a] = @ + 1]
      /\ PlaceOf(t) = PlaceOf(r) /\ ViewsOf(t) = ViewsOf(r)
      /\ FightOf(t) = FightOf(r) /\ FlightOf(t) = FlightOf(r)
  BY ArmedDoes
<1>2. PICK u : u = OnDamaged(t, o)
  OBVIOUS
<1>3. /\ u \in RoomType
      /\ \A x \in Actor : u.hp[x] <= t.hp[x]
      /\ PlaceOf(u) = PlaceOf(t) /\ ViewsOf(u) = ViewsOf(t) /\ FlightOf(u) = FlightOf(t)
      /\ \/ JobsOf(u) = JobsOf(t)
         \/ /\ o \in Monsters /\ u.hp[o] = 0
            /\ u.queue = Emptied(t.queue, o) /\ u.held = t.held \ {o} /\ u.stray = t.stray
  BY <1>1, <1>2, OnDamagedDoes
<1>4. u \in RoomType
  BY <1>3
<1>5. s = [u EXCEPT !.hits[a] = @ + 1]
  BY <1>2
<1>6. /\ s \in RoomType /\ JobsOf(s) = JobsOf(u) /\ PlaceOf(s) = PlaceOf(u)
      /\ ViewsOf(s) = ViewsOf(u) /\ FightOf(s) = FightOf(u) /\ Counted(u, a, s)
  BY <1>4, <1>5, HitsCounted
<1>7. u.owner = r.owner /\ u.used = r.used /\ u.fault = r.fault /\ u.hits = r.hits
  BY <1>1, <1>3 DEF FlightOf
<1>8. s.hp = u.hp /\ t.hp = r.hp
  BY <1>1, <1>6 DEF FightOf
<1>9. s.queue = u.queue /\ s.held = u.held /\ s.stray = u.stray
  BY <1>6 DEF JobsOf
<1>10. s.stray = t.stray /\ Thinned(r, s)
  BY <1>1, <1>3, <1>8, <1>9 DEF Thinned, JobsOf
<1>11. \A b \in Arrows : s.hits[b] <= r.hits[b] + (IF b = a THEN 1 ELSE 0)
  BY <1>6, <1>7 DEF Counted
<1> QED BY <1>1, <1>3, <1>6, <1>7, <1>8, <1>10, <1>11 DEF Struck, Counted

\* One that meets a wall strikes nobody.
LEMMA MissStrikes ==
  ASSUME NEW r \in RoomType, NEW a \in Arrows, NEW s, s = Armed(r, a)
  PROVE  Struck(r, a, s)
<1>1. /\ s \in RoomType /\ s.queue = r.queue /\ s.held = r.held
      /\ s.stray = [r.stray EXCEPT ![a] = @ + 1]
      /\ PlaceOf(s) = PlaceOf(r) /\ ViewsOf(s) = ViewsOf(r)
      /\ FightOf(s) = FightOf(r) /\ FlightOf(s) = FlightOf(r)
  BY ArmedDoes
<1>2. /\ s.owner = r.owner /\ s.used = r.used /\ s.fault = r.fault /\ s.hits = r.hits
      /\ s.hp = r.hp
  BY <1>1 DEF FlightOf, FightOf
<1>3. \A b \in Arrows : r.hits[b] \in Nat
  BY RoomIs
<1> QED BY <1>1, <1>2, <1>3, HpIsNumber DEF Struck, Thinned

\* An arrow flies on, or strikes and queues its Leave.
ArrowFlies(r, a, s) ==
  /\ s \in RoomType /\ Moves(r, a, s) /\ ViewsOf(s) = ViewsOf(r) /\ FightOf(s) = FightOf(r)
  /\ FlightOf(s) = FlightOf(r) /\ s.queue = r.queue /\ s.held = r.held
  /\ s.stray = [r.stray EXCEPT ![a] = @ + 1]

\* An arrow at a wall or a target queues its Leave after that.
ArrowStrikes(r, a, s) ==
  \E t : Struck(r, a, t) /\ s = PushJob(t, NewJob("leave", a))

\* An arrow flies on or it queues its Leave; either way it has its next update
\* reserved (Arrow.cpp:7-31).
LEMMA ArrowUpdateDoes ==
  ASSUME NEW r \in RoomType, NEW a \in Arrows, NEW s, s = ArrowUpdate(r, a),
         r.owner[a] # None, a \in r.inRoom
  PROVE  ArrowFlies(r, a, s) \/ ArrowStrikes(r, a, s)
<1> DEFINE dest == FrontCell(r.cell[a], r.dir[a])
           target == IF dest \in Cell THEN r.grid[dest] ELSE None
<1>1. PICK t : t = Armed(r, a)
  OBVIOUS
<1>2. /\ t \in RoomType /\ t.queue = r.queue /\ t.held = r.held
      /\ t.stray = [r.stray EXCEPT ![a] = @ + 1]
      /\ PlaceOf(t) = PlaceOf(r) /\ ViewsOf(t) = ViewsOf(r)
      /\ FightOf(t) = FightOf(r) /\ FlightOf(t) = FlightOf(r)
  BY <1>1, ArmedDoes
<1>3. target \in Object \cup {None}
  BY RoomIs
<1>4. \/ s = ApplyMove(t, a, dest)
      \/ target = None /\ s = PushJob(t, NewJob("leave", a))
      \/ /\ target # None
         /\ s = PushJob([OnDamaged(t, target) EXCEPT !.hits[a] = @ + 1], NewJob("leave", a))
  BY <1>1 DEF ArrowUpdate, Armed
<1> HIDE DEF dest, target
<1>5. a \in Object
  BY ObjectIs
<1>6. CASE s = ApplyMove(t, a, dest)
  <2>1. /\ s \in RoomType /\ JobsOf(s) = JobsOf(t) /\ ViewsOf(s) = ViewsOf(t)
        /\ FightOf(s) = FightOf(t) /\ FlightOf(s) = FlightOf(t) /\ Moves(t, a, s)
    BY <1>2, <1>5, <1>6, ApplyMoveDoes
  <2>3. s.queue = t.queue /\ s.held = t.held /\ s.stray = t.stray
    BY <2>1 DEF JobsOf
  <2> QED BY <1>2, <2>1, <2>3, SamePlace DEF ArrowFlies
<1>7. CASE target = None /\ s = PushJob(t, NewJob("leave", a))
  BY <1>1, <1>7, MissStrikes DEF ArrowStrikes
<1>8. CASE /\ target # None
           /\ s = PushJob([OnDamaged(t, target) EXCEPT !.hits[a] = @ + 1], NewJob("leave", a))
  <2>1. PICK u : u = [OnDamaged(t, target) EXCEPT !.hits[a] = @ + 1]
    OBVIOUS
  <2>2. Struck(r, a, u)
    BY <1>1, <1>3, <1>8, <2>1, HitStrikes
  <2> QED BY <1>8, <2>1, <2>2 DEF ArrowStrikes
<1> QED BY <1>4, <1>6, <1>7, <1>8

-----------------------------------------------------------------------------
(* Room::Enter.                                                            *)

\* At most the reserved jobs of o have changed.
Touched(r, o, s) ==
  /\ DOMAIN s.queue = DOMAIN r.queue
  /\ \A i \in DOMAIN r.queue :
       /\ s.queue[i].obj = r.queue[i].obj
       /\ (r.queue[i].obj # o \/ ~r.queue[i].held) => s.queue[i] = r.queue[i]
       /\ s.queue[i].held => s.queue[i] = r.queue[i]
       /\ s.queue[i].op \in {r.queue[i].op, "none"}
  /\ s.held \ {o} = r.held \ {o}
  /\ \A x \in Object \ {o} : s.stray[x] = r.stray[x]
  /\ o \notin r.held => s.stray[o] = r.stray[o]

\* A lost handle is a change of the reserved jobs of o alone.
LEMMA UnnamedKeeps ==
  ASSUME NEW q \in Seq(Job), NEW o \in Object
  PROVE  \A i \in DOMAIN q :
           /\ (q[i].obj # o \/ ~q[i].held) => Unnamed(q, o)[i] = q[i]
           /\ Unnamed(q, o)[i].held => Unnamed(q, o)[i] = q[i]
<1>1. \A i \in DOMAIN q : q[i] \in Job
  OBVIOUS
<1>2. ASSUME NEW i \in DOMAIN q, q[i].obj = o, ~q[i].held PROVE Unnamed(q, o)[i] = q[i]
  BY <1>1, <1>2 DEF Unnamed, Job
<1>3. ASSUME NEW i \in DOMAIN q, Unnamed(q, o)[i].held PROVE q[i].obj # o
  BY <1>1, <1>3 DEF Unnamed, Job
<1>4. \A i \in DOMAIN q : q[i].obj # o => Unnamed(q, o)[i] = q[i]
  BY UnnamedIs
<1> QED BY <1>2, <1>3, <1>4

\* So it is for the room.
LEMMA LoseHandleTouches ==
  ASSUME NEW r \in RoomType, NEW o \in Object, NEW s,
         \/ s = LoseHandle(r, o) \/ s = Reserve(r, o) \/ s = Cancel(r, o)
  PROVE  Touched(r, o, s)
<1>1. r.queue \in Seq(Job) /\ r.stray \in [Object -> Nat]
  BY RoomIs
<1>2. CASE s = LoseHandle(r, o) \/ s = Reserve(r, o)
  <2>1. /\ s.queue = Unnamed(r.queue, o) /\ s.held \ {o} = r.held \ {o}
        /\ s.stray = [r.stray EXCEPT ![o] = IF o \in r.held THEN @ + 1 ELSE @]
    BY <1>2, LoseHandleDoes, ReserveDoes
  <2>2. /\ \A x \in Object \ {o} : s.stray[x] = r.stray[x]
        /\ o \notin r.held => s.stray[o] = r.stray[o]
    BY <1>1, <2>1
  <2> QED BY <1>1, <2>1, <2>2, UnnamedIs, UnnamedKeeps DEF Touched
<1>3. CASE s = Cancel(r, o)
  <2>1. s.queue = Emptied(r.queue, o) /\ s.held = r.held \ {o} /\ s.stray = r.stray
    BY <1>3, CancelDoes
  <2>2. NewJob("none", o).held = FALSE /\ NewJob("none", o).op = "none"
    BY DEF NewJob
  <2> QED BY <1>1, <2>1, <2>2, EmptiedIs DEF Touched
<1> QED BY <1>2, <1>3

\* Two such changes are one.
LEMMA TouchedTwice ==
  ASSUME NEW r, NEW o \in Object, NEW s, NEW t, Touched(r, o, s), Touched(s, o, t), o \notin s.held
  PROVE  Touched(r, o, t)
BY DEF Touched

\* No change is one.
LEMMA TouchedSame ==
  ASSUME NEW r, NEW o, NEW s, NEW t
  PROVE  /\ (JobsOf(s) = JobsOf(r) /\ Touched(r, o, t)) => Touched(s, o, t)
         /\ (JobsOf(t) = JobsOf(s) /\ Touched(r, o, s)) => Touched(r, o, t)
         /\ JobsOf(s) = JobsOf(r) => Touched(r, o, s)
BY DEF Touched, JobsOf

\* o is in the room now, at pos.
Arrives(r, o, pos, s) ==
  /\ s.inRoom = r.inRoom \cup {o} /\ s.present = r.present \cup {o}
  /\ s.cell = [r.cell EXCEPT ![o] = pos] /\ s.grid = [r.grid EXCEPT ![pos] = o]
  /\ s.zone = [r.zone EXCEPT ![ZoneOf(pos)] = @ \cup {o}]

\* Room::Enter of a player, in parts (Room.cpp:82-104).
Standing(r, p, pos) ==
  [r EXCEPT !.cell[p] = pos, !.inRoom = @ \cup {p}, !.present = @ \cup {p}]
Zoned(r, p, pos) == [r EXCEPT !.zone[ZoneOf(pos)] = @ \cup {p}]
Cubed(r, p) == [LoseHandle(r, p) EXCEPT !.prev[p] = {}]

\* EnterPlayer is these parts.
LEMMA EnterPlayerIs ==
  ASSUME NEW r, NEW p, NEW pos
  PROVE  EnterPlayer(r, p, pos) =
           Spawn(ViewUpdate(Cubed(Zoned(ApplyMove(Standing(r, p, pos), p, pos), p, pos), p), p), pos, p)
BY DEF EnterPlayer, Cubed, Zoned, Standing

\* The player stands in the room.
LEMMA StandingDoes ==
  ASSUME NEW r \in RoomType, NEW p \in Players, NEW pos \in Cell, NEW s, s = Standing(r, p, pos)
  PROVE  /\ s \in RoomType /\ JobsOf(s) = JobsOf(r) /\ ViewsOf(s) = ViewsOf(r)
         /\ FightOf(s) = FightOf(r) /\ FlightOf(s) = FlightOf(r)
         /\ PlaceOf(s) = <<r.present \cup {p}, r.inRoom \cup {p}, [r.cell EXCEPT ![p] = pos], r.grid, r.zone>>
<1>1. p \in Object
  BY ObjectIs
<1>2. PICK C : C = [r.cell EXCEPT ![p] = pos]
  OBVIOUS
<1>3. C \in [Object -> Cell]
  BY <1>1, <1>2, RoomIs
<1>4. Standing(r, p, pos) = [r EXCEPT !.cell = C, !.inRoom = @ \cup {p}, !.present = @ \cup {p}]
  BY <1>2 DEF Standing, RoomType
<1>5. PICK t : t = [r EXCEPT !.cell = C, !.inRoom = @ \cup {p}, !.present = @ \cup {p}]
  OBVIOUS
<1>6. t \in RoomType
  BY <1>1, <1>3, <1>5, ZenonT(40) DEF RoomType
<1>7. /\ JobsOf(t) = JobsOf(r) /\ ViewsOf(t) = ViewsOf(r)
      /\ FightOf(t) = FightOf(r) /\ FlightOf(t) = FlightOf(r)
      /\ PlaceOf(t) = <<r.present \cup {p}, r.inRoom \cup {p}, C, r.grid, r.zone>>
  BY <1>5 DEF RoomType, PlaceOf, JobsOf, ViewsOf, FightOf, FlightOf
<1> QED BY <1>2, <1>4, <1>5, <1>6, <1>7

\* He is a member of a Zone.
LEMMA ZonedDoes ==
  ASSUME NEW r \in RoomType, NEW p \in Object, NEW pos \in Cell, NEW s, s = Zoned(r, p, pos)
  PROVE  /\ s \in RoomType /\ JobsOf(s) = JobsOf(r) /\ ViewsOf(s) = ViewsOf(r)
         /\ FightOf(s) = FightOf(r) /\ FlightOf(s) = FlightOf(r)
         /\ PlaceOf(s) = <<r.present, r.inRoom, r.cell, r.grid, [r.zone EXCEPT ![ZoneOf(pos)] = @ \cup {p}]>>
<1>2. PICK Z : Z = [r.zone EXCEPT ![ZoneOf(pos)] = @ \cup {p}]
  OBVIOUS
<1>3. Z \in [Zone -> SUBSET Object]
  <2>1. r.zone \in [Zone -> SUBSET Object] /\ ZoneOf(pos) \in Zone
    BY RoomIs, CellsAreZoned
  <2>2. r.zone[ZoneOf(pos)] \cup {p} \in SUBSET Object
    BY <2>1
  <2> QED BY <1>2, <2>1, <2>2
<1>4. Zoned(r, p, pos) = [r EXCEPT !.zone = Z]
  BY <1>2 DEF Zoned, RoomType
<1>5. PICK t : t = [r EXCEPT !.zone = Z]
  OBVIOUS
<1>6. t \in RoomType
  BY <1>3, <1>5, ZenonT(40) DEF RoomType
<1>7. /\ JobsOf(t) = JobsOf(r) /\ ViewsOf(t) = ViewsOf(r)
      /\ FightOf(t) = FightOf(r) /\ FlightOf(t) = FlightOf(r)
      /\ PlaceOf(t) = <<r.present, r.inRoom, r.cell, r.grid, Z>>
  BY <1>5 DEF RoomType, PlaceOf, JobsOf, ViewsOf, FightOf, FlightOf
<1> QED BY <1>2, <1>4, <1>5, <1>6, <1>7

\* He has a new ViewCube with nothing shown and no job of the old one.
LEMMA CubedDoes ==
  ASSUME NEW r \in RoomType, NEW p \in Players, NEW s, s = Cubed(r, p)
  PROVE  /\ s \in RoomType /\ Touched(r, p, s) /\ p \notin s.held
         /\ PlaceOf(s) = PlaceOf(r) /\ FightOf(s) = FightOf(r) /\ FlightOf(s) = FlightOf(r)
         /\ Seen(r) => Seen(s)
<1>1. p \in Object
  BY ObjectIs
<1>2. PICK l : l = LoseHandle(r, p)
  OBVIOUS
<1>3. /\ l \in RoomType /\ l.held = r.held \ {p}
      /\ PlaceOf(l) = PlaceOf(r) /\ ViewsOf(l) = ViewsOf(r)
      /\ FightOf(l) = FightOf(r) /\ FlightOf(l) = FlightOf(r)
  BY <1>1, <1>2, LoseHandleDoes
<1>4. Touched(r, p, l)
  BY <1>1, <1>2, LoseHandleTouches
<1>5. PICK P : P = [l.prev EXCEPT ![p] = {}]
  OBVIOUS
<1>6. P \in [Players -> SUBSET Object]
  BY <1>3, <1>5, RoomIs
<1>7. l \in RoomType
  BY <1>3
<1>8. [l EXCEPT !.prev[p] = {}] = [l EXCEPT !.prev = P]
  BY <1>5, <1>7 DEF RoomType
<1>9. PICK t : t = [l EXCEPT !.prev = P]
  OBVIOUS
<1>10. t \in RoomType
  BY <1>6, <1>7, <1>9, ZenonT(40) DEF RoomType
<1>11. /\ JobsOf(t) = JobsOf(l) /\ PlaceOf(t) = PlaceOf(l)
       /\ FightOf(t) = FightOf(l) /\ FlightOf(t) = FlightOf(l)
       /\ ViewsOf(t) = <<P, l.known, l.gone>>
  BY <1>7, <1>9 DEF RoomType, PlaceOf, JobsOf, ViewsOf, FightOf, FlightOf
<1>12. s = t
  BY <1>2, <1>8, <1>9 DEF Cubed
<1>13. Seen(r) => Seen(t)
  <2>1. l.prev = r.prev /\ l.known = r.known /\ l.gone = r.gone
    BY <1>3 DEF ViewsOf
  <2>2. t.prev = P /\ t.known = l.known /\ t.gone = l.gone
    BY <1>11 DEF ViewsOf
  <2>3. P[p] = {} /\ \A q \in Players \ {p} : P[q] = l.prev[q]
    BY <1>5, <1>7, RoomIs
  <2> QED BY <2>1, <2>2, <2>3 DEF Seen
<1>14. p \notin t.held
  BY <1>3, <1>11 DEF JobsOf
<1> QED BY <1>3, <1>4, <1>10, <1>11, <1>12, <1>13, <1>14, TouchedSame

\* After Room::Enter the player is at pos in the room, with the next update of his
\* view reserved.
LEMMA EnterPlayerDoes ==
  ASSUME NEW r \in RoomType, NEW p \in Players, NEW pos \in RandomCells(r),
         NEW s, s = EnterPlayer(r, p, pos)
  PROVE  /\ s \in RoomType /\ Touched(r, p, s) /\ p \in s.held
         /\ FightOf(s) = FightOf(r) /\ FlightOf(s) = FlightOf(r)
         /\ Seen(r) => Seen(s)
         /\ Arrives(r, p, pos, s)
<1>1. p \in Object /\ pos \in Cell /\ r.grid[pos] = None /\ CanGo(r, pos)
  BY ObjectIs DEF RandomCells, CanGo
<1>2. PICK t : t = Standing(r, p, pos)
  OBVIOUS
<1>3. /\ t \in RoomType /\ JobsOf(t) = JobsOf(r) /\ ViewsOf(t) = ViewsOf(r)
      /\ FightOf(t) = FightOf(r) /\ FlightOf(t) = FlightOf(r)
      /\ PlaceOf(t) = <<r.present \cup {p}, r.inRoom \cup {p}, [r.cell EXCEPT ![p] = pos], r.grid, r.zone>>
  BY <1>1, <1>2, StandingDoes
<1>4. PICK u : u = ApplyMove(t, p, pos)
  OBVIOUS
<1>5. /\ u \in RoomType /\ JobsOf(u) = JobsOf(t) /\ ViewsOf(u) = ViewsOf(t)
      /\ FightOf(u) = FightOf(t) /\ FlightOf(u) = FlightOf(t)
  BY <1>1, <1>3, <1>4, ApplyMoveDoes
<1>6. PlaceOf(u) = <<r.present \cup {p}, r.inRoom \cup {p}, [r.cell EXCEPT ![p] = pos],
                     [r.grid EXCEPT ![pos] = p], r.zone>>
  <2>1. /\ t.present = r.present \cup {p} /\ t.inRoom = r.inRoom \cup {p}
        /\ t.cell = [r.cell EXCEPT ![p] = pos] /\ t.grid = r.grid /\ t.zone = r.zone
    BY <1>3 DEF PlaceOf
  <2>2. r.cell \in [Object -> Cell] /\ r.grid \in [Cell -> Object \cup {None}]
    BY RoomIs
  <2>3. t.cell[p] = pos /\ [t.cell EXCEPT ![p] = pos] = t.cell /\ p # None
    BY <1>1, <2>1, <2>2, ObjectIs
  <2>4. MayMove(t, p, pos)
    BY <1>1, <2>1 DEF MayMove, CanGo
  <2>5. MovedGrid(t, p, pos) = [r.grid EXCEPT ![pos] = p] /\ MovedZone(t, p, pos) = r.zone
    BY <1>1, <2>1, <2>3 DEF MovedGrid, MovedZone
  <2>6. u = WithPlace(t, t.present, t.inRoom, [t.cell EXCEPT ![p] = pos],
                      MovedGrid(t, p, pos), MovedZone(t, p, pos))
    BY <1>1, <1>3, <1>4, <2>4, ApplyMoveIs
  <2>7. u = WithPlace(t, t.present, t.inRoom, t.cell, [r.grid EXCEPT ![pos] = p], t.zone)
    BY <2>1, <2>3, <2>5, <2>6
  <2>8. PICK G : G = [r.grid EXCEPT ![pos] = p]
    OBVIOUS
  <2>9. PlaceOf(u) = <<t.present, t.inRoom, t.cell, G, t.zone>>
    <3>1. u = WithPlace(t, t.present, t.inRoom, t.cell, G, t.zone)
      BY <2>7, <2>8
    <3> QED BY <1>3, <3>1 DEF WithPlace, PlaceOf, RoomType
  <2> QED BY <2>1, <2>8, <2>9
<1>7. PICK z : z = Zoned(u, p, pos)
  OBVIOUS
<1>8. /\ z \in RoomType /\ JobsOf(z) = JobsOf(u) /\ ViewsOf(z) = ViewsOf(u)
      /\ FightOf(z) = FightOf(u) /\ FlightOf(z) = FlightOf(u)
      /\ PlaceOf(z) = <<u.present, u.inRoom, u.cell, u.grid, [u.zone EXCEPT ![ZoneOf(pos)] = @ \cup {p}]>>
  BY <1>1, <1>5, <1>7, ZonedDoes
<1>9. PICK c : c = Cubed(z, p)
  OBVIOUS
<1>10. /\ c \in RoomType /\ Touched(z, p, c) /\ p \notin c.held
       /\ PlaceOf(c) = PlaceOf(z) /\ FightOf(c) = FightOf(z) /\ FlightOf(c) = FlightOf(z)
       /\ Seen(z) => Seen(c)
  BY <1>8, <1>9, CubedDoes
<1>11. PICK v : v = ViewUpdate(c, p)
  OBVIOUS
<1>12. /\ v \in RoomType
       /\ Seen(c) => Seen(v)
       /\ v.queue = Unnamed(c.queue, p) /\ v.held = c.held \cup {p}
       /\ v.stray = [c.stray EXCEPT ![p] = IF p \in c.held THEN @ + 1 ELSE @]
       /\ PlaceOf(v) = PlaceOf(c) /\ FightOf(v) = FightOf(c) /\ FlightOf(v) = FlightOf(c)
  BY <1>10, <1>11, ViewUpdateDoes
<1>13. Touched(c, p, v) /\ p \in v.held
  <2>1. PICK x : x = Reserve(c, p)
    OBVIOUS
  <2>2. /\ x.queue = Unnamed(c.queue, p) /\ x.held = c.held \cup {p}
        /\ x.stray = [c.stray EXCEPT ![p] = IF p \in c.held THEN @ + 1 ELSE @]
    BY <1>1, <1>10, <2>1, ReserveDoes
  <2>3. JobsOf(v) = JobsOf(x)
    BY <1>12, <2>2 DEF JobsOf
  <2>4. Touched(c, p, x)
    BY <1>1, <1>10, <2>1, LoseHandleTouches
  <2> QED BY <1>12, <2>3, <2>4, TouchedSame
<1>14. s = Spawn(v, pos, p)
  BY <1>2, <1>4, <1>7, <1>9, <1>11, EnterPlayerIs
<1>15. /\ s \in RoomType
       /\ Seen(v) => Seen(s)
       /\ PlaceOf(s) = PlaceOf(v) /\ JobsOf(s) = JobsOf(v)
       /\ FightOf(s) = FightOf(v) /\ FlightOf(s) = FlightOf(v)
  <2>1. v \in RoomType
    BY <1>12
  <2> QED BY <1>1, <1>14, <2>1, SpawnDoes
<1>16. Touched(r, p, s)
  <2>1. Touched(z, p, v)
    BY <1>1, <1>10, <1>13, TouchedTwice
  <2>2. JobsOf(z) = JobsOf(r)
    BY <1>3, <1>5, <1>8
  <2>3. Touched(r, p, v)
    BY <2>1, <2>2, TouchedSame
  <2> QED BY <1>15, <2>3, TouchedSame
<1>17. Seen(r) => Seen(z)
  <2>1. ViewsOf(z) = ViewsOf(r)
    BY <1>3, <1>5, <1>8
  <2> QED BY <2>1 DEF Seen, ViewsOf
<1>18. p \in s.held
  BY <1>13, <1>15 DEF JobsOf
<1>19. Arrives(r, p, pos, s)
  <2>1. PlaceOf(s) = PlaceOf(z)
    BY <1>10, <1>12, <1>15
  <2>2. /\ u.present = r.present \cup {p} /\ u.inRoom = r.inRoom \cup {p}
        /\ u.cell = [r.cell EXCEPT ![p] = pos] /\ u.grid = [r.grid EXCEPT ![pos] = p] /\ u.zone = r.zone
    BY <1>6 DEF PlaceOf
  <2>3. PICK Z : Z = [u.zone EXCEPT ![ZoneOf(pos)] = @ \cup {p}]
    OBVIOUS
  <2>4. PlaceOf(s) = <<u.present, u.inRoom, u.cell, u.grid, Z>>
    BY <1>8, <2>1, <2>3
  <2>5. s.present = u.present /\ s.inRoom = u.inRoom /\ s.cell = u.cell /\ s.grid = u.grid /\ s.zone = Z
    BY <2>4 DEF PlaceOf
  <2>6. Z = [r.zone EXCEPT ![ZoneOf(pos)] = @ \cup {p}]
    BY <2>2, <2>3
  <2> QED BY <2>2, <2>5, <2>6, Zenon DEF Arrives
<1>20. FightOf(s) = FightOf(r) /\ FlightOf(s) = FlightOf(r)
  BY <1>3, <1>5, <1>8, <1>10, <1>12, <1>15
<1> QED BY <1>10, <1>12, <1>15, <1>16, <1>17, <1>18, <1>19, <1>20

\* o is in _monsters or _projectiles.
Shown(r, o) == [r EXCEPT !.present = @ \cup {o}]

\* That is a change of place.
LEMMA ShownDoes ==
  ASSUME NEW r \in RoomType, NEW o \in Object, NEW s, s = Shown(r, o)
  PROVE  /\ s \in RoomType /\ JobsOf(s) = JobsOf(r) /\ ViewsOf(s) = ViewsOf(r)
         /\ FightOf(s) = FightOf(r) /\ FlightOf(s) = FlightOf(r)
         /\ PlaceOf(s) = <<r.present \cup {o}, r.inRoom, r.cell, r.grid, r.zone>>
BY ZenonT(40) DEF Shown, RoomType, PlaceOf, JobsOf, ViewsOf, FightOf, FlightOf

\* The monster is in its room and Zone.
Brought(r, m, pos) ==
  [r EXCEPT !.cell[m] = pos, !.inRoom = @ \cup {m}, !.zone[ZoneOf(pos)] = @ \cup {m}]

\* That is a change of place too.
LEMMA BroughtDoes ==
  ASSUME NEW r \in RoomType, NEW m \in Monsters, NEW pos \in Cell, NEW s, s = Brought(r, m, pos)
  PROVE  /\ s \in RoomType /\ JobsOf(s) = JobsOf(r) /\ ViewsOf(s) = ViewsOf(r)
         /\ FightOf(s) = FightOf(r) /\ FlightOf(s) = FlightOf(r)
         /\ PlaceOf(s) = <<r.present, r.inRoom \cup {m}, [r.cell EXCEPT ![m] = pos], r.grid,
                           [r.zone EXCEPT ![ZoneOf(pos)] = @ \cup {m}]>>
<1>1. m \in Object
  BY ObjectIs
<1>2. PICK C : C = [r.cell EXCEPT ![m] = pos]
  OBVIOUS
<1>3. C \in [Object -> Cell]
  BY <1>1, <1>2, RoomIs
<1>4. PICK Z : Z = [r.zone EXCEPT ![ZoneOf(pos)] = @ \cup {m}]
  OBVIOUS
<1>5. Z \in [Zone -> SUBSET Object]
  <2>1. r.zone \in [Zone -> SUBSET Object] /\ ZoneOf(pos) \in Zone
    BY RoomIs, CellsAreZoned
  <2>2. r.zone[ZoneOf(pos)] \cup {m} \in SUBSET Object
    BY <1>1, <2>1
  <2> QED BY <1>4, <2>1, <2>2
<1>6. Brought(r, m, pos) = [r EXCEPT !.cell = C, !.inRoom = @ \cup {m}, !.zone = Z]
  BY <1>2, <1>4 DEF Brought, RoomType
<1>7. PICK t : t = [r EXCEPT !.cell = C, !.inRoom = @ \cup {m}, !.zone = Z]
  OBVIOUS
<1>8. t \in RoomType
  BY <1>1, <1>3, <1>5, <1>7, ZenonT(40) DEF RoomType
<1>9. /\ JobsOf(t) = JobsOf(r) /\ ViewsOf(t) = ViewsOf(r)
      /\ FightOf(t) = FightOf(r) /\ FlightOf(t) = FlightOf(r)
      /\ PlaceOf(t) = <<r.present, r.inRoom \cup {m}, C, r.grid, Z>>
  BY <1>7 DEF RoomType, PlaceOf, JobsOf, ViewsOf, FightOf, FlightOf
<1> QED BY <1>2, <1>4, <1>6, <1>7, <1>8, <1>9

\* A monster arrives and acts at once.
LEMMA EnterMonsterDoes ==
  ASSUME NEW r \in RoomType, NEW m \in Monsters, NEW pos \in RandomCells(r),
         NEW s \in EnterMonster(r, m, pos)
  PROVE  /\ s \in RoomType /\ Touched(r, m, s) /\ m \in s.held
         /\ FlightOf(s) = FlightOf(r)
         /\ \A x \in Actor : s.hp[x] <= r.hp[x]
         /\ Seen(r) => Seen(s)
         /\ \E w \in RoomType : Arrives(r, m, pos, w) /\ Moves(w, m, s)
<1>1. m \in Object /\ pos \in Cell /\ r.grid[pos] = None /\ CanGo(r, pos)
  BY ObjectIs DEF RandomCells, CanGo
<1>2. PICK z : z = Brought(r, m, pos)
  OBVIOUS
<1>3. /\ z \in RoomType /\ JobsOf(z) = JobsOf(r) /\ ViewsOf(z) = ViewsOf(r)
      /\ FightOf(z) = FightOf(r) /\ FlightOf(z) = FlightOf(r)
      /\ PlaceOf(z) = <<r.present, r.inRoom \cup {m}, [r.cell EXCEPT ![m] = pos], r.grid,
                        [r.zone EXCEPT ![ZoneOf(pos)] = @ \cup {m}]>>
  BY <1>1, <1>2, BroughtDoes
<1>4. PICK u : u = ApplyMove(z, m, pos)
  OBVIOUS
<1>5. /\ u \in RoomType /\ JobsOf(u) = JobsOf(z) /\ ViewsOf(u) = ViewsOf(z)
      /\ FightOf(u) = FightOf(z) /\ FlightOf(u) = FlightOf(z)
  BY <1>1, <1>3, <1>4, ApplyMoveDoes
<1>6. PlaceOf(u) = <<r.present, r.inRoom \cup {m}, [r.cell EXCEPT ![m] = pos],
                     [r.grid EXCEPT ![pos] = m], [r.zone EXCEPT ![ZoneOf(pos)] = @ \cup {m}]>>
  <2>1. /\ z.present = r.present /\ z.inRoom = r.inRoom \cup {m}
        /\ z.cell = [r.cell EXCEPT ![m] = pos] /\ z.grid = r.grid
        /\ z.zone = [r.zone EXCEPT ![ZoneOf(pos)] = @ \cup {m}]
    BY <1>3 DEF PlaceOf
  <2>2. r.cell \in [Object -> Cell] /\ r.grid \in [Cell -> Object \cup {None}]
    BY RoomIs
  <2>3. z.cell[m] = pos /\ [z.cell EXCEPT ![m] = pos] = z.cell /\ m # None
    BY <1>1, <2>1, <2>2, ObjectIs
  <2>4. MayMove(z, m, pos)
    BY <1>1, <2>1 DEF MayMove, CanGo
  <2>5. MovedGrid(z, m, pos) = [r.grid EXCEPT ![pos] = m] /\ MovedZone(z, m, pos) = z.zone
    BY <1>1, <2>1, <2>3 DEF MovedGrid, MovedZone
  <2>6. u = WithPlace(z, z.present, z.inRoom, [z.cell EXCEPT ![m] = pos],
                      MovedGrid(z, m, pos), MovedZone(z, m, pos))
    BY <1>1, <1>3, <1>4, <2>4, ApplyMoveIs
  <2>7. u = WithPlace(z, z.present, z.inRoom, z.cell, [r.grid EXCEPT ![pos] = m], z.zone)
    BY <2>3, <2>5, <2>6
  <2>8. PICK G : G = [r.grid EXCEPT ![pos] = m]
    OBVIOUS
  <2>9. PlaceOf(u) = <<z.present, z.inRoom, z.cell, G, z.zone>>
    <3>1. u = WithPlace(z, z.present, z.inRoom, z.cell, G, z.zone)
      BY <2>7, <2>8
    <3>2. z \in RoomType
      BY <1>3
    <3> QED BY <3>1, <3>2 DEF WithPlace, PlaceOf, RoomType
  <2> QED BY <2>1, <2>8, <2>9
<1>7. m \in u.inRoom
  BY <1>6 DEF PlaceOf
<1>8. PICK y \in MonsterUpdate(u, m) : s = Spawn(Shown(y, m), pos, m)
  BY <1>2, <1>4 DEF EnterMonster, Brought, Shown
<1>9. /\ Acted(u, m, y) /\ y.queue = Unnamed(u.queue, m) /\ y.held = u.held \cup {m}
      /\ y.stray = [u.stray EXCEPT ![m] = IF m \in u.held THEN @ + 1 ELSE @]
  BY <1>5, <1>7, MonsterUpdateDoes
<1>10. /\ y \in RoomType /\ Moves(u, m, y) /\ ViewsOf(y) = ViewsOf(u) /\ FlightOf(y) = FlightOf(u)
       /\ \A x \in Actor : y.hp[x] <= u.hp[x]
  BY <1>9 DEF Acted
<1>11. Touched(u, m, y)
  <2>1. PICK x : x = Reserve(u, m)
    OBVIOUS
  <2>2. /\ x.queue = Unnamed(u.queue, m) /\ x.held = u.held \cup {m}
        /\ x.stray = [u.stray EXCEPT ![m] = IF m \in u.held THEN @ + 1 ELSE @]
    BY <1>1, <1>5, <2>1, ReserveDoes
  <2>3. JobsOf(y) = JobsOf(x)
    BY <1>9, <2>2 DEF JobsOf
  <2>4. Touched(u, m, x)
    BY <1>1, <1>5, <2>1, LoseHandleTouches
  <2> QED BY <2>3, <2>4, TouchedSame
<1>12. PICK e : e = Shown(y, m)
  OBVIOUS
<1>13. /\ e \in RoomType /\ JobsOf(e) = JobsOf(y) /\ ViewsOf(e) = ViewsOf(y)
       /\ FightOf(e) = FightOf(y) /\ FlightOf(e) = FlightOf(y)
       /\ PlaceOf(e) = <<y.present \cup {m}, y.inRoom, y.cell, y.grid, y.zone>>
  BY <1>1, <1>10, <1>12, ShownDoes
<1>14. s = Spawn(e, pos, m)
  BY <1>8, <1>12
<1>15. /\ s \in RoomType
       /\ Seen(e) => Seen(s)
       /\ PlaceOf(s) = PlaceOf(e) /\ JobsOf(s) = JobsOf(e)
       /\ FightOf(s) = FightOf(e) /\ FlightOf(s) = FlightOf(e)
  BY <1>1, <1>13, <1>14, SpawnDoes
<1>16. Touched(r, m, s)
  <2>1. JobsOf(u) = JobsOf(r) /\ JobsOf(s) = JobsOf(y)
    BY <1>3, <1>5, <1>13, <1>15
  <2>2. Touched(r, m, y)
    BY <1>11, <2>1, TouchedSame
  <2> QED BY <2>1, <2>2, TouchedSame
<1>17. Seen(r) => Seen(e)
  <2>1. ViewsOf(e) = ViewsOf(r)
    BY <1>3, <1>5, <1>10, <1>13
  <2> QED BY <2>1 DEF Seen, ViewsOf
<1>18. m \in s.held
  <2>1. s.held = y.held
    BY <1>13, <1>15 DEF JobsOf
  <2> QED BY <1>9, <2>1
<1>19. \A x \in Actor : s.hp[x] <= r.hp[x]
  <2>1. s.hp = y.hp /\ u.hp = r.hp
    BY <1>3, <1>5, <1>13, <1>15 DEF FightOf
  <2> QED BY <1>10, <2>1
<1>20. \E w \in RoomType : Arrives(r, m, pos, w) /\ Moves(w, m, s)
  <2>1. PICK w : w = Shown(u, m)
    OBVIOUS
  <2>2. w \in RoomType /\ PlaceOf(w) = <<u.present \cup {m}, u.inRoom, u.cell, u.grid, u.zone>>
    BY <1>1, <1>5, <2>1, ShownDoes
  <2>3. /\ u.present = r.present /\ u.inRoom = r.inRoom \cup {m} /\ u.cell = [r.cell EXCEPT ![m] = pos]
        /\ u.grid = [r.grid EXCEPT ![pos] = m] /\ u.zone = [r.zone EXCEPT ![ZoneOf(pos)] = @ \cup {m}]
    BY <1>6 DEF PlaceOf
  <2>4. /\ w.present = u.present \cup {m} /\ w.inRoom = u.inRoom /\ w.cell = u.cell
        /\ w.grid = u.grid /\ w.zone = u.zone
    BY <2>2 DEF PlaceOf
  <2>5. Arrives(r, m, pos, w)
    BY <2>3, <2>4, Zenon DEF Arrives
  <2>6. /\ s.present = y.present \cup {m} /\ s.inRoom = y.inRoom /\ s.cell = y.cell
        /\ s.grid = y.grid /\ s.zone = y.zone
    BY <1>13, <1>15 DEF PlaceOf
  <2>7. Moves(w, m, s)
    <3>1. \A c : /\ MayMove(w, m, c) <=> MayMove(u, m, c)
                 /\ MovedGrid(w, m, c) = MovedGrid(u, m, c) /\ MovedZone(w, m, c) = MovedZone(u, m, c)
      BY <2>4 DEF MayMove, CanGo, MovedGrid, MovedZone
    <3>2. y.present = u.present /\ y.inRoom = u.inRoom
      BY <1>10 DEF Moves
    <3>3. CASE y.cell = u.cell /\ y.grid = u.grid /\ y.zone = u.zone
      BY <2>4, <2>6, <3>2, <3>3 DEF Moves
    <3>4. ASSUME NEW c \in Cell, MayMove(u, m, c), y.cell = [u.cell EXCEPT ![m] = c],
                 y.grid = MovedGrid(u, m, c), y.zone = MovedZone(u, m, c)
          PROVE  Moves(w, m, s)
      <4>1. /\ MayMove(w, m, c) /\ s.cell = [w.cell EXCEPT ![m] = c]
            /\ s.grid = MovedGrid(w, m, c) /\ s.zone = MovedZone(w, m, c)
        BY <2>4, <2>6, <3>1, <3>4
      <4>2. s.present = w.present /\ s.inRoom = w.inRoom
        BY <2>4, <2>6, <3>2
      <4> QED BY <4>1, <4>2 DEF Moves
    <3> QED BY <1>10, <3>3, <3>4 DEF Moves
  <2> QED BY <2>2, <2>5, <2>7
<1>21. FlightOf(s) = FlightOf(r)
  BY <1>3, <1>5, <1>10, <1>13, <1>15
<1> QED BY <1>15, <1>16, <1>17, <1>18, <1>19, <1>20, <1>21

\* An arrow is put in the room and its Zone, where it stands already.
Launched(r, a) ==
  [r EXCEPT !.inRoom = @ \cup {a}, !.zone[ZoneOf(r.cell[a])] = @ \cup {a}]

\* The same for an arrow.
LEMMA LaunchedDoes ==
  ASSUME NEW r \in RoomType, NEW a \in Arrows, NEW s, s = Launched(r, a)
  PROVE  /\ s \in RoomType /\ JobsOf(s) = JobsOf(r) /\ ViewsOf(s) = ViewsOf(r)
         /\ FightOf(s) = FightOf(r) /\ FlightOf(s) = FlightOf(r)
         /\ PlaceOf(s) = <<r.present, r.inRoom \cup {a}, r.cell, r.grid,
                           [r.zone EXCEPT ![ZoneOf(r.cell[a])] = @ \cup {a}]>>
<1>1. a \in Object
  BY ObjectIs
<1>4. PICK Z : Z = [r.zone EXCEPT ![ZoneOf(r.cell[a])] = @ \cup {a}]
  OBVIOUS
<1>5. Z \in [Zone -> SUBSET Object]
  <2>1. r.zone \in [Zone -> SUBSET Object] /\ ZoneOf(r.cell[a]) \in Zone
    BY <1>1, RoomIs, CellsAreZoned
  <2>2. r.zone[ZoneOf(r.cell[a])] \cup {a} \in SUBSET Object
    BY <1>1, <2>1
  <2> QED BY <1>4, <2>1, <2>2
<1>6. Launched(r, a) = [r EXCEPT !.inRoom = @ \cup {a}, !.zone = Z]
  BY <1>4 DEF Launched, RoomType
<1>7. PICK t : t = [r EXCEPT !.inRoom = @ \cup {a}, !.zone = Z]
  OBVIOUS
<1>8. t \in RoomType
  BY <1>1, <1>5, <1>7, ZenonT(40) DEF RoomType
<1>9. /\ JobsOf(t) = JobsOf(r) /\ ViewsOf(t) = ViewsOf(r)
      /\ FightOf(t) = FightOf(r) /\ FlightOf(t) = FlightOf(r)
      /\ PlaceOf(t) = <<r.present, r.inRoom \cup {a}, r.cell, r.grid, Z>>
  BY <1>7 DEF RoomType, PlaceOf, JobsOf, ViewsOf, FightOf, FlightOf
<1> QED BY <1>4, <1>6, <1>7, <1>8, <1>9

\* A strike leaves a room.
LEMMA StruckType ==
  ASSUME NEW r, NEW a \in Arrows, NEW t, NEW s, Struck(r, a, t), s = PushJob(t, NewJob("leave", a))
  PROVE  /\ s \in RoomType /\ s.queue = Append(t.queue, NewJob("leave", a))
         /\ s.held = t.held /\ s.stray = t.stray
         /\ PlaceOf(s) = PlaceOf(t) /\ ViewsOf(s) = ViewsOf(t)
         /\ FightOf(s) = FightOf(t) /\ FlightOf(s) = FlightOf(t)
<1>1. NewJob("leave", a) \in Job
  BY NewJobIs, ObjectIs DEF Op
<1>2. t \in RoomType
  BY DEF Struck
<1> QED BY <1>1, <1>2, PushDoes

\* An arrow that enters has been put in the room and has acted.
ArrowEnters(r, a, s) ==
  \E z, f \in RoomType :
    /\ JobsOf(z) = JobsOf(r) /\ FightOf(z) = FightOf(r) /\ FlightOf(z) = FlightOf(r)
    /\ PlaceOf(z) = <<r.present, r.inRoom \cup {a}, r.cell, r.grid,
                      [r.zone EXCEPT ![ZoneOf(r.cell[a])] = @ \cup {a}]>>
    /\ \/ r.owner[a] = None /\ f = z
       \/ r.owner[a] # None /\ (ArrowFlies(z, a, f) \/ ArrowStrikes(z, a, f))
    /\ JobsOf(s) = JobsOf(f) /\ FightOf(s) = FightOf(f) /\ FlightOf(s) = FlightOf(f)
    /\ PlaceOf(s) = <<f.present \cup {a}, f.inRoom, f.cell, f.grid, f.zone>>

\* After Room::Enter an arrow flies, or it met something at once (Room.cpp:105-112).
LEMMA EnterArrowDoes ==
  ASSUME NEW r \in RoomType, NEW a \in Arrows, NEW s, s = EnterArrow(r, a)
  PROVE  /\ s \in RoomType
         /\ Seen(r) => Seen(s)
         /\ ArrowEnters(r, a, s)
<1>1. a \in Object
  BY ObjectIs
<1>2. PICK z : z = Launched(r, a)
  OBVIOUS
<1>3. /\ z \in RoomType /\ JobsOf(z) = JobsOf(r) /\ ViewsOf(z) = ViewsOf(r)
      /\ FightOf(z) = FightOf(r) /\ FlightOf(z) = FlightOf(r)
      /\ PlaceOf(z) = <<r.present, r.inRoom \cup {a}, r.cell, r.grid,
                        [r.zone EXCEPT ![ZoneOf(r.cell[a])] = @ \cup {a}]>>
  BY <1>2, LaunchedDoes
<1>4. a \in z.inRoom /\ z.owner = r.owner
  BY <1>3 DEF PlaceOf, FlightOf
<1>5. PICK f : f = ArrowUpdate(z, a)
  OBVIOUS
<1>6. \/ r.owner[a] = None /\ f = z
      \/ r.owner[a] # None /\ (ArrowFlies(z, a, f) \/ ArrowStrikes(z, a, f))
  <2>1. CASE r.owner[a] = None
    BY <1>4, <1>5, <2>1 DEF ArrowUpdate
  <2>2. CASE r.owner[a] # None
    BY <1>3, <1>4, <1>5, <2>2, ArrowUpdateDoes
  <2> QED BY <2>1, <2>2
<1>7. f \in RoomType /\ ViewsOf(f) = ViewsOf(z)
  <2>1. CASE f = z
    BY <1>3, <2>1
  <2>2. CASE ArrowFlies(z, a, f)
    BY <2>2 DEF ArrowFlies
  <2>3. CASE ArrowStrikes(z, a, f)
    <3>1. PICK t : Struck(z, a, t) /\ f = PushJob(t, NewJob("leave", a))
      BY <2>3 DEF ArrowStrikes
    <3>2. ViewsOf(t) = ViewsOf(z)
      BY <3>1 DEF Struck
    <3> QED BY <3>1, <3>2, StruckType
  <2> QED BY <1>6, <2>1, <2>2, <2>3
<1>8. PICK e : e = Shown(f, a)
  OBVIOUS
<1>9. /\ e \in RoomType /\ JobsOf(e) = JobsOf(f) /\ ViewsOf(e) = ViewsOf(f)
      /\ FightOf(e) = FightOf(f) /\ FlightOf(e) = FlightOf(f)
      /\ PlaceOf(e) = <<f.present \cup {a}, f.inRoom, f.cell, f.grid, f.zone>>
  BY <1>1, <1>7, <1>8, ShownDoes
<1>10. s = Spawn(e, r.cell[a], a)
  BY <1>2, <1>5, <1>8 DEF EnterArrow, Launched, Shown
<1>11. /\ s \in RoomType
       /\ Seen(e) => Seen(s)
       /\ PlaceOf(s) = PlaceOf(e) /\ JobsOf(s) = JobsOf(e)
       /\ FightOf(s) = FightOf(e) /\ FlightOf(s) = FlightOf(e)
  BY <1>1, <1>9, <1>10, SpawnDoes
<1>12. Seen(r) => Seen(e)
  <2>1. ViewsOf(e) = ViewsOf(r)
    BY <1>3, <1>7, <1>9
  <2> QED BY <2>1 DEF Seen, ViewsOf
<1>13. /\ JobsOf(s) = JobsOf(f) /\ FightOf(s) = FightOf(f) /\ FlightOf(s) = FlightOf(f)
       /\ PlaceOf(s) = <<f.present \cup {a}, f.inRoom, f.cell, f.grid, f.zone>>
  BY <1>9, <1>11
<1>14. ArrowEnters(r, a, s)
  BY <1>3, <1>6, <1>7, <1>13 DEF ArrowEnters
<1> QED BY <1>11, <1>12, <1>14
-----------------------------------------------------------------------------
(* Room::Leave, revival, and what the jobs and the timer do around them.   *)

\* Room::Leave in parts (Room.cpp:131-183).
Hidden(r, o) == [r EXCEPT !.present = @ \ {o}]
Forgetting(r, p) == [r EXCEPT !.prev[p] = {}, !.known[p] = {}]
Gone(r, o) == [r EXCEPT !.gone = @ \cup {o}]

\* o is taken out of the players, monsters or arrows.
LEMMA HiddenDoes ==
  ASSUME NEW r \in RoomType, NEW o \in Object, NEW s, s = Hidden(r, o)
  PROVE  /\ s \in RoomType /\ JobsOf(s) = JobsOf(r) /\ ViewsOf(s) = ViewsOf(r)
         /\ FightOf(s) = FightOf(r) /\ FlightOf(s) = FlightOf(r)
         /\ PlaceOf(s) = <<r.present \ {o}, r.inRoom, r.cell, r.grid, r.zone>>
BY ZenonT(40) DEF Hidden, RoomType, PlaceOf, JobsOf, ViewsOf, FightOf, FlightOf

\* A player who left is shown nothing and knows nothing.
LEMMA ForgettingDoes ==
  ASSUME NEW r \in RoomType, NEW p \in Players, NEW s, s = Forgetting(r, p)
  PROVE  /\ s \in RoomType /\ JobsOf(s) = JobsOf(r) /\ PlaceOf(s) = PlaceOf(r)
         /\ FightOf(s) = FightOf(r) /\ FlightOf(s) = FlightOf(r)
         /\ Seen(r) => Seen(s)
<1>1. PICK P, K : P = [r.prev EXCEPT ![p] = {}] /\ K = [r.known EXCEPT ![p] = {}]
  OBVIOUS
<1>2. P \in [Players -> SUBSET Object] /\ K \in [Players -> SUBSET Object]
  BY <1>1, RoomIs
<1>3. Forgetting(r, p) = [r EXCEPT !.prev = P, !.known = K]
  BY <1>1 DEF Forgetting, RoomType
<1>4. PICK t : t = [r EXCEPT !.prev = P, !.known = K]
  OBVIOUS
<1>5. t \in RoomType
  BY <1>2, <1>4, ZenonT(40) DEF RoomType
<1>6. /\ JobsOf(t) = JobsOf(r) /\ PlaceOf(t) = PlaceOf(r)
      /\ FightOf(t) = FightOf(r) /\ FlightOf(t) = FlightOf(r)
      /\ ViewsOf(t) = <<P, K, r.gone>>
  BY <1>4 DEF RoomType, PlaceOf, JobsOf, ViewsOf, FightOf, FlightOf
<1>7. P[p] = {} /\ \A q \in Players \ {p} : P[q] = r.prev[q] /\ K[q] = r.known[q]
  BY <1>1, RoomIs
<1>8. t.prev = P /\ t.known = K /\ t.gone = r.gone
  BY <1>6 DEF ViewsOf
<1>9. Seen(r) => Seen(t)
  BY <1>7, <1>8 DEF Seen
<1>10. s = t
  BY <1>3, <1>4
<1> QED BY <1>5, <1>6, <1>9, <1>10

\* o has been in the room and left.
LEMMA GoneDoes ==
  ASSUME NEW r \in RoomType, NEW o \in Object, NEW s, s = Gone(r, o)
  PROVE  /\ s \in RoomType /\ JobsOf(s) = JobsOf(r) /\ PlaceOf(s) = PlaceOf(r)
         /\ FightOf(s) = FightOf(r) /\ FlightOf(s) = FlightOf(r)
         /\ ViewsOf(s) = <<r.prev, r.known, r.gone \cup {o}>>
BY ZenonT(40) DEF Gone, RoomType, PlaceOf, JobsOf, ViewsOf, FightOf, FlightOf

\* Whoever is left, the broadcast of the Despawn is noted as a departure.
LEMMA DepartedDoes ==
  ASSUME NEW r \in RoomType, NEW o \in Object, NEW pos, NEW s,
         s = Despawn([r EXCEPT !.gone = @ \cup {o}], pos, o)
  PROVE  /\ s \in RoomType /\ JobsOf(s) = JobsOf(r) /\ PlaceOf(s) = PlaceOf(r)
         /\ FightOf(s) = FightOf(r) /\ FlightOf(s) = FlightOf(r)
         /\ Seen(r) => Seen(s)
<1>1. PICK t : t = Gone(r, o)
  OBVIOUS
<1>2. /\ t \in RoomType /\ JobsOf(t) = JobsOf(r) /\ PlaceOf(t) = PlaceOf(r)
      /\ FightOf(t) = FightOf(r) /\ FlightOf(t) = FlightOf(r)
      /\ ViewsOf(t) = <<r.prev, r.known, r.gone \cup {o}>>
  BY <1>1, GoneDoes
<1>3. s = Despawn(t, pos, o)
  BY <1>1 DEF Gone
<1>4. t.prev = r.prev /\ t.known = r.known /\ t.gone = r.gone \cup {o}
  BY <1>2 DEF ViewsOf
<1>5. o \in t.gone
  BY <1>4
<1>6. Seen(r) => Seen(t)
  BY <1>4 DEF Seen
<1>7. /\ s \in RoomType
      /\ (Seen(t) /\ o \in t.gone) => Seen(s)
      /\ PlaceOf(s) = PlaceOf(t) /\ JobsOf(s) = JobsOf(t)
      /\ FightOf(s) = FightOf(t) /\ FlightOf(s) = FlightOf(t)
  BY <1>2, <1>3, DespawnDoes
<1> QED BY <1>2, <1>5, <1>6, <1>7

\* Object o is on no cell and in no Zone any more, if it was in the room.
Leaves(r, o, s) ==
  /\ s.present = r.present \ {o} /\ s.cell = r.cell
  /\ s.inRoom = IF o \in Players THEN r.inRoom ELSE r.inRoom \ {o}
  /\ o \in r.inRoom => s.grid = LeftGrid(r, o) /\ s.zone = LeftZone(r, o)
  /\ o \notin r.inRoom => s.grid = r.grid /\ s.zone = r.zone
\* Only the reserved job of a player is emptied.
LeavesJobs(r, o, s) ==
  /\ o \in Players => s.queue = Emptied(r.queue, o) /\ s.held = r.held \ {o} /\ s.stray = r.stray
  /\ o \notin Players => JobsOf(s) = JobsOf(r)

\* What leaving does to the arrows: o has lost its owner, if it is one.
LeavesFlight(r, o, s) ==
  /\ o \notin Arrows => FlightOf(s) = FlightOf(r)
  /\ o \in Arrows => FlightOf(s) = <<[r.owner EXCEPT ![o] = None], r.used, r.hits, r.fault>>

\* A player is out of the room, and the update of his view is cancelled.
LEMMA LeavePlayerDoes ==
  ASSUME NEW r \in RoomType, NEW p \in Players, NEW s, s = LeavePlayer(r, p)
  PROVE  /\ s \in RoomType /\ Leaves(r, p, s) /\ LeavesJobs(r, p, s)
         /\ LeavesFlight(r, p, s) /\ FightOf(s) = FightOf(r)
         /\ Seen(r) => Seen(s)
<1>0. p \in Object /\ p \notin Monsters /\ p \notin Arrows
  BY ObjectIs
<1>1. PICK h : h = Hidden(r, p)
  OBVIOUS
<1>2. /\ h \in RoomType /\ JobsOf(h) = JobsOf(r) /\ ViewsOf(h) = ViewsOf(r)
      /\ FightOf(h) = FightOf(r) /\ FlightOf(h) = FlightOf(r)
      /\ PlaceOf(h) = <<r.present \ {p}, r.inRoom, r.cell, r.grid, r.zone>>
  BY <1>0, <1>1, HiddenDoes
<1>3. PICK l : l = ApplyLeave(h, p)
  OBVIOUS
<1>4. /\ l \in RoomType /\ l.present = h.present /\ l.inRoom = h.inRoom /\ l.cell = h.cell
      /\ JobsOf(l) = JobsOf(h) /\ ViewsOf(l) = ViewsOf(h)
      /\ FightOf(l) = FightOf(h) /\ FlightOf(l) = FlightOf(h)
      /\ p \notin h.inRoom => l = h
      /\ p \in h.inRoom => l.grid = LeftGrid(h, p) /\ l.zone = LeftZone(h, p)
  BY <1>0, <1>2, <1>3, ApplyLeaveDoes
<1>5. PICK c : c = Cancel(l, p)
  OBVIOUS
<1>6. /\ c \in RoomType /\ c.queue = Emptied(l.queue, p) /\ c.held = l.held \ {p} /\ c.stray = l.stray
      /\ PlaceOf(c) = PlaceOf(l) /\ ViewsOf(c) = ViewsOf(l)
      /\ FightOf(c) = FightOf(l) /\ FlightOf(c) = FlightOf(l)
  BY <1>0, <1>4, <1>5, CancelDoes
<1>7. s = Forgetting(c, p)
  BY <1>1, <1>3, <1>5 DEF LeavePlayer, Hidden, Forgetting
<1>8. /\ s \in RoomType /\ JobsOf(s) = JobsOf(c) /\ PlaceOf(s) = PlaceOf(c)
      /\ FightOf(s) = FightOf(c) /\ FlightOf(s) = FlightOf(c)
      /\ Seen(c) => Seen(s)
  BY <1>6, <1>7, ForgettingDoes
<1>9. Seen(r) => Seen(c)
  <2>1. ViewsOf(c) = ViewsOf(r)
    BY <1>2, <1>4, <1>6
  <2> QED BY <2>1 DEF Seen, ViewsOf
<1>10. Leaves(r, p, s)
  <2>1. /\ h.present = r.present \ {p} /\ h.inRoom = r.inRoom /\ h.cell = r.cell
        /\ h.grid = r.grid /\ h.zone = r.zone
    BY <1>2 DEF PlaceOf
  <2>2. LeftGrid(h, p) = LeftGrid(r, p) /\ LeftZone(h, p) = LeftZone(r, p)
    BY <2>1 DEF LeftGrid, LeftZone
  <2>3. /\ s.present = l.present /\ s.inRoom = l.inRoom /\ s.cell = l.cell
        /\ s.grid = l.grid /\ s.zone = l.zone
    BY <1>6, <1>8 DEF PlaceOf
  <2> QED BY <1>4, <2>1, <2>2, <2>3 DEF Leaves
<1>11. LeavesJobs(r, p, s)
  <2>1. l.queue = r.queue /\ l.held = r.held /\ l.stray = r.stray
    BY <1>2, <1>4 DEF JobsOf
  <2>2. s.queue = c.queue /\ s.held = c.held /\ s.stray = c.stray
    BY <1>8 DEF JobsOf
  <2> QED BY <1>6, <2>1, <2>2 DEF LeavesJobs
<1>12. FlightOf(s) = FlightOf(r) /\ FightOf(s) = FightOf(r)
  BY <1>2, <1>4, <1>6, <1>8
<1> QED BY <1>0, <1>8, <1>9, <1>10, <1>11, <1>12 DEF LeavesFlight

\* A monster or an arrow is out of the room and knows it.
Outside(r, o) == [r EXCEPT !.present = @ \ {o}, !.inRoom = @ \ {o}]

\* That is a change of place.
LEMMA OutsideDoes ==
  ASSUME NEW r \in RoomType, NEW o \in Object, NEW s, s = Outside(r, o)
  PROVE  /\ s \in RoomType /\ JobsOf(s) = JobsOf(r) /\ ViewsOf(s) = ViewsOf(r)
         /\ FightOf(s) = FightOf(r) /\ FlightOf(s) = FlightOf(r)
         /\ PlaceOf(s) = <<r.present \ {o}, r.inRoom \ {o}, r.cell, r.grid, r.zone>>
BY ZenonT(40) DEF Outside, RoomType, PlaceOf, JobsOf, ViewsOf, FightOf, FlightOf

\* And with the Map and the Zones left it is all.
LEMMA OutsideLeaves ==
  ASSUME NEW r \in RoomType, NEW o \in Object, o \notin Players, NEW l, l = ApplyLeave(r, o),
         NEW s, s = Outside(l, o)
  PROVE  /\ s \in RoomType /\ Leaves(r, o, s) /\ LeavesJobs(r, o, s)
         /\ FlightOf(s) = FlightOf(r) /\ FightOf(s) = FightOf(r) /\ ViewsOf(s) = ViewsOf(r)
<1>4. /\ l \in RoomType /\ l.present = r.present /\ l.inRoom = r.inRoom /\ l.cell = r.cell
      /\ JobsOf(l) = JobsOf(r) /\ ViewsOf(l) = ViewsOf(r)
      /\ FightOf(l) = FightOf(r) /\ FlightOf(l) = FlightOf(r)
      /\ o \notin r.inRoom => l = r
      /\ o \in r.inRoom => l.grid = LeftGrid(r, o) /\ l.zone = LeftZone(r, o)
  BY ApplyLeaveDoes
<1>5. /\ s \in RoomType /\ JobsOf(s) = JobsOf(l) /\ ViewsOf(s) = ViewsOf(l)
      /\ FightOf(s) = FightOf(l) /\ FlightOf(s) = FlightOf(l)
      /\ PlaceOf(s) = <<l.present \ {o}, l.inRoom \ {o}, l.cell, l.grid, l.zone>>
  BY <1>4, OutsideDoes
<1>6. /\ s.present = l.present \ {o} /\ s.inRoom = l.inRoom \ {o} /\ s.cell = l.cell
      /\ s.grid = l.grid /\ s.zone = l.zone
  BY <1>5 DEF PlaceOf
<1>7. Leaves(r, o, s)
  BY <1>4, <1>6 DEF Leaves
<1> QED BY <1>4, <1>5, <1>7 DEF LeavesJobs

\* So a monster leaves.
LEMMA LeaveMonsterDoes ==
  ASSUME NEW r \in RoomType, NEW m \in Monsters, NEW s, s = LeaveMonster(r, m)
  PROVE  /\ s \in RoomType /\ Leaves(r, m, s) /\ LeavesJobs(r, m, s)
         /\ LeavesFlight(r, m, s) /\ FightOf(s) = FightOf(r)
         /\ Seen(r) => Seen(s)
<1>0. m \in Object /\ m \notin Players /\ m \notin Arrows
  BY ObjectIs
<1>1. s = Outside(ApplyLeave(r, m), m)
  BY DEF LeaveMonster, Outside
<1>2. /\ s \in RoomType /\ Leaves(r, m, s) /\ LeavesJobs(r, m, s)
      /\ FlightOf(s) = FlightOf(r) /\ FightOf(s) = FightOf(r) /\ ViewsOf(s) = ViewsOf(r)
  BY <1>0, <1>1, OutsideLeaves
<1>3. Seen(r) => Seen(s)
  BY <1>2 DEF Seen, ViewsOf
<1> QED BY <1>0, <1>2, <1>3 DEF LeavesFlight

\* So an arrow leaves, and its owner is reset.
LEMMA LeaveArrowDoes ==
  ASSUME NEW r \in RoomType, NEW a \in Arrows, NEW s, s = LeaveArrow(r, a)
  PROVE  /\ s \in RoomType /\ Leaves(r, a, s) /\ LeavesJobs(r, a, s)
         /\ LeavesFlight(r, a, s) /\ FightOf(s) = FightOf(r)
         /\ Seen(r) => Seen(s)
<1>0. a \in Object /\ a \notin Players
  BY ObjectIs
<1>1. PICK t : t = Outside(ApplyLeave(r, a), a)
  OBVIOUS
<1>2. /\ t \in RoomType /\ Leaves(r, a, t) /\ LeavesJobs(r, a, t)
      /\ FlightOf(t) = FlightOf(r) /\ FightOf(t) = FightOf(r) /\ ViewsOf(t) = ViewsOf(r)
  BY <1>0, <1>1, OutsideLeaves
<1>3. PICK O : O = [t.owner EXCEPT ![a] = None]
  OBVIOUS
<1>4. O \in [Arrows -> Players \cup {None}]
  BY <1>2, <1>3, RoomIs
<1>5. t \in RoomType
  BY <1>2
<1>6. s = [t EXCEPT !.owner[a] = None]
  BY <1>1 DEF LeaveArrow, Outside
<1>7. [t EXCEPT !.owner[a] = None] = [t EXCEPT !.owner = O]
  BY <1>3, <1>5 DEF RoomType
<1>8. PICK u : u = [t EXCEPT !.owner = O]
  OBVIOUS
<1>9. u \in RoomType
  BY <1>4, <1>5, <1>8, ZenonT(40) DEF RoomType
<1>10. /\ JobsOf(u) = JobsOf(t) /\ ViewsOf(u) = ViewsOf(t)
       /\ FightOf(u) = FightOf(t) /\ PlaceOf(u) = PlaceOf(t)
       /\ FlightOf(u) = <<O, t.used, t.hits, t.fault>>
  BY <1>5, <1>8 DEF RoomType, PlaceOf, JobsOf, ViewsOf, FightOf, FlightOf
<1>11. s = u
  BY <1>6, <1>7, <1>8
<1>12. Leaves(r, a, u)
  <2>1. /\ u.present = t.present /\ u.inRoom = t.inRoom /\ u.cell = t.cell
        /\ u.grid = t.grid /\ u.zone = t.zone
    BY <1>10 DEF PlaceOf
  <2> QED BY <1>2, <2>1 DEF Leaves
<1>13. LeavesJobs(r, a, u)
  BY <1>0, <1>2, <1>10 DEF LeavesJobs
<1>14. FlightOf(u) = <<[r.owner EXCEPT ![a] = None], r.used, r.hits, r.fault>>
  BY <1>2, <1>3, <1>10 DEF FlightOf
<1>15. Seen(r) => Seen(u)
  BY <1>2, <1>10 DEF Seen, ViewsOf
<1> QED BY <1>2, <1>9, <1>10, <1>11, <1>12, <1>13, <1>14, <1>15 DEF LeavesFlight

\* A null or freed object was used.
Faulty(r) == [r EXCEPT !.fault = TRUE]

\* Nothing else is known to change.
LEMMA FaultyDoes ==
  ASSUME NEW r \in RoomType, NEW s, s = Faulty(r)
  PROVE  /\ s \in RoomType /\ JobsOf(s) = JobsOf(r) /\ ViewsOf(s) = ViewsOf(r)
         /\ FightOf(s) = FightOf(r) /\ PlaceOf(s) = PlaceOf(r)
         /\ FlightOf(s) = <<r.owner, r.used, r.hits, TRUE>>
BY ZenonT(40) DEF Faulty, RoomType, PlaceOf, JobsOf, ViewsOf, FightOf, FlightOf

\* Room::Leave takes out one who is present; for an absent monster or arrow it is a
\* fault; for an absent player it is nothing.
LEMMA LeaveDoes ==
  ASSUME NEW r \in RoomType, NEW o \in Object, NEW s, s = Leave(r, o)
  PROVE  /\ s \in RoomType /\ FightOf(s) = FightOf(r)
         /\ Seen(r) => Seen(s)
         /\ o \in r.present =>
              Leaves(r, o, s) /\ LeavesJobs(r, o, s) /\ LeavesFlight(r, o, s)
         /\ (o \notin r.present /\ o \in Players) => s = r
         /\ (o \notin r.present /\ o \notin Players) =>
              /\ JobsOf(s) = JobsOf(r) /\ ViewsOf(s) = ViewsOf(r) /\ PlaceOf(s) = PlaceOf(r)
              /\ FlightOf(s) = <<r.owner, r.used, r.hits, TRUE>>
<1>1. CASE o \notin r.present /\ o \in Players
  BY <1>1 DEF Leave
<1>2. CASE o \notin r.present /\ o \notin Players
  <2>1. s = Faulty(r)
    BY <1>2 DEF Leave, Faulty
  <2>2. Seen(r) => Seen(s)
    BY <2>1, FaultyDoes DEF Seen, ViewsOf
  <2> QED BY <1>2, <2>1, <2>2, FaultyDoes
<1>3. CASE o \in r.present
  <2>1. PICK t : t = CASE o \in Players  -> LeavePlayer(r, o)
                       [] o \in Monsters -> LeaveMonster(r, o)
                       [] o \in Arrows   -> LeaveArrow(r, o)
    OBVIOUS
  <2>2. /\ o \in Players => t = LeavePlayer(r, o)
        /\ o \in Monsters => t = LeaveMonster(r, o)
        /\ o \in Arrows => t = LeaveArrow(r, o)
    BY <2>1, ObjectIs
  <2>3. /\ t \in RoomType /\ Leaves(r, o, t) /\ LeavesJobs(r, o, t)
        /\ LeavesFlight(r, o, t) /\ FightOf(t) = FightOf(r)
        /\ Seen(r) => Seen(t)
    BY <2>2, LeavePlayerDoes, LeaveMonsterDoes, LeaveArrowDoes, ObjectIs
  <2>4. s = Despawn([t EXCEPT !.gone = @ \cup {o}], r.cell[o], o)
    BY <1>3, <2>1 DEF Leave
  <2>5. /\ s \in RoomType /\ JobsOf(s) = JobsOf(t) /\ PlaceOf(s) = PlaceOf(t)
        /\ FightOf(s) = FightOf(t) /\ FlightOf(s) = FlightOf(t)
        /\ Seen(t) => Seen(s)
    BY <2>3, <2>4, DepartedDoes
  <2>6. Leaves(r, o, s)
    <3>1. /\ s.present = t.present /\ s.inRoom = t.inRoom /\ s.cell = t.cell
          /\ s.grid = t.grid /\ s.zone = t.zone
      BY <2>5 DEF PlaceOf
    <3> QED BY <2>3, <3>1 DEF Leaves
  <2>7. LeavesJobs(r, o, s)
    <3>1. s.queue = t.queue /\ s.held = t.held /\ s.stray = t.stray
      BY <2>5 DEF JobsOf
    <3> QED BY <2>3, <2>5, <3>1 DEF LeavesJobs
  <2>8. LeavesFlight(r, o, s)
    BY <2>3, <2>5 DEF LeavesFlight
  <2> QED BY <1>3, <2>3, <2>5, <2>6, <2>7, <2>8
<1> QED BY <1>1, <1>2, <1>3

\* A player or a monster comes in and has its next job reserved.
ActorEnters(r, o, s) ==
  /\ Touched(r, o, s) /\ o \in s.held /\ FlightOf(s) = FlightOf(r)
  /\ \A x \in Actor : s.hp[x] <= r.hp[x]
  /\ \E pos \in RandomCells(r) : \E w \in RoomType :
       /\ Arrives(r, o, pos, w)
       /\ IF o \in Monsters THEN Moves(w, o, s) ELSE PlaceOf(s) = PlaceOf(w)

\* Room::Enter of a player or a monster.
LEMMA EnterActorDoes ==
  ASSUME NEW r \in RoomType, NEW o \in Actor, NEW s \in Enter(r, o)
  PROVE  /\ s \in RoomType /\ ActorEnters(r, o, s)
         /\ Seen(r) => Seen(s)
<1>1. CASE o \in Players
  <2>1. PICK pos \in RandomCells(r) : s = EnterPlayer(r, o, pos)
    BY <1>1, ObjectIs DEF Enter
  <2>2. /\ s \in RoomType /\ Touched(r, o, s) /\ o \in s.held
        /\ FightOf(s) = FightOf(r) /\ FlightOf(s) = FlightOf(r)
        /\ Seen(r) => Seen(s)
        /\ Arrives(r, o, pos, s)
    BY <1>1, <2>1, EnterPlayerDoes
  <2>3. s.hp = r.hp
    BY <2>2 DEF FightOf
  <2> QED BY <1>1, <2>2, <2>3, HpIsNumber, ObjectIs DEF ActorEnters
<1>2. CASE o \in Monsters
  <2>1. PICK pos \in RandomCells(r) : s \in EnterMonster(r, o, pos)
    BY <1>2, ObjectIs DEF Enter
  <2>2. /\ s \in RoomType /\ Touched(r, o, s) /\ o \in s.held
        /\ FlightOf(s) = FlightOf(r)
        /\ \A x \in Actor : s.hp[x] <= r.hp[x]
        /\ Seen(r) => Seen(s)
        /\ \E w \in RoomType : Arrives(r, o, pos, w) /\ Moves(w, o, s)
    BY <1>2, <2>1, EnterMonsterDoes
  <2> QED BY <1>2, <2>2 DEF ActorEnters
<1> QED BY <1>1, <1>2 DEF Actor

\* Somebody who is back to life: only what is about a fight has changed.
Revived(r, o, full) ==
  [r EXCEPT !.hp[o] = IF full THEN MaxHp ELSE @,
            !.dir = [x \in Players \cup Arrows |-> IF x = o THEN "DOWN" ELSE @[x]],
            !.idle = @ \cup ({o} \cap Players),
            !.fsm = [m \in Monsters |-> IF m = o THEN "IDLE" ELSE @[m]]]

\* Revival changes the state of o, and where nobody is.
LEMMA RevivedDoes ==
  ASSUME NEW r \in RoomType, NEW o \in Actor, NEW full, NEW s, s = Revived(r, o, full)
  PROVE  /\ Elsewhere(r, s)
         /\ s.hp = [r.hp EXCEPT ![o] = IF full THEN MaxHp ELSE @]
<1>1. PICK H, D, F :
        /\ H = [r.hp EXCEPT ![o] = IF full THEN MaxHp ELSE @]
        /\ D = [x \in Players \cup Arrows |-> IF x = o THEN "DOWN" ELSE r.dir[x]]
        /\ F = [m \in Monsters |-> IF m = o THEN "IDLE" ELSE r.fsm[m]]
  OBVIOUS
<1>2. H \in [Actor -> 0 .. MaxHp]
  BY <1>1, RoomIs, MaxHpAssumption
<1>3. D \in [Players \cup Arrows -> Dir] /\ F \in [Monsters -> {"IDLE", "MOVING", "SKILL"}]
  BY <1>1, RoomIs DEF Dir
<1>4. Revived(r, o, full) =
        [r EXCEPT !.hp = H, !.dir = D, !.idle = @ \cup ({o} \cap Players), !.fsm = F]
  BY <1>1 DEF Revived, RoomType
<1>5. PICK t : t = [r EXCEPT !.hp = H, !.dir = D, !.idle = @ \cup ({o} \cap Players), !.fsm = F]
  OBVIOUS
<1>6. t \in RoomType
  BY <1>2, <1>3, <1>5, ZenonT(40) DEF RoomType
<1>7. /\ JobsOf(t) = JobsOf(r) /\ PlaceOf(t) = PlaceOf(r)
      /\ ViewsOf(t) = ViewsOf(r) /\ FlightOf(t) = FlightOf(r) /\ t.hp = H
  BY <1>5 DEF RoomType, PlaceOf, JobsOf, ViewsOf, FlightOf
<1> QED BY <1>1, <1>4, <1>5, <1>6, <1>7 DEF Elsewhere

\* A fight changes no view.
LEMMA ElsewhereSeen ==
  ASSUME NEW r, NEW s, ViewsOf(s) = ViewsOf(r)
  PROVE  Seen(r) => Seen(s)
BY DEF Seen, ViewsOf

\* A job of the queue is taken.
Popped(r) == [r EXCEPT !.queue = Tail(@)]

\* Taking a job changes the queue alone.
LEMMA PoppedDoes ==
  ASSUME NEW r \in RoomType, r.queue # <<>>, NEW s, s = Popped(r)
  PROVE  /\ s \in RoomType /\ s.queue = Tail(r.queue) /\ s.held = r.held /\ s.stray = r.stray
         /\ PlaceOf(s) = PlaceOf(r) /\ ViewsOf(s) = ViewsOf(r)
         /\ FightOf(s) = FightOf(r) /\ FlightOf(s) = FlightOf(r)
<1>1. Tail(r.queue) \in Seq(Job)
  BY RoomIs
<1> QED BY <1>1, ZenonT(40) DEF Popped, RoomType, PlaceOf, ViewsOf, FightOf, FlightOf

\* A player has turned and reports that it stands or moves.
Turned(r, p, d, I) == [r EXCEPT !.dir[p] = d, !.idle = I]

\* A move packet turns the player before it moves him.
LEMMA TurnedDoes ==
  ASSUME NEW r \in RoomType, NEW p \in Players, NEW d \in Dir, NEW I \in SUBSET Players,
         NEW s, s = Turned(r, p, d, I)
  PROVE  Elsewhere(r, s) /\ s.hp = r.hp
<1>1. PICK D : D = [r.dir EXCEPT ![p] = d]
  OBVIOUS
<1>2. D \in [Players \cup Arrows -> Dir]
  BY <1>1, RoomIs
<1>3. Turned(r, p, d, I) = [r EXCEPT !.dir = D, !.idle = I]
  BY <1>1 DEF Turned, RoomType
<1>4. PICK t : t = [r EXCEPT !.dir = D, !.idle = I]
  OBVIOUS
<1>5. t \in RoomType
  BY <1>2, <1>4, ZenonT(40) DEF RoomType
<1>6. /\ JobsOf(t) = JobsOf(r) /\ PlaceOf(t) = PlaceOf(r)
      /\ ViewsOf(t) = ViewsOf(r) /\ FlightOf(t) = FlightOf(r) /\ t.hp = r.hp
  BY <1>4 DEF RoomType, PlaceOf, JobsOf, ViewsOf, FlightOf
<1> QED BY <1>3, <1>4, <1>5, <1>6 DEF Elsewhere

\* A player shoots and is not idle any more.
Busy(r, p) == [r EXCEPT !.idle = @ \ {p}]

\* A skill packet ends his idleness.
LEMMA BusyDoes ==
  ASSUME NEW r \in RoomType, NEW p \in Players, NEW s, s = Busy(r, p)
  PROVE  Elsewhere(r, s) /\ s.hp = r.hp
BY ZenonT(40) DEF Busy, RoomType, Elsewhere, PlaceOf, JobsOf, ViewsOf, FlightOf

\* An arrow is made where the player stands.
Made(r, p, a) ==
  [r EXCEPT !.used = @ \cup {a}, !.owner[a] = p, !.dir[a] = r.dir[p], !.cell[a] = r.cell[p]]

\* A bow makes an arrow where its owner stands.
LEMMA MadeDoes ==
  ASSUME NEW r \in RoomType, NEW p \in Players, NEW a \in Arrows, NEW s, s = Made(r, p, a)
  PROVE  /\ s \in RoomType /\ JobsOf(s) = JobsOf(r) /\ ViewsOf(s) = ViewsOf(r)
         /\ s.hp = r.hp /\ s.deaths = r.deaths
         /\ FlightOf(s) = <<[r.owner EXCEPT ![a] = p], r.used \cup {a}, r.hits, r.fault>>
         /\ PlaceOf(s) = <<r.present, r.inRoom, [r.cell EXCEPT ![a] = r.cell[p]], r.grid, r.zone>>
<1>0. a \in Object /\ p \in Object
  BY ObjectIs
<1>1. PICK O, D, C : /\ O = [r.owner EXCEPT ![a] = p] /\ D = [r.dir EXCEPT ![a] = r.dir[p]]
                     /\ C = [r.cell EXCEPT ![a] = r.cell[p]]
  OBVIOUS
<1>2. O \in [Arrows -> Players \cup {None}] /\ D \in [Players \cup Arrows -> Dir]
  BY <1>1, RoomIs
<1>3. C \in [Object -> Cell]
  BY <1>0, <1>1, RoomIs
<1>4. Made(r, p, a) = [r EXCEPT !.used = @ \cup {a}, !.owner = O, !.dir = D, !.cell = C]
  BY <1>1 DEF Made, RoomType
<1>5. PICK t : t = [r EXCEPT !.used = @ \cup {a}, !.owner = O, !.dir = D, !.cell = C]
  OBVIOUS
<1>6. t \in RoomType
  BY <1>2, <1>3, <1>5, ZenonT(40) DEF RoomType
<1>7. /\ JobsOf(t) = JobsOf(r) /\ ViewsOf(t) = ViewsOf(r) /\ t.hp = r.hp
      /\ t.deaths = r.deaths /\ FlightOf(t) = <<O, r.used \cup {a}, r.hits, r.fault>>
      /\ PlaceOf(t) = <<r.present, r.inRoom, C, r.grid, r.zone>>
  BY <1>5 DEF RoomType, PlaceOf, JobsOf, ViewsOf, FlightOf
<1> QED BY <1>1, <1>4, <1>5, <1>6, <1>7

\* A reserved job is due.
HeldTick(o) == [NewJob("tick", o) EXCEPT !.held = TRUE]

\* The timer's push of a job that a handle names, and of one that none names.
FiredHeld(r, o) == [PushJob(r, HeldTick(o)) EXCEPT !.held = @ \ {o}]
FiredStray(r, o) == [PushJob(r, NewJob("tick", o)) EXCEPT !.stray[o] = @ - 1]

\* A reserved job is a job.
LEMMA HeldTickIs ==
  ASSUME NEW o \in Object
  PROVE  /\ HeldTick(o) \in Job
         /\ HeldTick(o).op = "tick" /\ HeldTick(o).obj = o /\ HeldTick(o).held
<1>1. "tick" \in Op
  BY DEF Op
<1>2. NewJob("tick", o) \in Job /\ NewJob("tick", o).op = "tick" /\ NewJob("tick", o).obj = o
  BY <1>1, NewJobIs
<1>3. ASSUME NEW j \in Job, NEW k, k = [j EXCEPT !.held = TRUE]
      PROVE  k \in Job /\ k.op = j.op /\ k.obj = j.obj /\ k.held = TRUE
  BY <1>3 DEF Job
<1> QED BY <1>2, <1>3 DEF HeldTick

\* What the pushes replace.
LEMMA FiredIs ==
  ASSUME NEW r \in RoomType, NEW o
  PROVE  /\ FiredHeld(r, o) = WithJobs(r, Append(r.queue, HeldTick(o)), r.held \ {o}, r.stray)
         /\ FiredStray(r, o) = WithJobs(r, Append(r.queue, NewJob("tick", o)), r.held, [r.stray EXCEPT ![o] = @ - 1])
<1>1. \A j : [PushJob(r, j) EXCEPT !.held = @ \ {o}] = WithJobs(r, Append(r.queue, j), r.held \ {o}, r.stray)
  BY DEF PushJob, RoomType, WithJobs
<1>2. \A j : [PushJob(r, j) EXCEPT !.stray[o] = @ - 1] = WithJobs(r, Append(r.queue, j), r.held, [r.stray EXCEPT ![o] = @ - 1])
  BY DEF PushJob, RoomType, WithJobs
<1> QED BY <1>1, <1>2, Zenon DEF FiredHeld, FiredStray

\* The named job has gone from the timer to the queue.
LEMMA FiredHeldDoes ==
  ASSUME NEW r \in RoomType, NEW o \in Object, NEW s, s = FiredHeld(r, o)
  PROVE  /\ s \in RoomType /\ s.queue = Append(r.queue, HeldTick(o))
         /\ s.held = r.held \ {o} /\ s.stray = r.stray
         /\ PlaceOf(s) = PlaceOf(r) /\ ViewsOf(s) = ViewsOf(r)
         /\ FightOf(s) = FightOf(r) /\ FlightOf(s) = FlightOf(r)
<1>1. PICK q, H : q = Append(r.queue, HeldTick(o)) /\ H = r.held \ {o}
  OBVIOUS
<1>2. q \in Seq(Job) /\ H \in SUBSET Object /\ r.stray \in [Object -> Nat]
  BY <1>1, HeldTickIs, RoomIs
<1>3. s = WithJobs(r, q, H, r.stray)
  BY <1>1, FiredIs, Zenon
<1>4. /\ s \in RoomType /\ s.queue = q /\ s.held = H /\ s.stray = r.stray
      /\ PlaceOf(s) = PlaceOf(r) /\ ViewsOf(s) = ViewsOf(r)
      /\ FightOf(s) = FightOf(r) /\ FlightOf(s) = FlightOf(r)
  BY <1>2, <1>3, PutJobs
<1> QED BY <1>1, <1>4

\* A stray job has gone from the timer to the queue.
LEMMA FiredStrayDoes ==
  ASSUME NEW r \in RoomType, NEW o \in Object, r.stray[o] > 0, NEW s, s = FiredStray(r, o)
  PROVE  /\ s \in RoomType /\ s.queue = Append(r.queue, NewJob("tick", o))
         /\ s.held = r.held /\ s.stray = [r.stray EXCEPT ![o] = @ - 1]
         /\ PlaceOf(s) = PlaceOf(r) /\ ViewsOf(s) = ViewsOf(r)
         /\ FightOf(s) = FightOf(r) /\ FlightOf(s) = FlightOf(r)
<1>1. PICK q, S : q = Append(r.queue, NewJob("tick", o)) /\ S = [r.stray EXCEPT ![o] = @ - 1]
  OBVIOUS
<1>2. NewJob("tick", o) \in Job
  BY NewJobIs DEF Op
<1>3. q \in Seq(Job) /\ S \in [Object -> Nat] /\ r.held \in SUBSET Object
  BY <1>1, <1>2, RoomIs
<1>4. s = WithJobs(r, q, r.held, S)
  BY <1>1, FiredIs, Zenon
<1>5. /\ s \in RoomType /\ s.queue = q /\ s.held = r.held /\ s.stray = S
      /\ PlaceOf(s) = PlaceOf(r) /\ ViewsOf(s) = ViewsOf(r)
      /\ FightOf(s) = FightOf(r) /\ FlightOf(s) = FlightOf(r)
  BY <1>3, <1>4, PutJobs
<1> QED BY <1>1, <1>5

-----------------------------------------------------------------------------
(* The types, and what the clients have been shown.                        *)

\* The first inductive invariant, and what a step must do for it.
Well == TypeOK /\ Seen(room)
Fine(s) == s \in RoomType /\ (Seen(room) => Seen(s))

\* The room that a job finds.
LEMMA PoppedIs == ASSUME TypeOK, NEW op, NEW o, Runs(op, o)
                  PROVE  /\ popped \in RoomType /\ popped = Popped(room)
                         /\ popped.queue = Tail(room.queue) /\ popped.held = room.held
                         /\ popped.stray = room.stray /\ PlaceOf(popped) = PlaceOf(room)
                         /\ ViewsOf(popped) = ViewsOf(room) /\ FightOf(popped) = FightOf(room)
                         /\ FlightOf(popped) = FlightOf(room) /\ Fine(popped)
<1>1. popped = Popped(room) /\ room.queue # <<>> /\ room \in RoomType
  BY DEF popped, Popped, Runs, TypeOK
<1> QED BY <1>1, PoppedDoes, ElsewhereSeen DEF Fine

\* Each job leaves a room, with all that is shown known.
LEMMA EnterJobFine == ASSUME TypeOK, NEW o \in Object, EnterJob(o) PROVE Fine(room')
<1>1. popped \in RoomType /\ Fine(popped) /\ room' \in Enter(popped, o)
  BY PoppedIs DEF EnterJob
<1>2. CASE o \in Actor
  BY <1>1, <1>2, EnterActorDoes DEF Fine
<1>3. CASE o \in Arrows
  <2>1. room' = EnterArrow(popped, o)
    BY <1>1, <1>3, ObjectIs DEF Enter
  <2> QED BY <1>1, <1>3, <2>1, EnterArrowDoes DEF Fine
<1> QED BY <1>2, <1>3 DEF Object

\* A Leave.
LEMMA LeaveJobFine == ASSUME TypeOK, NEW o \in Object, LeaveJob(o) PROVE Fine(room')
BY PoppedIs, LeaveDoes DEF LeaveJob, Fine

\* A cancelled job.
LEMMA EmptyJobFine == ASSUME TypeOK, NEW o \in Object, EmptyJob(o) PROVE Fine(room')
BY PoppedIs DEF EmptyJob

\* A move packet turns the player and may move him, or does nothing.
LEMMA HandleMoveDoes ==
  ASSUME TypeOK, NEW p \in Players, HandleMove(p)
  PROVE  /\ popped \in RoomType
         /\ \/ room' = popped
            \/ \E t, c : /\ Elsewhere(popped, t) /\ t.hp = popped.hp
                         /\ c \in Cell /\ room' = ApplyMove(t, p, c)
<1>1. PICK c \in Cell, d \in Dirs, state \in States :
       room' = IF c # room.cell[p] /\ ~CanGo(room, c) THEN popped
               ELSE ApplyMove([popped EXCEPT !.dir[p] = d,
                      !.idle = IF state = "IDLE" THEN @ \cup {p} ELSE @ \ {p}], p, c)
  BY DEF HandleMove
<1>2. popped \in RoomType
  BY PoppedIs DEF HandleMove
<1>3. PICK I : I = IF state = "IDLE" THEN popped.idle \cup {p} ELSE popped.idle \ {p}
  OBVIOUS
<1>4. PICK t : t = Turned(popped, p, d, I)
  OBVIOUS
<1>5. t = [popped EXCEPT !.dir[p] = d,
                      !.idle = IF state = "IDLE" THEN @ \cup {p} ELSE @ \ {p}]
  BY <1>3, <1>4 DEF Turned
<1>6. I \in SUBSET Players /\ d \in Dir
  BY <1>2, <1>3, RoomIs, DirsAssumption
<1>7. Elsewhere(popped, t) /\ t.hp = popped.hp
  BY <1>2, <1>4, <1>6, TurnedDoes
<1>8. room' = popped \/ room' = ApplyMove(t, p, c)
  BY <1>1, <1>5
<1> QED BY <1>2, <1>7, <1>8

\* A move.
LEMMA HandleMoveFine == ASSUME TypeOK, NEW p \in Players, HandleMove(p) PROVE Fine(room')
<1>1. Fine(popped)
  BY PoppedIs DEF HandleMove
<1>2. CASE room' = popped
  BY <1>1, <1>2
<1>3. ASSUME NEW t, NEW c, Elsewhere(popped, t), c \in Cell, room' = ApplyMove(t, p, c)
      PROVE  Fine(room')
  <2>1. t \in RoomType /\ ViewsOf(t) = ViewsOf(popped)
    BY <1>3 DEF Elsewhere
  <2>2. room' \in RoomType /\ ViewsOf(room') = ViewsOf(t)
    BY <1>3, <2>1, ApplyMoveDoes, ObjectIs
  <2> QED BY <1>1, <2>1, <2>2, ElsewhereSeen DEF Fine
<1> QED BY <1>2, <1>3, HandleMoveDoes

\* A skill packet does nothing, ends idleness, or makes an arrow.
LEMMA HandleSkillDoes ==
  ASSUME TypeOK, NEW p \in Players, HandleSkill(p)
  PROVE  /\ popped \in RoomType
         /\ \/ room' = popped
            \/ \E t : /\ Elsewhere(popped, t) /\ t.hp = popped.hp
                      /\ \/ room' = t
                         \/ \E a \in Arrows \ room.used :
                              room' = PushJob(Made(t, p, a), NewJob("enter", a))
<1>1. popped \in RoomType
  BY PoppedIs DEF HandleSkill
<1>2. PICK t : t = Busy(popped, p)
  OBVIOUS
<1>3. Elsewhere(popped, t) /\ t.hp = popped.hp
  BY <1>1, <1>2, BusyDoes
<1>4. \/ room' = popped \/ room' = t
      \/ \E a \in Arrows \ room.used :
           room' = PushJob([t EXCEPT !.used = @ \cup {a}, !.owner[a] = p, !.dir[a] = t.dir[p],
                             !.cell[a] = t.cell[p]], NewJob("enter", a))
  BY <1>2 DEF HandleSkill, Busy
<1> QED BY <1>1, <1>3, <1>4 DEF Made

\* A skill.
LEMMA HandleSkillFine == ASSUME TypeOK, NEW p \in Players, HandleSkill(p) PROVE Fine(room')
<1>1. Fine(popped)
  BY PoppedIs DEF HandleSkill
<1>2. CASE room' = popped
  BY <1>1, <1>2
<1>3. ASSUME NEW t, Elsewhere(popped, t) PROVE Fine(t)
  BY <1>1, <1>3, ElsewhereSeen DEF Elsewhere, Fine
<1>4. ASSUME NEW t, Elsewhere(popped, t), NEW a \in Arrows \ room.used,
             room' = PushJob(Made(t, p, a), NewJob("enter", a))
      PROVE  Fine(room')
  <2>1. PICK u : u = Made(t, p, a)
    OBVIOUS
  <2>2. u \in RoomType /\ ViewsOf(u) = ViewsOf(t)
    BY <1>4, <2>1, MadeDoes DEF Elsewhere
  <2>3. NewJob("enter", a) \in Job
    BY NewJobIs, ObjectIs DEF Op
  <2>4. room' \in RoomType /\ ViewsOf(room') = ViewsOf(u)
    BY <1>4, <2>1, <2>2, <2>3, PushDoes
  <2> QED BY <1>3, <1>4, <2>2, <2>4, ElsewhereSeen DEF Fine
<1> QED BY <1>2, <1>3, <1>4, HandleSkillDoes

\* Revival is a fight followed by Enter.
LEMMA ReviveDoes ==
  ASSUME NEW r \in RoomType, NEW o \in Actor, NEW full, NEW s \in Revive(r, o, full)
  PROVE  \E t : /\ Elsewhere(r, t) /\ t.hp = [r.hp EXCEPT ![o] = IF full THEN MaxHp ELSE @]
                /\ s \in RoomType /\ ActorEnters(t, o, s)
                /\ Seen(r) => Seen(s)
<1>1. PICK t : t = Revived(r, o, full)
  OBVIOUS
<1>2. Elsewhere(r, t) /\ t.hp = [r.hp EXCEPT ![o] = IF full THEN MaxHp ELSE @]
  BY <1>1, RevivedDoes
<1>3. s \in Enter(t, o)
  BY <1>1 DEF Revive, Revived
<1>4. s \in RoomType /\ ActorEnters(t, o, s) /\ (Seen(t) => Seen(s))
  BY <1>2, <1>3, EnterActorDoes DEF Elsewhere
<1> QED BY <1>2, <1>4, ElsewhereSeen DEF Elsewhere

\* A random jump.
LEMMA HandleGoRandomFine == ASSUME TypeOK, NEW p \in Players, HandleGoRandom(p) PROVE Fine(room')
<1>1. popped \in RoomType /\ Fine(popped)
  BY PoppedIs DEF HandleGoRandom
<1>2. room' = popped \/ room' \in Revive(Leave(popped, p), p, FALSE)
  BY DEF HandleGoRandom
<1>3. CASE room' \in Revive(Leave(popped, p), p, FALSE)
  <2>1. PICK l : l = Leave(popped, p)
    OBVIOUS
  <2>2. l \in RoomType /\ (Seen(popped) => Seen(l))
    BY <1>1, <2>1, LeaveDoes, ObjectIs
  <2>3. p \in Actor
    BY ObjectIs
  <2>4. room' \in Revive(l, p, FALSE)
    BY <1>3, <2>1
  <2>5. room' \in RoomType /\ (Seen(l) => Seen(room'))
    BY <2>2, <2>3, <2>4, ReviveDoes
  <2> QED BY <1>1, <2>2, <2>5 DEF Fine
<1> QED BY <1>1, <1>2, <1>3

\* An update of a view.
LEMMA ViewJobFine == ASSUME TypeOK, NEW p \in Players, ViewJob(p) PROVE Fine(room')
<1>1. popped \in RoomType /\ Fine(popped)
  BY PoppedIs DEF ViewJob
<1>2. room' = ViewUpdate(popped, p) \/ room' = Faulty(popped)
  BY DEF ViewJob, Faulty
<1>3. CASE room' = ViewUpdate(popped, p)
  BY <1>1, <1>3, ViewUpdateDoes DEF Fine
<1>4. CASE room' = Faulty(popped)
  BY <1>1, <1>4, FaultyDoes, ElsewhereSeen DEF Fine
<1> QED BY <1>2, <1>3, <1>4

\* An update of a monster.
LEMMA MonsterJobFine == ASSUME TypeOK, NEW m \in Monsters, MonsterJob(m) PROVE Fine(room')
<1>1. popped \in RoomType /\ Fine(popped) /\ room' \in MonsterUpdate(popped, m)
  BY PoppedIs DEF MonsterJob
<1>2. CASE m \in popped.inRoom
  <2>1. Acted(popped, m, room')
    BY <1>1, <1>2, MonsterUpdateDoes
  <2> QED BY <1>1, <2>1, ElsewhereSeen DEF Acted, Fine
<1>3. CASE m \notin popped.inRoom
  BY <1>1, <1>3 DEF MonsterUpdate
<1> QED BY <1>2, <1>3

\* An update of an arrow.
LEMMA ArrowJobFine == ASSUME TypeOK, NEW a \in Arrows, ArrowJob(a) PROVE Fine(room')
<1>1. popped \in RoomType /\ Fine(popped) /\ room' = ArrowUpdate(popped, a)
  BY PoppedIs DEF ArrowJob
<1>2. CASE popped.owner[a] = None \/ a \notin popped.inRoom
  BY <1>1, <1>2 DEF ArrowUpdate
<1>3. CASE popped.owner[a] # None /\ a \in popped.inRoom
  <2>1. ArrowFlies(popped, a, room') \/ ArrowStrikes(popped, a, room')
    BY <1>1, <1>3, ArrowUpdateDoes
  <2>2. CASE ArrowFlies(popped, a, room')
    BY <1>1, <2>2, ElsewhereSeen DEF ArrowFlies, Fine
  <2>3. CASE ArrowStrikes(popped, a, room')
    <3>1. PICK t : Struck(popped, a, t) /\ room' = PushJob(t, NewJob("leave", a))
      BY <2>3 DEF ArrowStrikes
    <3>2. ViewsOf(t) = ViewsOf(popped)
      BY <3>1 DEF Struck
    <3>3. room' \in RoomType /\ ViewsOf(room') = ViewsOf(t)
      BY <3>1, StruckType
    <3> QED BY <1>1, <3>2, <3>3, ElsewhereSeen DEF Fine
  <2> QED BY <2>1, <2>2, <2>3
<1> QED BY <1>2, <1>3

\* The timer's pushes.
LEMMA FiresFine == ASSUME TypeOK, NEW o \in Object, FireHeld(o) \/ FireStray(o) PROVE Fine(room')
<1>1. room \in RoomType
  BY DEF TypeOK
<1>2. CASE FireHeld(o)
  <2>1. room' = FiredHeld(room, o)
    BY <1>2 DEF FireHeld, FiredHeld, HeldTick
  <2> QED BY <1>1, <2>1, FiredHeldDoes, ElsewhereSeen DEF Fine
<1>3. CASE FireStray(o)
  <2>1. room' = FiredStray(room, o) /\ room.stray[o] > 0
    BY <1>3 DEF FireStray, FiredStray
  <2> QED BY <1>1, <2>1, FiredStrayDoes, ElsewhereSeen DEF Fine
<1> QED BY <1>2, <1>3

\* The sessions' pushes.
LEMMA PushedFine ==
  ASSUME NEW r \in RoomType, NEW op \in Op, NEW o \in Object, NEW s, s = PushJob(r, NewJob(op, o))
  PROVE  s \in RoomType /\ (Seen(r) => Seen(s))
<1>1. NewJob(op, o) \in Job
  BY NewJobIs
<1>2. s \in RoomType /\ ViewsOf(s) = ViewsOf(r)
  BY <1>1, PushDoes
<1> QED BY <1>2, ElsewhereSeen

\* A client has answered the S_Die of o.
Answered(r, p, o) == [r EXCEPT !.deaths = @ \ {<<p, o>>}]

\* An answer to S_Die is taken off the list.
LEMMA AnsweredDoes ==
  ASSUME NEW r \in RoomType, NEW p, NEW o, NEW s, s = Answered(r, p, o)
  PROVE  Elsewhere(r, s) /\ s.hp = r.hp
BY ZenonT(40) DEF Answered, RoomType, Elsewhere, PlaceOf, JobsOf, ViewsOf, FlightOf

\* All the jobs.
LEMMA JobsFine == ASSUME TypeOK, RunJob PROVE Fine(room')
<1>1. ASSUME NEW o \in Object, EnterJob(o) \/ LeaveJob(o) \/ EmptyJob(o) PROVE Fine(room')
  BY <1>1, EnterJobFine, LeaveJobFine, EmptyJobFine
<1>2. ASSUME NEW p \in Players, HandleMove(p) \/ HandleSkill(p) \/ HandleGoRandom(p) \/ ViewJob(p)
      PROVE  Fine(room')
  BY <1>2, HandleMoveFine, HandleSkillFine, HandleGoRandomFine, ViewJobFine
<1>3. ASSUME NEW m \in Monsters, MonsterJob(m) PROVE Fine(room')
  BY <1>3, MonsterJobFine
<1>4. ASSUME NEW a \in Arrows, ArrowJob(a) PROVE Fine(room')
  BY <1>4, ArrowJobFine
<1> QED BY <1>1, <1>2, <1>3, <1>4 DEF RunJob

\* TypeOK without the room.
SessionTypes ==
  /\ handler \in [Players -> [at : Place \ Anim, obj : {None}] \cup [at : Anim, obj : Actor]]
  /\ link \in [Players -> {"open", "dropped", "left", "closed"}]
  /\ current \in [Players -> BOOLEAN] /\ joined \in [Players -> BOOLEAN]
  /\ late \subseteq Players /\ raced \subseteq Actor

\* The place names of a handler are apart.
LEMMA PlacesAre ==
  /\ {"idle", "entering", "joined"} \subseteq Place \ Anim /\ Packets \subseteq Place \ Anim
  /\ Packets \subseteq Op
BY DEF Packets, Place, Anim, Op

\* A handler that goes on is one.
LEMMA GoToType ==
  ASSUME TypeOK, NEW p \in Players, NEW place \in Place \ Anim, GoTo(p, place)
  PROVE  handler' \in [Players -> [at : Place \ Anim, obj : {None}] \cup [at : Anim, obj : Actor]]
<1>1. [at |-> place, obj |-> None] \in [at : Place \ Anim, obj : {None}]
  OBVIOUS
<1> QED BY <1>1 DEF GoTo, TypeOK

\* A handler in OnDeadAnim has found an object.
LEMMA AtAnim ==
  ASSUME TypeOK, NEW p \in Players, handler[p].at \in Anim
  PROVE  handler[p].obj \in Actor /\ handler[p] \in [at : Anim, obj : Actor]
BY DEF TypeOK

\* Whose OnDeadAnim a job or another answer meets is an object it found.
LEMMA RevivingIs == ASSUME TypeOK PROVE Reviving \subseteq Actor /\ Overtaken \subseteq Reviving
BY AtAnim DEF Reviving, Overtaken

\* A push by a handler.
LEMMA PushFine ==
  ASSUME TypeOK, NEW p \in Players, NEW op \in Op, Push(p, op)
  PROVE  Fine(room') /\ late' \subseteq Players
<1>1. Fine(room')
  BY PushedFine, ObjectIs DEF Push, Fine, TypeOK
<1> QED BY <1>1 DEF Push, TypeOK

\* Each step of a session.
LEMMA SessionStepFine ==
  ASSUME TypeOK, NEW p \in Players, SessionStep(p)
  PROVE  Fine(room') /\ SessionTypes'
<1>0. Fine(room) /\ room \in RoomType /\ raced \subseteq Actor
  BY DEF Fine, TypeOK
<1>1. ASSUME BeginEnterGame(p), UNCHANGED raced PROVE Fine(room') /\ SessionTypes'
  BY <1>0, <1>1, GoToType, PlacesAre DEF BeginEnterGame, SessionTypes, TypeOK
<1>2. ASSUME FindRoom(p), UNCHANGED raced PROVE Fine(room') /\ SessionTypes'
  BY <1>0, <1>2, GoToType, PlacesAre DEF FindRoom, SessionTypes, TypeOK
<1>3. ASSUME PushEnter(p), UNCHANGED raced PROVE Fine(room') /\ SessionTypes'
  <2>1. Fine(room') /\ late' \subseteq Players
    BY <1>0, <1>3, PushFine DEF PushEnter, Op, TypeOK
  <2> QED BY <1>3, <2>1, GoToType, PlacesAre DEF PushEnter, SessionTypes, TypeOK
<1>4. ASSUME \E packet \in Packets : BeginPacket(p, packet), UNCHANGED raced
      PROVE  Fine(room') /\ SessionTypes'
  BY <1>0, <1>4, GoToType, PlacesAre DEF BeginPacket, SessionTypes, TypeOK
<1>5. ASSUME PushPacket(p), UNCHANGED raced PROVE Fine(room') /\ SessionTypes'
  <2>1. Fine(room') /\ late' \subseteq Players
    BY <1>0, <1>5, PushFine, PlacesAre DEF PushPacket
  <2> QED BY <1>5, <2>1, GoToType, PlacesAre DEF PushPacket, SessionTypes, TypeOK
<1>6. ASSUME NEW o \in Actor, BeginAnimEnd(p, o) PROVE Fine(room') /\ SessionTypes'
  <2>1. room' = Answered(room, p, o)
    BY <1>6 DEF BeginAnimEnd, Answered
  <2>2. Fine(room')
    BY <1>0, <2>1, AnsweredDoes, ElsewhereSeen DEF Elsewhere, Fine
  <2>3. [at |-> "animLeave", obj |-> o] \in [at : Anim, obj : Actor]
    BY DEF Anim
  <2>4. handler' \in [Players -> [at : Place \ Anim, obj : {None}] \cup [at : Anim, obj : Actor]]
    BY <1>6, <2>3 DEF BeginAnimEnd, TypeOK
  <2>5. raced' \subseteq Actor
    BY <1>0, <1>6 DEF BeginAnimEnd
  <2> QED BY <1>6, <2>2, <2>4, <2>5 DEF BeginAnimEnd, SessionTypes, TypeOK
<1>7. ASSUME AnimLeave(p), UNCHANGED raced PROVE Fine(room') /\ SessionTypes'
  <2>1. handler[p].obj \in Actor /\ handler[p] \in [at : Anim, obj : Actor]
    BY <1>7, AtAnim DEF AnimLeave, At, Anim
  <2>2. Fine(room')
    <3>1. handler[p].obj \in Object /\ room' = Leave(room, handler[p].obj)
      BY <1>7, <2>1, ObjectIs DEF AnimLeave
    <3>2. PICK o \in Object : room' = Leave(room, o)
      BY <3>1
    <3>3. room' \in RoomType
      BY <1>0, <3>2, LeaveDoes
    <3>4. Seen(room) => Seen(room')
      BY <1>0, <3>2, LeaveDoes
    <3> QED BY <3>3, <3>4 DEF Fine
  <2>3. [handler[p] EXCEPT !.at = "animEnter"] \in [at : Anim, obj : Actor]
    BY <2>1 DEF Anim
  <2>4. handler' \in [Players -> [at : Place \ Anim, obj : {None}] \cup [at : Anim, obj : Actor]]
    BY <1>7, <2>3 DEF AnimLeave, TypeOK
  <2> QED BY <1>7, <2>2, <2>4 DEF AnimLeave, SessionTypes, TypeOK
<1>8. ASSUME AnimEnter(p), UNCHANGED raced PROVE Fine(room') /\ SessionTypes'
  <2>1. handler[p].obj \in Actor
    BY <1>8, AtAnim DEF AnimEnter, At, Anim
  <2>2. Fine(room')
    BY <1>0, <1>8, <2>1, ReviveDoes DEF AnimEnter, Fine
  <2> QED BY <1>8, <2>2, GoToType, PlacesAre DEF AnimEnter, SessionTypes, TypeOK
<1>9. ASSUME Drop(p), UNCHANGED raced PROVE Fine(room') /\ SessionTypes'
  BY <1>0, <1>9 DEF Drop, SessionTypes, TypeOK
<1>10. ASSUME PushLeave(p), UNCHANGED raced PROVE Fine(room') /\ SessionTypes'
  <2>1. Fine(room')
    BY <1>0, <1>10, PushedFine, ObjectIs DEF PushLeave, Fine, Op
  <2> QED BY <1>10, <2>1 DEF PushLeave, SessionTypes, TypeOK
<1>11. ASSUME ForgetPlayer(p), UNCHANGED raced PROVE Fine(room') /\ SessionTypes'
  BY <1>0, <1>11 DEF ForgetPlayer, SessionTypes, TypeOK
<1> QED BY <1>1, <1>2, <1>3, <1>4, <1>5, <1>6, <1>7, <1>8, <1>9, <1>10, <1>11 DEF SessionStep

\* The room before anybody is in it.
EmptyRoom(q) ==
       [present |-> {}, inRoom |-> {},
        cell |-> [o \in Object |-> <<MinX, MinY>>],
        dir |-> [o \in Players \cup Arrows |-> "DOWN"],
        idle |-> Players, hp |-> [o \in Actor |-> MaxHp],
        fsm |-> [m \in Monsters |-> "IDLE"],
        target |-> [m \in Monsters |-> None], ready |-> Monsters,
        owner |-> [a \in Arrows |-> None], used |-> {},
        grid |-> [c \in Cell |-> None], zone |-> [z \in Zone |-> {}],
        prev |-> [p \in Players |-> {}], known |-> [p \in Players |-> {}],
        queue |-> q,
        held |-> {}, stray |-> [o \in Object |-> 0],
        deaths |-> {}, hits |-> [a \in Arrows |-> 0], gone |-> {},
        fault |-> FALSE]

\* The position of a new object is a cell of the map.
LEMMA FirstCell == <<MinX, MinY>> \in Cell
BY MapAssumption, BoundsAssumption DEF Cell

\* It is a room.
LEMMA EmptyRoomType ==
  ASSUME NEW q \in Seq(Job)
  PROVE  EmptyRoom(q) \in RoomType
<1>1. PICK C, D, H, F, T, O, G, Z, P, S, K :
        /\ C = [o \in Object |-> <<MinX, MinY>>]
        /\ D = [o \in Players \cup Arrows |-> "DOWN"] /\ H = [o \in Actor |-> MaxHp]
        /\ F = [m \in Monsters |-> "IDLE"] /\ T = [m \in Monsters |-> None]
        /\ O = [a \in Arrows |-> None] /\ G = [c \in Cell |-> None]
        /\ Z = [z \in Zone |-> {}] /\ P = [p \in Players |-> {}]
        /\ S = [o \in Object |-> 0] /\ K = [a \in Arrows |-> 0]
  OBVIOUS
<1>2. C \in [Object -> Cell] /\ D \in [Players \cup Arrows -> Dir]
  BY <1>1, FirstCell DEF Dir
<1>3. H \in [Actor -> 0 .. MaxHp] /\ F \in [Monsters -> {"IDLE", "MOVING", "SKILL"}]
  BY <1>1, MaxHpAssumption
<1>4. T \in [Monsters -> Players \cup {None}] /\ O \in [Arrows -> Players \cup {None}]
  BY <1>1
<1>5. G \in [Cell -> Object \cup {None}] /\ Z \in [Zone -> SUBSET Object] /\ P \in [Players -> SUBSET Object]
  BY <1>1
<1>6. S \in [Object -> Nat] /\ K \in [Arrows -> Nat]
  BY <1>1
<1>7. EmptyRoom(q) =
        [present |-> {}, inRoom |-> {}, cell |-> C, dir |-> D, idle |-> Players, hp |-> H,
         fsm |-> F, target |-> T, ready |-> Monsters, owner |-> O, used |-> {},
         grid |-> G, zone |-> Z, prev |-> P, known |-> P, queue |-> q, held |-> {}, stray |-> S,
         deaths |-> {}, hits |-> K, gone |-> {}, fault |-> FALSE]
  BY <1>1 DEF EmptyRoom
<1> QED BY <1>2, <1>3, <1>4, <1>5, <1>6, <1>7 DEF RoomType

\* The Enters of Room::Init are a queue.
LEMMA FirstQueue ==
  ASSUME NEW order \in [1 .. Cardinality(Monsters) -> Monsters], NEW q,
         q = [i \in DOMAIN order |-> NewJob("enter", order[i])]
  PROVE  q \in Seq(Job)
<1>1. \A i \in DOMAIN order : NewJob("enter", order[i]) \in Job
  <2>1. "enter" \in Op
    BY DEF Op
  <2>2. \A i \in DOMAIN order : order[i] \in Object
    BY ObjectIs
  <2> QED BY <2>1, <2>2, NewJobIs, Zenon
<1>2. Cardinality(Monsters) \in Nat
  BY MonstersAssumption, FS_CardinalityType
<1> QED BY <1>1, <1>2

\* It is the first room.
LEMMA InitIs ==
  ASSUME Init
  PROVE  /\ \E order \in [1 .. Cardinality(Monsters) -> Monsters] :
              /\ \A i, j \in DOMAIN order : order[i] = order[j] => i = j
              /\ room = EmptyRoom([i \in DOMAIN order |-> NewJob("enter", order[i])])
         /\ room \in RoomType /\ SessionTypes
<1>1. PICK order \in [1 .. Cardinality(Monsters) -> Monsters] :
              /\ \A i, j \in DOMAIN order : order[i] = order[j] => i = j
              /\ room = EmptyRoom([i \in DOMAIN order |-> NewJob("enter", order[i])])
  BY Zenon DEF Init, EmptyRoom
<1>2. room \in RoomType
  BY <1>1, FirstQueue, EmptyRoomType
<1>3. SessionTypes
  <2>1. Idle \in [at : Place \ Anim, obj : {None}]
    BY DEF Idle, Place, Anim
  <2>2. handler = [p \in Players |-> Idle]
    BY DEF Init
  <2>3. handler \in [Players -> [at : Place \ Anim, obj : {None}] \cup [at : Anim, obj : Actor]]
    BY <2>1, <2>2
  <2> QED BY <2>3 DEF Init, SessionTypes
<1> QED BY <1>1, <1>2, <1>3

\* Well holds at first.
LEMMA InitWell == Init => Well
<1> SUFFICES ASSUME Init PROVE Well
  OBVIOUS
<1>1. PICK q : room = EmptyRoom(q)
  BY InitIs
<1>2. room.prev = [p \in Players |-> {}]
  BY <1>1 DEF EmptyRoom
<1> QED BY <1>2, InitIs DEF Well, TypeOK, SessionTypes, Seen

\* And every step keeps it.
LEMMA NextWell == Well /\ [Next]_vars => Well'
<1> SUFFICES ASSUME Well, [Next]_vars PROVE Well'
  OBVIOUS
<1>0. TypeOK /\ Seen(room)
  BY DEF Well
<1>1. ASSUME Fine(room'), SessionTypes' PROVE Well'
  BY <1>0, <1>1 DEF Well, TypeOK, SessionTypes, Fine
<1>2. UNCHANGED session /\ raced' \subseteq Actor => SessionTypes'
  BY <1>0 DEF session, SessionTypes, TypeOK
<1>3. CASE RunJob
  <2>1. UNCHANGED session
    BY <1>3 DEF RunJob, EnterJob, LeaveJob, EmptyJob, HandleMove, HandleSkill, HandleGoRandom,
                ViewJob, MonsterJob, ArrowJob
  <2>2. raced' = raced \cup Overtaken /\ raced \subseteq Actor
    BY <1>0, <1>3 DEF RunJob, TypeOK
  <2> QED BY <1>0, <1>1, <1>2, <1>3, <2>1, <2>2, JobsFine, RevivingIs
<1>4. ASSUME NEW o \in Object, FireHeld(o) \/ FireStray(o) PROVE Well'
  <2>1. UNCHANGED session /\ UNCHANGED raced /\ raced \subseteq Actor
    BY <1>0, <1>4 DEF FireHeld, FireStray, TypeOK
  <2> QED BY <1>0, <1>1, <1>2, <1>4, <2>1, FiresFine
<1>5. ASSUME NEW p \in Players, SessionStep(p) PROVE Well'
  BY <1>0, <1>1, <1>5, SessionStepFine
<1>6. CASE UNCHANGED vars
  BY <1>0, <1>6 DEF vars, Well, TypeOK, Seen
<1> QED BY <1>3, <1>4, <1>5, <1>6 DEF Next

\* The room and the sessions always have their types: nothing is ever put in the grid,
\* a Zone or a view that is no object, and no position is off the map
\* (Room.cpp:68-183, Map.cpp:58-163).
THEOREM RoomTypes == Spec => []TypeOK
<1>1. Well => TypeOK
  BY DEF Well
<1> QED BY <1>1, InitWell, NextWell, PTL DEF Spec

\* Whatever sessions, jobs and timers meet, a client knows of everything it was last
\* shown that never left the room: no broadcast undoes an update of the view
\* (ViewCube.cpp:16-65, Room.cpp:193-207).
THEOREM ShownStaysKnown == Spec => []ShownIsKnown
<1>1. Well => ShownIsKnown
  BY DEF Well, Seen, ShownIsKnown
<1> QED BY <1>1, InitWell, NextWell, PTL DEF Spec

-----------------------------------------------------------------------------
(* The jobs of an arrow, and the reserved jobs of players and monsters.    *)

\* An arrow has such a job in the queue.
Has(q, a, op) == \E i \in DOMAIN q : q[i].obj = a /\ q[i].op = op

\* The jobs of arrow a: an Enter alone, or a Leave and after it an update at most.
InTurn(q, a) ==
  /\ \A i \in DOMAIN q : q[i].obj = a => q[i].op \in {"enter", "leave", "tick"}
  /\ \A i, j \in DOMAIN q : q[i].obj = a /\ q[j].obj = a /\ q[i].op = q[j].op => i = j
  /\ \A i, j \in DOMAIN q : q[i].obj = a /\ q[j].obj = a /\ q[i].op = "enter" => i = j
  /\ \A i, j \in DOMAIN q :
       q[i].obj = a /\ q[j].obj = a /\ q[i].op = "leave" /\ q[j].op = "tick" => i < j

\* What is left of a queue.
LEMMA TailIs ==
  ASSUME NEW q \in Seq(Job), q # <<>>
  PROVE  /\ Tail(q) \in Seq(Job) /\ 1 \in DOMAIN q
         /\ DOMAIN Tail(q) = 1 .. Len(q) - 1 /\ DOMAIN q = 1 .. Len(q) /\ Len(q) \in Nat
         /\ \A i \in 1 .. Len(q) - 1 : Tail(q)[i] = q[i + 1]
         /\ \A i \in DOMAIN Tail(q) : i \in Int /\ i + 1 \in DOMAIN q /\ Tail(q)[i] = q[i + 1]
         /\ \A i \in DOMAIN q : i # 1 => i - 1 \in DOMAIN Tail(q) /\ Tail(q)[i - 1] = q[i]
OBVIOUS

\* A queue with one job more.
LEMMA AppendIs ==
  ASSUME NEW q \in Seq(Job), NEW j \in Job
  PROVE  /\ Append(q, j) \in Seq(Job) /\ Len(q) \in Nat
         /\ DOMAIN q = 1 .. Len(q) /\ DOMAIN Append(q, j) = 1 .. Len(q) + 1
         /\ \A i \in 1 .. Len(q) : Append(q, j)[i] = q[i]
         /\ Append(q, j)[Len(q) + 1] = j
OBVIOUS

\* The first job of an arrow is taken: the rest are in turn.
LEMMA TailInTurn ==
  ASSUME NEW q \in Seq(Job), q # <<>>, NEW a, InTurn(q, a)
  PROVE  /\ InTurn(Tail(q), a)
         /\ \A op : Has(Tail(q), a, op) => Has(q, a, op)
         /\ \A op : Has(q, a, op) /\ (q[1].obj # a \/ q[1].op # op) => Has(Tail(q), a, op)
         /\ q[1].obj = a =>
              /\ Has(q, a, q[1].op) /\ ~Has(Tail(q), a, q[1].op)
              /\ q[1].op \in {"enter", "leave", "tick"} /\ ~Has(Tail(q), a, "enter")
              /\ q[1].op = "tick" => ~Has(Tail(q), a, "leave")
              /\ q[1].op = "enter" => ~Has(Tail(q), a, "leave") /\ ~Has(Tail(q), a, "tick")
<1>1. InTurn(Tail(q), a)
  <2> DEFINE t == Tail(q)
  <2>1. \A i \in DOMAIN t : i \in Int /\ i + 1 \in DOMAIN q /\ t[i] = q[i + 1]
    BY TailIs
  <2> HIDE DEF t
  <2>2. InTurn(t, a)
    BY <2>1 DEF InTurn
  <2> QED BY <2>2 DEF t
<1>2. \A op : Has(Tail(q), a, op) => Has(q, a, op)
  BY TailIs DEF Has
<1>3. ASSUME NEW op, Has(q, a, op), q[1].obj # a \/ q[1].op # op PROVE Has(Tail(q), a, op)
  <2>1. PICK i \in DOMAIN q : q[i].obj = a /\ q[i].op = op
    BY <1>3 DEF Has
  <2>2. i - 1 \in DOMAIN Tail(q) /\ Tail(q)[i - 1] = q[i]
    BY <1>3, <2>1, TailIs
  <2> QED BY <2>1, <2>2 DEF Has
<1>4. ASSUME NEW i \in DOMAIN Tail(q), q[1].obj = a, Tail(q)[i].obj = a
      PROVE  /\ Tail(q)[i].op # q[1].op /\ Tail(q)[i].op # "enter" /\ q[1].op # "enter"
             /\ q[1].op = "tick" => Tail(q)[i].op # "leave"
  <2>1. 1 \in DOMAIN q /\ i + 1 \in DOMAIN q /\ i + 1 # 1 /\ q[i + 1] = Tail(q)[i] /\ ~(i + 1 < 1)
    BY TailIs
  <2> QED BY <1>4, <2>1 DEF InTurn
<1>5. q[1].obj = a => Has(q, a, q[1].op) /\ q[1].op \in {"enter", "leave", "tick"}
  BY TailIs DEF Has, InTurn
<1> QED BY <1>1, <1>2, <1>3, <1>4, <1>5 DEF Has

\* A job is pushed when its turn has come: the jobs are in turn.
LEMMA AppendInTurn ==
  ASSUME NEW q \in Seq(Job), NEW j \in Job, NEW a, InTurn(q, a),
         \/ j.obj # a
         \/ ~Has(q, a, "enter") /\ ~Has(q, a, "tick") /\ j.op = "tick"
         \/ ~Has(q, a, "enter") /\ ~Has(q, a, "tick") /\ ~Has(q, a, "leave")
              /\ j.op \in {"enter", "leave"}
  PROVE  /\ InTurn(Append(q, j), a)
         /\ \A op : Has(Append(q, j), a, op) <=> Has(q, a, op) \/ (j.obj = a /\ j.op = op)
<1> DEFINE t == Append(q, j)  n == Len(q) + 1
<1>1. /\ n \in Int /\ n \in DOMAIN t /\ t[n] = j
      /\ \A i \in DOMAIN t : i \in DOMAIN q \/ i = n
      /\ \A i \in DOMAIN q : i \in DOMAIN t /\ i \in Int /\ i < n /\ t[i] = q[i]
  BY AppendIs
<1> HIDE DEF t, n
<1>2. \A op : Has(t, a, op) <=> Has(q, a, op) \/ (j.obj = a /\ j.op = op)
  BY <1>1 DEF Has
<1>3. CASE j.obj # a
  <2>1. \A i \in DOMAIN t : t[i].obj = a => i \in DOMAIN q /\ t[i] = q[i]
    BY <1>1, <1>3
  <2>2. InTurn(t, a)
    BY <2>1 DEF InTurn
  <2> QED BY <1>2, <2>2 DEF t
<1>4. CASE j.obj = a
  <2>1. \A i \in DOMAIN q : q[i].obj = a => q[i].op \in {"enter", "leave", "tick"}
    BY DEF InTurn
  <2>2. CASE ~Has(q, a, "enter") /\ ~Has(q, a, "tick") /\ j.op = "tick"
    <3>1. \A i \in DOMAIN q : q[i].obj = a => q[i].op = "leave"
      BY <2>1, <2>2 DEF Has
    <3>2. \A i, k \in DOMAIN q : q[i].obj = a /\ q[k].obj = a => i = k
      BY <3>1 DEF InTurn
    <3>3. \A i \in DOMAIN t : t[i].obj = a =>
            \/ i \in DOMAIN q /\ t[i] = q[i] /\ t[i].op = "leave" /\ i < n
            \/ i = n /\ t[i].op = "tick"
      BY <1>1, <2>2, <3>1
    <3>4. \A i \in DOMAIN t : t[i].obj = a => t[i].op \in {"enter", "leave", "tick"}
      BY <3>3
    <3>5. \A i, k \in DOMAIN t : t[i].obj = a /\ t[k].obj = a /\ t[i].op = t[k].op => i = k
      BY <3>2, <3>3
    <3>6. \A i, k \in DOMAIN t : t[i].obj = a /\ t[k].obj = a /\ t[i].op = "enter" => i = k
      BY <3>3
    <3>7. \A i, k \in DOMAIN t :
             t[i].obj = a /\ t[k].obj = a /\ t[i].op = "leave" /\ t[k].op = "tick" => i < k
      BY <3>3
    <3>8. InTurn(t, a)
      BY <3>4, <3>5, <3>6, <3>7 DEF InTurn
    <3> QED BY <1>2, <3>8 DEF t
  <2>3. CASE /\ ~Has(q, a, "enter") /\ ~Has(q, a, "tick") /\ ~Has(q, a, "leave")
             /\ j.op \in {"enter", "leave"}
    <3>1. \A i \in DOMAIN q : q[i].obj # a
      BY <2>1, <2>3 DEF Has
    <3>2. \A i \in DOMAIN t : t[i].obj = a => i = n /\ t[i] = j
      BY <1>1, <3>1
    <3>3. InTurn(t, a)
      BY <2>3, <3>2 DEF InTurn
    <3> QED BY <1>2, <3>3 DEF t
  <2> QED BY <1>4, <2>2, <2>3
<1> QED BY <1>3, <1>4

\* What arrow a has in the queue is the same.
SameFor(q, t, a) ==
  /\ DOMAIN t = DOMAIN q
  /\ \A i \in DOMAIN q : t[i].obj = q[i].obj /\ (q[i].obj = a => t[i].op = q[i].op)

\* Only the jobs of the arrow itself matter.
LEMMA SameInTurn ==
  ASSUME NEW q, NEW t, NEW a, SameFor(q, t, a)
  PROVE  /\ InTurn(q, a) => InTurn(t, a)
         /\ \A op : Has(t, a, op) <=> Has(q, a, op)
BY DEF SameFor, InTurn, Has

\* Where an arrow is in its life.
Flying(r, a) == a \in r.inRoom /\ (r.stray[a] = 1 \/ Has(r.queue, a, "tick"))

\* An arrow that was not made has nothing; an Enter comes before any update and any
\* hit; there is one update at most, with the timer or in the queue; and one that has
\* hit has no owner or its Leave is queued before its update.
ArrowFine(r, a) ==
  /\ InTurn(r.queue, a)
  /\ a \notin r.used =>
       /\ \A op \in {"enter", "leave", "tick"} : ~Has(r.queue, a, op)
       /\ r.stray[a] = 0 /\ r.owner[a] = None /\ r.hits[a] = 0
  /\ Has(r.queue, a, "enter") => r.stray[a] = 0 /\ r.hits[a] = 0
  /\ Has(r.queue, a, "tick") => r.stray[a] = 0
  /\ r.stray[a] <= 1 /\ r.hits[a] <= 1
  /\ r.hits[a] = 1 => r.owner[a] = None \/ r.fault \/ Has(r.queue, a, "leave")
  /\ r.owner[a] # None => Has(r.queue, a, "enter") \/ Flying(r, a)

\* Nothing that matters to arrow a has changed.
Aside(r, s, a) ==
  /\ SameFor(r.queue, s.queue, a) /\ s.stray[a] = r.stray[a]
  /\ s.owner[a] = r.owner[a] /\ s.hits[a] <= r.hits[a] /\ (a \in s.used <=> a \in r.used)
  /\ (a \in s.inRoom <=> a \in r.inRoom) /\ (r.fault => s.fault)

\* The numbers of an arrow.
LEMMA RoomNumbers ==
  ASSUME NEW r \in RoomType, NEW a \in Arrows
  PROVE  r.stray[a] \in Nat /\ r.hits[a] \in Nat /\ r.queue \in Seq(Job) /\ a \in Object
BY RoomIs, ObjectIs

\* Then it stays fine.
LEMMA AsideFine ==
  ASSUME NEW r \in RoomType, NEW s \in RoomType, NEW a \in Arrows, ArrowFine(r, a), Aside(r, s, a)
  PROVE  ArrowFine(s, a)
<1>1. /\ InTurn(r.queue, a) => InTurn(s.queue, a)
      /\ \A op : Has(s.queue, a, op) <=> Has(r.queue, a, op)
  BY SameInTurn DEF Aside
<1>2. r.hits[a] \in Nat /\ s.hits[a] \in Nat
  BY RoomNumbers
<1> QED BY <1>1, <1>2 DEF Aside, ArrowFine, Flying

\* Twice nothing is nothing.
LEMMA AsideTwice ==
  ASSUME NEW r \in RoomType, NEW s \in RoomType, NEW t \in RoomType, NEW a \in Arrows,
         Aside(r, s, a), Aside(s, t, a)
  PROVE  Aside(r, t, a)
<1>1. r.hits[a] \in Nat /\ s.hits[a] \in Nat /\ t.hits[a] \in Nat
  BY RoomNumbers
<1>2. SameFor(r.queue, t.queue, a)
  BY DEF Aside, SameFor
<1> QED BY <1>1, <1>2 DEF Aside


\* The same queue is the same for all.
LEMMA SameForIs ==
  ASSUME NEW r, NEW s, NEW a
  PROVE  /\ JobsOf(s) = JobsOf(r) => SameFor(r.queue, s.queue, a) /\ s.stray[a] = r.stray[a]
         /\ \A o \in Object : (Touched(r, o, s) /\ a \in Object /\ a # o) =>
              SameFor(r.queue, s.queue, a) /\ s.stray[a] = r.stray[a]
BY DEF JobsOf, SameFor, Touched

\* Emptying the job of an actor is nothing to an arrow.
LEMMA EmptiedSame ==
  ASSUME NEW q \in Seq(Job), NEW o \in Object, NEW a, a # o
  PROVE  SameFor(q, Emptied(q, o), a)
BY EmptiedIs DEF SameFor

\* A job of somebody else, and the rest of what may not matter to arrow a.
SameLife(r, s, a) ==
  /\ s.owner[a] = r.owner[a] /\ s.hits[a] <= r.hits[a] /\ (a \in s.used <=> a \in r.used)
  /\ (r.fault => s.fault)

\* And of the room it is in.
SameRoom(r, s, a) == a \in s.inRoom <=> a \in r.inRoom

\* The flights are the same if their part of the room is.
LEMMA SameLifeIs ==
  ASSUME NEW r \in RoomType, NEW a \in Arrows, NEW s, FlightOf(s) = FlightOf(r)
  PROVE  SameLife(r, s, a)
<1>1. s.owner = r.owner /\ s.hits = r.hits /\ s.used = r.used /\ s.fault = r.fault
  BY DEF FlightOf
<1> QED BY <1>1, RoomNumbers DEF SameLife

\* So is the room it is in, if the places are.
LEMMA SameRoomIs ==
  ASSUME NEW r, NEW a, NEW s
  PROVE  /\ PlaceOf(s) = PlaceOf(r) => SameRoom(r, s, a)
         /\ \A o : Moves(r, o, s) => SameRoom(r, s, a)
         /\ \A o : a # o /\ Leaves(r, o, s) => SameRoom(r, s, a)
         /\ \A o, pos : a # o /\ Arrives(r, o, pos, s) => SameRoom(r, s, a)
<1>1. PlaceOf(s) = PlaceOf(r) => s.inRoom = r.inRoom
  BY DEF PlaceOf
<1>2. \A o : Moves(r, o, s) => s.inRoom = r.inRoom
  BY DEF Moves
<1>3. \A o : a # o /\ Leaves(r, o, s) => SameRoom(r, s, a)
  BY DEF Leaves, SameRoom
<1>4. \A o, pos : a # o /\ Arrives(r, o, pos, s) => SameRoom(r, s, a)
  BY DEF Arrives, SameRoom
<1> QED BY <1>1, <1>2, <1>3, <1>4 DEF SameRoom

\* The parts make Aside.
LEMMA AsideIs ==
  ASSUME NEW r, NEW s, NEW a, SameLife(r, s, a), SameRoom(r, s, a),
         SameFor(r.queue, s.queue, a), s.stray[a] = r.stray[a]
  PROVE  Aside(r, s, a)
BY DEF Aside, SameLife, SameRoom

\* What others do is nothing to arrow a.
LEMMA ElsewhereAside ==
  ASSUME NEW r \in RoomType, NEW a \in Arrows, NEW s, Elsewhere(r, s)
  PROVE  Aside(r, s, a)
BY SameForIs, SameLifeIs, SameRoomIs, AsideIs, ZenonT(40) DEF Elsewhere

\* One who enters is nothing to arrow a.
LEMMA EntersAside ==
  ASSUME NEW r \in RoomType, NEW a \in Arrows, NEW o \in Actor, NEW s, ActorEnters(r, o, s)
  PROVE  Aside(r, s, a)
<1>0. o \in Object /\ a \in Object /\ a # o
  BY ObjectIs
<1>1. SameLife(r, s, a)
  BY SameLifeIs DEF ActorEnters
<1>2. PICK w, pos : Arrives(r, o, pos, w) /\ (Moves(w, o, s) \/ PlaceOf(s) = PlaceOf(w))
  BY DEF ActorEnters
<1>3. SameRoom(r, w, a) /\ SameRoom(w, s, a)
  BY <1>0, <1>2, SameRoomIs
<1>4. SameRoom(r, s, a)
  BY <1>3 DEF SameRoom
<1>5. SameFor(r.queue, s.queue, a) /\ s.stray[a] = r.stray[a]
  BY <1>0, SameForIs DEF ActorEnters
<1> QED BY <1>1, <1>4, <1>5, AsideIs

\* Nor is one who leaves.
LEMMA LeavesAside ==
  ASSUME NEW r \in RoomType, NEW a \in Arrows, NEW o \in Object, o # a, NEW s, s = Leave(r, o)
  PROVE  Aside(r, s, a)
<1>0. r.queue \in Seq(Job) /\ a \in Object
  BY RoomNumbers
<1>1. CASE o \in r.present
  <2>1. Leaves(r, o, s) /\ LeavesJobs(r, o, s) /\ LeavesFlight(r, o, s)
    BY <1>1, LeaveDoes
  <2>2. SameRoom(r, s, a)
    BY <2>1, SameRoomIs
  <2>3. SameFor(r.queue, s.queue, a) /\ s.stray[a] = r.stray[a]
    <3>1. CASE o \in Players
      BY <1>0, <2>1, <3>1, EmptiedSame DEF LeavesJobs
    <3>2. CASE o \notin Players
      BY <2>1, <3>2, SameForIs, ZenonT(40) DEF LeavesJobs
    <3> QED BY <3>1, <3>2
  <2>4. SameLife(r, s, a)
    <3>1. CASE o \notin Arrows
      BY <2>1, <3>1, SameLifeIs DEF LeavesFlight
    <3>2. CASE o \in Arrows
      <4>1. s.owner = [r.owner EXCEPT ![o] = None] /\ s.hits = r.hits /\ s.used = r.used /\ s.fault = r.fault
        BY <2>1, <3>2 DEF LeavesFlight, FlightOf
      <4>2. s.owner[a] = r.owner[a]
        BY <4>1, RoomIs
      <4> QED BY <4>1, <4>2, RoomNumbers DEF SameLife
    <3> QED BY <3>1, <3>2
  <2> QED BY <2>2, <2>3, <2>4, AsideIs
<1>2. CASE o \notin r.present /\ o \in Players
  <2>1. s = r
    BY <1>2, LeaveDoes
  <2> QED BY <2>1, SameForIs, SameLifeIs, SameRoomIs, AsideIs
<1>3. CASE o \notin r.present /\ o \notin Players
  <2>1. JobsOf(s) = JobsOf(r) /\ PlaceOf(s) = PlaceOf(r) /\ FlightOf(s) = <<r.owner, r.used, r.hits, TRUE>>
    BY <1>3, LeaveDoes
  <2>2. s.owner = r.owner /\ s.used = r.used /\ s.hits = r.hits /\ s.fault = TRUE
    BY <2>1 DEF FlightOf
  <2>3. SameLife(r, s, a)
    BY <2>2, RoomNumbers DEF SameLife
  <2> QED BY <2>1, <2>3, SameForIs, SameRoomIs, AsideIs, ZenonT(40)
<1> QED BY <1>1, <1>2, <1>3

\* A job that is pushed for somebody else.
LEMMA PushedAside ==
  ASSUME NEW r \in RoomType, NEW a \in Arrows, ArrowFine(r, a), NEW j \in Job, j.obj # a,
         NEW s \in RoomType, s.queue = Append(r.queue, j), s.stray[a] = r.stray[a],
         PlaceOf(s) = PlaceOf(r), FlightOf(s) = FlightOf(r)
  PROVE  ArrowFine(s, a)
<1>1. s.inRoom = r.inRoom
  BY DEF PlaceOf
<1>2. s.owner = r.owner /\ s.used = r.used /\ s.hits = r.hits /\ s.fault = r.fault
  BY DEF FlightOf
<1>3. r.queue \in Seq(Job)
  BY RoomIs
<1>4. /\ InTurn(s.queue, a)
      /\ \A op : Has(s.queue, a, op) <=> Has(r.queue, a, op)
  BY <1>3, AppendInTurn DEF ArrowFine
<1> QED BY <1>1, <1>2, <1>4 DEF ArrowFine, Flying

\* A job of somebody else that is taken.
LEMMA TakenAside ==
  ASSUME NEW r \in RoomType, NEW a \in Arrows, ArrowFine(r, a), r.queue # <<>>, r.queue[1].obj # a
  PROVE  ArrowFine(Popped(r), a)
<1>0. PICK s : s = Popped(r)
  OBVIOUS
<1>1. /\ s \in RoomType /\ s.queue = Tail(r.queue) /\ s.stray = r.stray
      /\ PlaceOf(s) = PlaceOf(r) /\ FlightOf(s) = FlightOf(r)
  BY <1>0, PoppedDoes
<1>2. s.inRoom = r.inRoom /\ s.owner = r.owner /\ s.used = r.used /\ s.hits = r.hits /\ s.fault = r.fault
  BY <1>1 DEF FlightOf, PlaceOf
<1>3. r.queue \in Seq(Job) /\ InTurn(r.queue, a)
  BY RoomIs DEF ArrowFine
<1>4. InTurn(s.queue, a)
  BY <1>1, <1>3, TailInTurn
<1>5. \A op : Has(s.queue, a, op) <=> Has(r.queue, a, op)
  BY <1>1, <1>3, TailInTurn
<1>6. ArrowFine(s, a)
  BY <1>1, <1>2, <1>4, <1>5 DEF ArrowFine, Flying
<1> QED BY <1>0, <1>6


\* The life of an arrow: its own job has been taken and is all it had; or its Leave
\* has been taken.
Ready(r, a) ==
  /\ InTurn(r.queue, a) /\ \A op \in {"enter", "leave", "tick"} : ~Has(r.queue, a, op)
  /\ a \in r.used /\ r.stray[a] = 0 /\ r.hits[a] = 0

\* Arrow a, whose Leave was just taken from the queue.
Leaving(r, a) ==
  /\ InTurn(r.queue, a) /\ ~Has(r.queue, a, "enter")
  /\ a \in r.used /\ (Has(r.queue, a, "tick") => r.stray[a] = 0)
  /\ r.stray[a] <= 1 /\ r.hits[a] <= 1
  /\ r.owner[a] # None => Flying(r, a)

\* The job of an arrow that is taken is an Enter, a Leave or an update, and the arrow
\* is ready for it.
LEMMA TakenArrow ==
  ASSUME NEW r \in RoomType, NEW a \in Arrows, ArrowFine(r, a), r.queue # <<>>, r.queue[1].obj = a,
         ~r.fault
  PROVE  /\ r.queue[1].op \in {"enter", "leave", "tick"}
         /\ r.queue[1].op = "enter" => Ready(Popped(r), a)
         /\ r.queue[1].op = "leave" => Leaving(Popped(r), a)
         /\ r.queue[1].op = "tick" =>
              \/ r.owner[a] = None /\ ArrowFine(Popped(r), a)
              \/ r.owner[a] # None /\ a \in r.inRoom /\ Ready(Popped(r), a)
<1>0. PICK s : s = Popped(r)
  OBVIOUS
<1>1. /\ s \in RoomType /\ s.queue = Tail(r.queue) /\ s.stray = r.stray
      /\ PlaceOf(s) = PlaceOf(r) /\ FlightOf(s) = FlightOf(r)
  BY <1>0, PoppedDoes
<1>2. s.inRoom = r.inRoom /\ s.owner = r.owner /\ s.used = r.used /\ s.hits = r.hits /\ s.fault = r.fault
  BY <1>1 DEF FlightOf, PlaceOf
<1>3. r.queue \in Seq(Job) /\ InTurn(r.queue, a) /\ r.hits[a] \in Nat /\ r.stray[a] \in Nat
  BY RoomNumbers DEF ArrowFine
<1>4. /\ InTurn(s.queue, a)
      /\ \A op : Has(s.queue, a, op) => Has(r.queue, a, op)
      /\ \A op : Has(r.queue, a, op) /\ r.queue[1].op # op => Has(s.queue, a, op)
      /\ Has(r.queue, a, r.queue[1].op) /\ ~Has(s.queue, a, r.queue[1].op)
      /\ r.queue[1].op \in {"enter", "leave", "tick"} /\ ~Has(s.queue, a, "enter")
      /\ r.queue[1].op = "tick" => ~Has(s.queue, a, "leave")
      /\ r.queue[1].op = "enter" => ~Has(s.queue, a, "leave") /\ ~Has(s.queue, a, "tick")
  BY <1>1, <1>3, TailInTurn
<1>5. a \in r.used
  BY <1>4 DEF ArrowFine
<1>6. CASE r.queue[1].op = "enter"
  <2>1. Ready(s, a)
    BY <1>1, <1>2, <1>4, <1>5, <1>6 DEF ArrowFine, Ready
  <2> QED BY <1>0, <1>6, <2>1
<1>7. CASE r.queue[1].op = "leave"
  <2>1. s.owner[a] # None => Flying(s, a)
    <3>1. Has(r.queue, a, "enter") => Has(s.queue, a, "enter")
      BY <1>4, <1>7
    <3>2. Has(r.queue, a, "tick") => Has(s.queue, a, "tick")
      BY <1>4, <1>7
    <3> QED BY <1>1, <1>2, <1>4, <3>1, <3>2 DEF ArrowFine, Flying
  <2>2. Leaving(s, a)
    BY <1>1, <1>2, <1>4, <1>5, <2>1 DEF ArrowFine, Leaving
  <2> QED BY <1>0, <1>7, <2>2
<1>8. CASE r.queue[1].op = "tick"
  <2>1. ~Has(r.queue, a, "enter")
    BY <1>4, <1>8
  <2>2. ~Has(r.queue, a, "leave")
    BY <1>4, <1>8
  <2>3. CASE r.owner[a] = None
    <3>1. ArrowFine(s, a)
      BY <1>1, <1>2, <1>4, <1>5, <1>8, <2>3 DEF ArrowFine
    <3> QED BY <1>0, <1>8, <2>3, <3>1
  <2>4. CASE r.owner[a] # None
    <3>1. a \in r.inRoom /\ r.hits[a] = 0
      BY <1>3, <2>1, <2>2, <2>4 DEF ArrowFine, Flying
    <3>2. Ready(s, a)
      BY <1>1, <1>2, <1>4, <1>5, <1>8, <3>1 DEF ArrowFine, Ready
    <3> QED BY <1>0, <1>8, <2>4, <3>1, <3>2
  <2> QED BY <2>3, <2>4
<1> QED BY <1>4, <1>6, <1>7, <1>8

\* An arrow that flies on is fine.
LEMMA FliesFine ==
  ASSUME NEW r \in RoomType, NEW a \in Arrows, Ready(r, a), r.owner[a] # None, a \in r.inRoom,
         NEW s, ArrowFlies(r, a, s)
  PROVE  ArrowFine(s, a)
<1>1. s.inRoom = r.inRoom /\ s.queue = r.queue
  BY DEF ArrowFlies, Moves
<1>2. s.owner = r.owner /\ s.used = r.used /\ s.hits = r.hits
  BY DEF ArrowFlies, FlightOf
<1>3. s.stray[a] = 1
  BY RoomIs, ObjectIs DEF ArrowFlies, Ready
<1> QED BY <1>1, <1>2, <1>3 DEF Ready, ArrowFine, Flying

\* A monster's death is nothing to an arrow.
LEMMA ThinnedSame ==
  ASSUME NEW r \in RoomType, NEW a, a \notin Monsters, NEW s, Thinned(r, s)
  PROVE  SameFor(r.queue, s.queue, a)
<1>1. CASE s.queue = r.queue
  BY <1>1 DEF SameFor
<1>2. ASSUME NEW x \in Monsters, s.queue = Emptied(r.queue, x) PROVE SameFor(r.queue, s.queue, a)
  BY <1>2, EmptiedSame, RoomIs, ObjectIs
<1> QED BY <1>1, <1>2 DEF Thinned

\* An arrow that hit is fine: its Leave comes before its update, so it never hits again.
LEMMA StrikesFine ==
  ASSUME NEW r \in RoomType, NEW a \in Arrows, Ready(r, a), r.owner[a] # None, a \in r.inRoom,
         NEW s, ArrowStrikes(r, a, s)
  PROVE  ArrowFine(s, a)
<1>1. PICK t : Struck(r, a, t) /\ s = PushJob(t, NewJob("leave", a))
  BY DEF ArrowStrikes
<1>2. /\ s \in RoomType /\ s.queue = Append(t.queue, NewJob("leave", a))
      /\ s.stray = t.stray /\ PlaceOf(s) = PlaceOf(t) /\ FlightOf(s) = FlightOf(t)
  <2>1. t \in RoomType
    BY <1>1 DEF Struck
  <2>2. NewJob("leave", a) \in Job
    BY NewJobIs, ObjectIs DEF Op
  <2> QED BY <1>1, <2>1, <2>2, PushDoes
<1>3. SameFor(r.queue, t.queue, a)
  BY <1>1, ThinnedSame, ObjectIs DEF Struck
<1>4. InTurn(t.queue, a) /\ \A op : Has(t.queue, a, op) <=> Has(r.queue, a, op)
  BY <1>3, SameInTurn DEF Ready
<1>5. NewJob("leave", a) \in Job /\ NewJob("leave", a).op = "leave" /\ NewJob("leave", a).obj = a
  BY NewJobIs, ObjectIs DEF Op
<1>6. t.queue \in Seq(Job)
  BY <1>1, RoomIs DEF Struck
<1>7. ~Has(t.queue, a, "enter") /\ ~Has(t.queue, a, "tick") /\ ~Has(t.queue, a, "leave")
  BY <1>4 DEF Ready
<1>8. /\ InTurn(s.queue, a)
      /\ \A op : Has(s.queue, a, op) <=> Has(t.queue, a, op) \/ "leave" = op
  BY <1>2, <1>4, <1>5, <1>6, <1>7, AppendInTurn
<1>9. s.inRoom = r.inRoom
  BY <1>1, <1>2 DEF Struck, PlaceOf
<1>10. s.owner = r.owner /\ s.used = r.used /\ s.hits = t.hits
  BY <1>1, <1>2 DEF Struck, FlightOf
<1>11. s.stray[a] = 1
  BY <1>1, <1>2, RoomIs, ObjectIs DEF Struck, Ready
<1>12. s.hits[a] <= 1
  BY <1>1, <1>10 DEF Struck, Ready
<1> QED BY <1>7, <1>8, <1>9, <1>10, <1>11, <1>12 DEF Ready, ArrowFine, Flying

\* Another arrow's flight.
LEMMA FliesAside ==
  ASSUME NEW r \in RoomType, NEW a \in Arrows, NEW b \in Arrows, a # b, NEW s, ArrowFlies(r, b, s)
  PROVE  Aside(r, s, a)
<1>1. SameFor(r.queue, s.queue, a)
  BY DEF ArrowFlies, SameFor
<1>2. s.stray[a] = r.stray[a]
  BY RoomIs, ObjectIs DEF ArrowFlies
<1> QED BY <1>1, <1>2, SameLifeIs, SameRoomIs, AsideIs DEF ArrowFlies

\* It is nothing to the other arrows.
LEMMA StrikesAside ==
  ASSUME NEW r \in RoomType, NEW a \in Arrows, NEW b \in Arrows, a # b, ArrowFine(r, a),
         NEW s, ArrowStrikes(r, b, s)
  PROVE  ArrowFine(s, a)
<1>1. PICK t : Struck(r, b, t) /\ s = PushJob(t, NewJob("leave", b))
  BY DEF ArrowStrikes
<1>2. /\ s \in RoomType /\ s.queue = Append(t.queue, NewJob("leave", b))
      /\ s.stray = t.stray /\ PlaceOf(s) = PlaceOf(t) /\ FlightOf(s) = FlightOf(t)
  <2>1. t \in RoomType
    BY <1>1 DEF Struck
  <2>2. NewJob("leave", b) \in Job
    BY NewJobIs, ObjectIs DEF Op
  <2> QED BY <1>1, <2>1, <2>2, PushDoes
<1>3. SameFor(r.queue, t.queue, a)
  BY <1>1, ThinnedSame, ObjectIs DEF Struck
<1>4. t.stray[a] = r.stray[a]
  BY <1>1, RoomIs, ObjectIs DEF Struck
<1>5. SameRoom(r, t, a)
  BY <1>1, SameRoomIs DEF Struck
<1>6. SameLife(r, t, a)
  <2>1. t.hits[a] <= r.hits[a] + 0
    BY <1>1 DEF Struck
  <2> QED BY <1>1, <2>1, RoomNumbers DEF Struck, SameLife
<1>7. Aside(r, t, a) /\ t \in RoomType
  BY <1>1, <1>3, <1>4, <1>5, <1>6, AsideIs DEF Struck
<1>8. ArrowFine(t, a)
  BY <1>7, AsideFine
<1>9. NewJob("leave", b) \in Job /\ NewJob("leave", b).obj # a
  <2>1. "leave" \in Op /\ b \in Object
    BY ObjectIs DEF Op
  <2> QED BY <2>1, NewJobIs
<1> QED BY <1>2, <1>7, <1>8, <1>9, PushedAside


\* The reserved job of o, with the timer or in the queue.
HeldTicks(r) ==
  /\ r.held \subseteq Actor
  /\ \A i \in DOMAIN r.queue : r.queue[i].held => r.queue[i].op = "tick"

\* An actor is looked after: its reserved job is with the timer or in the queue.
Named(q, o) == \E i \in DOMAIN q : q[i].obj = o /\ q[i].held
Looked(r, o) == o \in r.held \/ Named(r.queue, o)

\* A player in the room, and a monster that lives, is.
ActorFine(r, o) ==
  /\ o \in r.present /\ (o \in Players \/ r.hp[o] > 0) => Looked(r, o)
  /\ o \in r.present /\ o \in Monsters => o \in r.inRoom

\* Nothing that matters to actor o has changed, but that it may have died.
ActorAside(r, s, o) ==
  /\ Looked(s, o) \/ ~Looked(r, o) \/ (o \in Monsters /\ s.hp[o] = 0)
  /\ o \in s.present => o \in r.present
  /\ o \in s.present /\ o \in r.inRoom => o \in s.inRoom
  /\ s.hp[o] <= r.hp[o]

\* Then it stays fine.
LEMMA ActorAsideFine ==
  ASSUME NEW r \in RoomType, NEW s \in RoomType, NEW o \in Actor, ActorFine(r, o), ActorAside(r, s, o)
  PROVE  ActorFine(s, o)
<1>1. r.hp[o] \in Nat /\ s.hp[o] \in Nat
  BY HpIsNumber
<1> QED BY <1>1, ObjectIs DEF ActorFine, ActorAside

\* The same places and fights are the same presence and hp.
LEMMA SamePresent ==
  ASSUME NEW r, NEW s, NEW o
  PROVE  /\ PlaceOf(s) = PlaceOf(r) => s.present = r.present /\ s.inRoom = r.inRoom
         /\ \A x : Moves(r, x, s) => s.present = r.present /\ s.inRoom = r.inRoom
         /\ \A x : o # x /\ Leaves(r, x, s) =>
              (o \in s.present <=> o \in r.present) /\ (o \in s.inRoom <=> o \in r.inRoom)
         /\ \A x, pos : o # x /\ Arrives(r, x, pos, s) =>
              (o \in s.present <=> o \in r.present) /\ (o \in s.inRoom <=> o \in r.inRoom)
BY DEF PlaceOf, Moves, Leaves, Arrives

\* A named job in the queue, after a push or a change.
LEMMA NamedIs ==
  ASSUME NEW r \in RoomType, NEW s, NEW x \in Object, NEW o, o # x, Looked(r, o)
  PROVE  /\ Touched(r, x, s) => Looked(s, o)
         /\ (s.queue = Emptied(r.queue, x) /\ s.held = r.held \ {x}) => Looked(s, o)
         /\ (s.queue = r.queue /\ s.held = r.held) => Looked(s, o)
         /\ \A j \in Job : (s.queue = Append(r.queue, j) /\ s.held = r.held) => Looked(s, o)
<1>1. CASE o \in r.held
  BY <1>1 DEF Looked, Touched
<1>2. CASE Named(r.queue, o)
  <2>1. PICK i \in DOMAIN r.queue : r.queue[i].obj = o /\ r.queue[i].held
    BY <1>2 DEF Named
  <2>2. r.queue \in Seq(Job)
    BY RoomIs
  <2>3. Touched(r, x, s) => Looked(s, o)
    BY <2>1 DEF Touched, Looked, Named
  <2>4. s.queue = Emptied(r.queue, x) => Looked(s, o)
    BY <2>1, <2>2, EmptiedIs DEF Looked, Named
  <2>5. s.queue = r.queue => Looked(s, o)
    BY <1>2 DEF Looked
  <2>6. ASSUME NEW j \in Job, s.queue = Append(r.queue, j) PROVE Looked(s, o)
    <3>1. i \in DOMAIN s.queue /\ s.queue[i] = r.queue[i]
      BY <2>1, <2>2, <2>6, AppendIs
    <3> QED BY <2>1, <3>1 DEF Looked, Named
  <2> QED BY <2>3, <2>4, <2>5, <2>6
<1> QED BY <1>1, <1>2 DEF Looked

\* A push of a job, for whomever.
LEMMA LookedPushed ==
  ASSUME NEW r \in RoomType, NEW s, NEW o, NEW j \in Job, s.queue = Append(r.queue, j)
  PROVE  /\ (s.held = r.held /\ Looked(r, o)) => Looked(s, o)
         /\ \A x : (s.held = r.held \ {x} /\ j.obj = x /\ j.held /\ Looked(r, o)) => Looked(s, o)
<1>1. r.queue \in Seq(Job)
  BY RoomIs
<1>2. /\ \A i \in DOMAIN r.queue : i \in DOMAIN s.queue /\ s.queue[i] = r.queue[i]
      /\ Len(r.queue) + 1 \in DOMAIN s.queue /\ s.queue[Len(r.queue) + 1] = j
  BY <1>1, AppendIs
<1>3. Named(r.queue, o) => Named(s.queue, o)
  BY <1>2 DEF Named
<1>4. (j.obj = o /\ j.held) => Named(s.queue, o)
  BY <1>2 DEF Named
<1> QED BY <1>3, <1>4 DEF Looked

\* A push of an update or of a job that none names keeps HeldTicks.
LEMMA HeldTicksPushed ==
  ASSUME NEW r \in RoomType, HeldTicks(r), NEW s, NEW j \in Job, s.queue = Append(r.queue, j),
         s.held \subseteq r.held, j.held => j.op = "tick"
  PROVE  HeldTicks(s)
<1>1. r.queue \in Seq(Job)
  BY RoomIs
<1>2. \A i \in DOMAIN s.queue :
        (i \in DOMAIN r.queue /\ s.queue[i] = r.queue[i]) \/ s.queue[i] = j
  BY <1>1, AppendIs
<1> QED BY <1>2 DEF HeldTicks

\* So does a change of reserved jobs.
LEMMA HeldTicksTouched ==
  ASSUME NEW r \in RoomType, HeldTicks(r), NEW s, NEW o \in Actor, Touched(r, o, s)
  PROVE  HeldTicks(s)
BY DEF HeldTicks, Touched

\* So does taking a job or emptying one.
LEMMA HeldTicksSame ==
  ASSUME NEW r \in RoomType, HeldTicks(r), NEW s
  PROVE  /\ (s.queue = r.queue /\ s.held = r.held) => HeldTicks(s)
         /\ \A x \in Object : (s.queue = Emptied(r.queue, x) /\ s.held = r.held \ {x}) => HeldTicks(s)
<1>1. (s.queue = r.queue /\ s.held = r.held) => HeldTicks(s)
  BY DEF HeldTicks
<1>2. ASSUME NEW x \in Object, s.queue = Emptied(r.queue, x), s.held = r.held \ {x} PROVE HeldTicks(s)
  <2>1. r.queue \in Seq(Job)
    BY RoomIs
  <2>2. NewJob("none", x).held = FALSE
    BY DEF NewJob
  <2>3. \A i \in DOMAIN s.queue : i \in DOMAIN r.queue /\ (s.queue[i].held => s.queue[i] = r.queue[i])
    BY <1>2, <2>1, <2>2, EmptiedIs
  <2> QED BY <1>2, <2>3 DEF HeldTicks
<1> QED BY <1>1, <1>2

\* What others do is nothing to actor o.
LEMMA ElsewhereActor ==
  ASSUME NEW r \in RoomType, NEW o \in Actor, NEW s, Elsewhere(r, s), s.hp[o] = r.hp[o]
  PROVE  ActorAside(r, s, o)
<1>1. s.queue = r.queue /\ s.held = r.held
  BY DEF Elsewhere, JobsOf
<1>2. s.present = r.present /\ s.inRoom = r.inRoom
  BY SamePresent DEF Elsewhere
<1> QED BY <1>1, <1>2, HpIsNumber DEF ActorAside, Looked

\* One who enters is looked after, and the others as before.
LEMMA EntersActor ==
  ASSUME NEW r \in RoomType, NEW o \in Actor, NEW x \in Actor, NEW s \in RoomType, ActorEnters(r, x, s),
         o # x => ActorFine(r, o)
  PROVE  ActorFine(s, o)
<1>1. PICK w, pos : Arrives(r, x, pos, w) /\ (Moves(w, x, s) \/ PlaceOf(s) = PlaceOf(w))
  BY DEF ActorEnters
<1>2. s.present = w.present /\ s.inRoom = w.inRoom
  BY <1>1, SamePresent
<1>3. CASE o = x
  <2>1. o \in s.held /\ o \in s.inRoom
    BY <1>1, <1>2, <1>3 DEF ActorEnters, Arrives
  <2> QED BY <2>1 DEF ActorFine, Looked
<1>4. CASE o # x
  <2>1. (o \in s.present <=> o \in r.present) /\ (o \in s.inRoom <=> o \in r.inRoom)
    BY <1>1, <1>2, <1>4, SamePresent
  <2>2. Looked(r, o) => Looked(s, o)
    BY <1>4, NamedIs, ObjectIs DEF ActorEnters
  <2>3. s.hp[o] <= r.hp[o]
    BY DEF ActorEnters
  <2>4. ActorAside(r, s, o)
    BY <2>1, <2>2, <2>3 DEF ActorAside
  <2> QED BY <1>4, <2>4, ActorAsideFine
<1> QED BY <1>3, <1>4

\* One who leaves is absent, and the others as before.
LEMMA LeavesActor ==
  ASSUME NEW r \in RoomType, NEW o \in Actor, NEW x \in Object, NEW s, s = Leave(r, x), ActorFine(r, o)
  PROVE  ActorFine(s, o)
<1>0. s \in RoomType /\ FightOf(s) = FightOf(r)
  BY LeaveDoes
<1>1. s.hp = r.hp
  BY <1>0 DEF FightOf
<1>2. CASE x \in r.present
  <2>1. Leaves(r, x, s) /\ LeavesJobs(r, x, s)
    BY <1>2, LeaveDoes
  <2>2. CASE o = x
    BY <2>1, <2>2 DEF Leaves, ActorFine
  <2>3. CASE o # x
    <3>1. Looked(r, o) => Looked(s, o)
      <4>1. CASE x \in Players
        BY <2>1, <2>3, <4>1, NamedIs DEF LeavesJobs
      <4>2. CASE x \notin Players
        <5>1. s.queue = r.queue /\ s.held = r.held
          BY <2>1, <4>2 DEF LeavesJobs, JobsOf
        <5> QED BY <2>3, <5>1, NamedIs
      <4> QED BY <4>1, <4>2
    <3>2. (o \in s.present <=> o \in r.present) /\ (o \in s.inRoom <=> o \in r.inRoom)
      BY <2>1, <2>3, SamePresent
    <3> QED BY <1>1, <3>1, <3>2 DEF ActorFine
  <2> QED BY <2>2, <2>3
<1>3. CASE x \notin r.present
  <2>1. s = r \/ (JobsOf(s) = JobsOf(r) /\ PlaceOf(s) = PlaceOf(r))
    BY <1>3, LeaveDoes
  <2>2. s.queue = r.queue /\ s.held = r.held /\ s.present = r.present /\ s.inRoom = r.inRoom
    BY <2>1, SamePresent DEF JobsOf
  <2> QED BY <1>1, <2>2 DEF ActorFine, Looked
<1> QED BY <1>2, <1>3

\* An arrow that flies, or strikes somebody.
LEMMA FliesActor ==
  ASSUME NEW r \in RoomType, NEW o \in Actor, NEW a \in Arrows, NEW s, ActorFine(r, o),
         ArrowFlies(r, a, s)
  PROVE  ActorFine(s, o)
<1>1. s.queue = r.queue /\ s.held = r.held /\ s.hp = r.hp
  BY DEF ArrowFlies, FightOf
<1>2. s.present = r.present /\ s.inRoom = r.inRoom
  BY SamePresent DEF ArrowFlies
<1> QED BY <1>1, <1>2 DEF ActorFine, Looked

\* Whom an arrow kills is dead, and the others are looked after as before.
LEMMA StrikesActor ==
  ASSUME NEW r \in RoomType, NEW o \in Actor, NEW a \in Arrows, NEW s, ActorFine(r, o),
         ArrowStrikes(r, a, s)
  PROVE  ActorFine(s, o)
<1>1. PICK t : Struck(r, a, t) /\ s = PushJob(t, NewJob("leave", a))
  BY DEF ArrowStrikes
<1>2. t \in RoomType
  BY <1>1 DEF Struck
<1>3. NewJob("leave", a) \in Job
  BY NewJobIs, ObjectIs DEF Op
<1>4. s.queue = Append(t.queue, NewJob("leave", a)) /\ s.held = t.held
  BY <1>1, <1>2, <1>3, PushDoes
<1>5. PlaceOf(s) = PlaceOf(t) /\ FightOf(s) = FightOf(t) /\ s \in RoomType
  BY <1>1, <1>2, <1>3, PushDoes
<1>6. Looked(t, o) => Looked(s, o)
  BY <1>2, <1>3, <1>4, LookedPushed
<1>7. Looked(t, o) \/ ~Looked(r, o) \/ (o \in Monsters /\ t.hp[o] = 0)
  <2>1. CASE t.queue = r.queue /\ t.held = r.held
    BY <2>1 DEF Looked
  <2>2. ASSUME NEW x \in Monsters, t.hp[x] = 0, t.queue = Emptied(r.queue, x), t.held = r.held \ {x}
        PROVE  Looked(t, o) \/ ~Looked(r, o) \/ (o \in Monsters /\ t.hp[o] = 0)
    BY <2>2, NamedIs, ObjectIs
  <2> QED BY <1>1, <2>1, <2>2 DEF Struck, Thinned
<1>8. s.present = r.present /\ s.inRoom = r.inRoom /\ s.hp = t.hp
  BY <1>1, <1>5 DEF Struck, PlaceOf, FightOf
<1>9. t.hp[o] <= r.hp[o]
  BY <1>1 DEF Struck
<1>10. ActorAside(r, s, o)
  BY <1>6, <1>7, <1>8, <1>9 DEF ActorAside
<1> QED BY <1>5, <1>10, ActorAsideFine

\* And what is named are updates of actors.
LEMMA StrikesHeldTicks ==
  ASSUME NEW r \in RoomType, NEW a \in Arrows, NEW s, HeldTicks(r), ArrowFlies(r, a, s) \/ ArrowStrikes(r, a, s)
  PROVE  HeldTicks(s)
<1>1. CASE ArrowFlies(r, a, s)
  BY <1>1, HeldTicksSame DEF ArrowFlies
<1>2. CASE ArrowStrikes(r, a, s)
  <2>1. PICK t : Struck(r, a, t) /\ s = PushJob(t, NewJob("leave", a))
    BY <1>2 DEF ArrowStrikes
  <2>2. t \in RoomType
    BY <2>1 DEF Struck
  <2>3. NewJob("leave", a) \in Job /\ NewJob("leave", a).held = FALSE
    BY NewJobIs, ObjectIs DEF Op
  <2>4. s.queue = Append(t.queue, NewJob("leave", a)) /\ s.held = t.held
    BY <2>1, <2>2, <2>3, PushDoes
  <2>5. HeldTicks(t)
    BY <2>1, HeldTicksSame, ObjectIs DEF Struck, Thinned
  <2> QED BY <2>2, <2>3, <2>4, <2>5, HeldTicksPushed
<1> QED BY <1>1, <1>2

-----------------------------------------------------------------------------
(* No step of the room loses a job it owes.                                *)

\* The second inductive invariant, of a room.
RoomFine(r) ==
  /\ HeldTicks(r)
  /\ \A a \in Arrows : ArrowFine(r, a)
  /\ \A o \in Actor : ActorFine(r, o)

\* The room without the job that is run.
LEMMA Taken ==
  ASSUME NEW r \in RoomType, RoomFine(r), r.queue # <<>>
  PROVE  /\ Popped(r) \in RoomType /\ HeldTicks(Popped(r))
         /\ \A a \in Arrows : a # r.queue[1].obj => ArrowFine(Popped(r), a)
         /\ \A o \in Actor : o # r.queue[1].obj \/ ~r.queue[1].held => ActorFine(Popped(r), o)
         /\ r.queue[1].held => r.queue[1].op = "tick"
<1>0. PICK s : s = Popped(r)
  OBVIOUS
<1>1. /\ s \in RoomType /\ s.queue = Tail(r.queue) /\ s.held = r.held
      /\ PlaceOf(s) = PlaceOf(r) /\ FightOf(s) = FightOf(r)
  BY <1>0, PoppedDoes
<1>2. s.present = r.present /\ s.inRoom = r.inRoom /\ s.hp = r.hp
  BY <1>1 DEF FightOf, PlaceOf
<1>3. r.queue \in Seq(Job)
  BY RoomIs
<1>4. HeldTicks(s)
  <2>1. \A i \in DOMAIN s.queue : \E k \in DOMAIN r.queue : s.queue[i] = r.queue[k]
    BY <1>1, <1>3, TailIs
  <2> QED BY <1>1, <2>1 DEF RoomFine, HeldTicks
<1>5. ASSUME NEW o \in Actor, o # r.queue[1].obj \/ ~r.queue[1].held PROVE ActorFine(s, o)
  <2>1. ASSUME Named(r.queue, o) PROVE Named(s.queue, o)
    <3>1. PICK i \in DOMAIN r.queue : r.queue[i].obj = o /\ r.queue[i].held
      BY <2>1 DEF Named
    <3>2. i - 1 \in DOMAIN s.queue /\ s.queue[i - 1] = r.queue[i]
      BY <1>1, <1>3, <1>5, <3>1, TailIs
    <3> QED BY <3>1, <3>2 DEF Named
  <2> QED BY <1>1, <1>2, <2>1 DEF RoomFine, ActorFine, Looked
<1>6. \A a \in Arrows : a # r.queue[1].obj => ArrowFine(s, a)
  BY <1>0, TakenAside DEF RoomFine
<1>7. r.queue[1].held => r.queue[1].op = "tick"
  BY <1>3, TailIs DEF RoomFine, HeldTicks
<1> QED BY <1>0, <1>1, <1>4, <1>5, <1>6, <1>7

\* Only what the room does not owe a job for has changed.
Steady(r, s) ==
  /\ s \in RoomType /\ JobsOf(s) = JobsOf(r) /\ FlightOf(s) = FlightOf(r) /\ s.hp = r.hp
  /\ s.present = r.present /\ s.inRoom = r.inRoom

\* A change of places, views or fights that adds no hp keeps it.
LEMMA SteadyFine ==
  ASSUME NEW r \in RoomType, RoomFine(r), NEW s, Steady(r, s)
  PROVE  RoomFine(s)
<1>1. s.queue = r.queue /\ s.held = r.held /\ s.stray = r.stray
  BY DEF Steady, JobsOf
<1>2. HeldTicks(s)
  BY <1>1, HeldTicksSame DEF RoomFine
<1>3. ASSUME NEW o \in Actor PROVE ActorFine(s, o)
  BY <1>1 DEF RoomFine, Steady, ActorFine, Looked
<1>4. ASSUME NEW a \in Arrows PROVE ArrowFine(s, a)
  <2>1. Aside(r, s, a)
    <3>1. SameFor(r.queue, s.queue, a) /\ s.stray[a] = r.stray[a]
      BY SameForIs DEF Steady
    <3>2. SameLife(r, s, a)
      BY SameLifeIs DEF Steady
    <3>3. SameRoom(r, s, a)
      BY DEF Steady, SameRoom
    <3> QED BY <3>1, <3>2, <3>3, AsideIs
  <2> QED BY <2>1, AsideFine DEF Steady, RoomFine
<1> QED BY <1>2, <1>3, <1>4 DEF RoomFine

\* Object m has acted and reserved its next job.
LEMMA ReservedFine ==
  ASSUME NEW r \in RoomType, NEW m \in Actor, HeldTicks(r), \A a \in Arrows : ArrowFine(r, a),
         \A o \in Actor : o # m => ActorFine(r, o), m \in Monsters => m \in r.inRoom,
         NEW s \in RoomType, s.queue = Unnamed(r.queue, m), s.held = r.held \cup {m},
         s.stray = [r.stray EXCEPT ![m] = IF m \in r.held THEN @ + 1 ELSE @],
         FlightOf(s) = FlightOf(r), s.present = r.present, s.inRoom = r.inRoom,
         \A x \in Actor : s.hp[x] <= r.hp[x]
  PROVE  RoomFine(s)
<1>1. m \in Object
  BY ObjectIs
<1>2. Touched(r, m, s)
  <2>1. PICK x : x = Reserve(r, m)
    OBVIOUS
  <2>2. /\ x.queue = Unnamed(r.queue, m) /\ x.held = r.held \cup {m}
        /\ x.stray = [r.stray EXCEPT ![m] = IF m \in r.held THEN @ + 1 ELSE @]
    BY <1>1, <2>1, ReserveDoes
  <2>3. JobsOf(s) = JobsOf(x)
    BY <2>2 DEF JobsOf
  <2>4. Touched(r, m, x)
    BY <1>1, <2>1, LoseHandleTouches
  <2> QED BY <2>3, <2>4, TouchedSame
<1>3. HeldTicks(s)
  BY <1>2, HeldTicksTouched
<1>4. ASSUME NEW a \in Arrows PROVE ArrowFine(s, a)
  <2>1. a \in Object /\ a # m
    BY ObjectIs
  <2>2. Aside(r, s, a)
    <3>1. SameFor(r.queue, s.queue, a) /\ s.stray[a] = r.stray[a]
      BY <1>2, <2>1 DEF Touched, SameFor
    <3>2. SameLife(r, s, a)
      BY SameLifeIs
    <3>3. SameRoom(r, s, a)
      BY DEF SameRoom
    <3> QED BY <3>1, <3>2, <3>3, AsideIs
  <2> QED BY <2>2, AsideFine
<1>5. ASSUME NEW o \in Actor, o # m PROVE ActorFine(s, o)
  <2>1. Looked(r, o) => Looked(s, o)
    BY <1>1, <1>2, <1>5, NamedIs
  <2>2. ActorAside(r, s, o)
    BY <2>1 DEF ActorAside
  <2> QED BY <1>5, <2>2, ActorAsideFine
<1>6. ActorFine(s, m)
  BY DEF ActorFine, Looked
<1> QED BY <1>3, <1>4, <1>5, <1>6 DEF RoomFine

\* So does Leave of a player or a monster.
LEMMA LeaveFine ==
  ASSUME NEW r \in RoomType, RoomFine(r), NEW x \in Actor, NEW s, s = Leave(r, x)
  PROVE  s \in RoomType /\ RoomFine(s)
<1>0. x \in Object /\ s \in RoomType
  BY ObjectIs, LeaveDoes
<1>1. ASSUME NEW a \in Arrows PROVE ArrowFine(s, a)
  <2>1. x # a
    BY ObjectIs
  <2>2. Aside(r, s, a)
    BY <1>0, <2>1, LeavesAside
  <2> QED BY <1>0, <2>2, AsideFine DEF RoomFine
<1>2. \A o \in Actor : ActorFine(s, o)
  BY <1>0, LeavesActor DEF RoomFine
<1>3. \/ JobsOf(s) = JobsOf(r) \/ (s.queue = Emptied(r.queue, x) /\ s.held = r.held \ {x})
  <2>1. CASE x \in r.present
    <3>1. LeavesJobs(r, x, s)
      BY <1>0, <2>1, LeaveDoes
    <3> QED BY <3>1 DEF LeavesJobs
  <2>2. CASE x \notin r.present
    <3>1. s = r \/ JobsOf(s) = JobsOf(r)
      BY <1>0, <2>2, LeaveDoes
    <3> QED BY <3>1
  <2> QED BY <2>1, <2>2
<1>4. HeldTicks(s)
  BY <1>0, <1>3, HeldTicksSame DEF RoomFine, JobsOf
<1> QED BY <1>0, <1>1, <1>2, <1>4 DEF RoomFine

\* So does Enter.
LEMMA EntersFine ==
  ASSUME NEW r \in RoomType, NEW x \in Actor, HeldTicks(r), \A a \in Arrows : ArrowFine(r, a),
         \A o \in Actor : o # x => ActorFine(r, o), NEW s \in RoomType, ActorEnters(r, x, s)
  PROVE  RoomFine(s)
<1>1. HeldTicks(s)
  BY HeldTicksTouched DEF ActorEnters
<1>2. ASSUME NEW a \in Arrows PROVE ArrowFine(s, a)
  <2>1. Aside(r, s, a)
    BY EntersAside
  <2> QED BY <2>1, AsideFine
<1>3. \A o \in Actor : ActorFine(s, o)
  BY EntersActor
<1> QED BY <1>1, <1>2, <1>3 DEF RoomFine

\* So does OnDeadAnim (GameObject.cpp:170-184).
LEMMA ReviveFine ==
  ASSUME NEW r \in RoomType, RoomFine(r), NEW x \in Actor, NEW full, NEW s \in Revive(r, x, full)
  PROVE  s \in RoomType /\ RoomFine(s)
<1>1. PICK t : /\ Elsewhere(r, t) /\ t.hp = [r.hp EXCEPT ![x] = IF full THEN MaxHp ELSE @]
               /\ s \in RoomType /\ ActorEnters(t, x, s)
  BY ReviveDoes
<1>2. t \in RoomType /\ t.queue = r.queue /\ t.held = r.held
  BY <1>1 DEF Elsewhere, JobsOf
<1>3. HeldTicks(t)
  BY <1>2, HeldTicksSame DEF RoomFine
<1>4. ASSUME NEW a \in Arrows PROVE ArrowFine(t, a)
  <2>1. Aside(r, t, a)
    BY <1>1, ElsewhereAside
  <2> QED BY <1>2, <2>1, AsideFine DEF RoomFine
<1>5. ASSUME NEW o \in Actor, o # x PROVE ActorFine(t, o)
  <2>1. t.hp[o] = r.hp[o]
    BY <1>1, <1>5, RoomIs
  <2>2. ActorAside(r, t, o)
    BY <1>1, <2>1, ElsewhereActor
  <2> QED BY <1>2, <2>2, ActorAsideFine DEF RoomFine
<1> QED BY <1>1, <1>2, <1>3, <1>4, <1>5, EntersFine

\* A job that is pushed for a player.
LEMMA PushedPlayerFine ==
  ASSUME NEW r \in RoomType, RoomFine(r), NEW op \in Op, NEW p \in Players,
         NEW s, s = PushJob(r, NewJob(op, p))
  PROVE  s \in RoomType /\ RoomFine(s)
<1>1. NewJob(op, p) \in Job /\ NewJob(op, p).obj = p /\ NewJob(op, p).held = FALSE
  BY NewJobIs, ObjectIs, ZenonT(40)
<1>2. /\ s \in RoomType /\ s.queue = Append(r.queue, NewJob(op, p)) /\ s.held = r.held
      /\ s.stray = r.stray
      /\ PlaceOf(s) = PlaceOf(r) /\ FightOf(s) = FightOf(r) /\ FlightOf(s) = FlightOf(r)
  BY <1>1, PushDoes
<1>3. s.hp = r.hp /\ s.present = r.present /\ s.inRoom = r.inRoom
  BY <1>2 DEF FightOf, PlaceOf
<1>4. HeldTicks(s)
  BY <1>1, <1>2, HeldTicksPushed DEF RoomFine
<1>5. ASSUME NEW a \in Arrows PROVE ArrowFine(s, a)
  <2>1. NewJob(op, p).obj # a
    BY <1>1, ObjectIs
  <2> QED BY <1>1, <1>2, <2>1, PushedAside DEF RoomFine
<1>6. ASSUME NEW o \in Actor PROVE ActorFine(s, o)
  <2>1. Looked(r, o) => Looked(s, o)
    BY <1>1, <1>2, LookedPushed
  <2> QED BY <1>3, <2>1 DEF RoomFine, ActorFine
<1> QED BY <1>2, <1>4, <1>5, <1>6 DEF RoomFine

\* So does the timer's push.
LEMMA FiredFine ==
  ASSUME NEW r \in RoomType, RoomFine(r), NEW o \in Object, NEW s,
         \/ o \in r.held /\ s = FiredHeld(r, o)
         \/ r.stray[o] > 0 /\ s = FiredStray(r, o)
  PROVE  RoomFine(s)
<1>1. CASE o \in r.held /\ s = FiredHeld(r, o)
  <2>1. /\ s \in RoomType /\ s.queue = Append(r.queue, HeldTick(o))
        /\ s.held = r.held \ {o} /\ s.stray = r.stray
        /\ PlaceOf(s) = PlaceOf(r) /\ FightOf(s) = FightOf(r) /\ FlightOf(s) = FlightOf(r)
    BY <1>1, FiredHeldDoes
  <2>2. HeldTick(o) \in Job /\ HeldTick(o).op = "tick" /\ HeldTick(o).obj = o /\ HeldTick(o).held
    BY HeldTickIs
  <2>3. o \in Actor
    BY <1>1 DEF RoomFine, HeldTicks
  <2>4. HeldTicks(s)
    <3>1. s.held \subseteq r.held
      BY <2>1
    <3> QED BY <2>1, <2>2, <3>1, HeldTicksPushed DEF RoomFine
  <2>5. ASSUME NEW a \in Arrows PROVE ArrowFine(s, a)
    <3>1. HeldTick(o).obj # a
      BY <2>2, <2>3, ObjectIs
    <3> QED BY <2>1, <2>2, <3>1, PushedAside DEF RoomFine
  <2>6. ASSUME NEW x \in Actor PROVE ActorFine(s, x)
    <3>1. Looked(r, x) => Looked(s, x)
      BY <2>1, <2>2, LookedPushed
    <3>2. s.hp = r.hp /\ s.present = r.present /\ s.inRoom = r.inRoom
      BY <2>1 DEF FightOf, PlaceOf
    <3> QED BY <3>1, <3>2 DEF RoomFine, ActorFine
  <2> QED BY <2>4, <2>5, <2>6 DEF RoomFine
<1>2. CASE r.stray[o] > 0 /\ s = FiredStray(r, o)
  <2>1. /\ s \in RoomType /\ s.queue = Append(r.queue, NewJob("tick", o))
        /\ s.held = r.held /\ s.stray = [r.stray EXCEPT ![o] = @ - 1]
        /\ PlaceOf(s) = PlaceOf(r) /\ FightOf(s) = FightOf(r) /\ FlightOf(s) = FlightOf(r)
    BY <1>2, FiredStrayDoes
  <2>2. /\ NewJob("tick", o) \in Job /\ NewJob("tick", o).op = "tick"
        /\ NewJob("tick", o).obj = o /\ NewJob("tick", o).held = FALSE
    BY NewJobIs DEF Op
  <2>3. s.hp = r.hp /\ s.present = r.present /\ s.inRoom = r.inRoom
    BY <2>1 DEF FightOf, PlaceOf
  <2>4. HeldTicks(s)
    BY <2>1, <2>2, HeldTicksPushed DEF RoomFine
  <2>5. ASSUME NEW x \in Actor PROVE ActorFine(s, x)
    <3>1. Looked(r, x) => Looked(s, x)
      BY <2>1, <2>2, LookedPushed
    <3> QED BY <2>3, <3>1 DEF RoomFine, ActorFine
  <2>6. ASSUME NEW a \in Arrows, a # o PROVE ArrowFine(s, a)
    <3>1. s.stray[a] = r.stray[a] /\ NewJob("tick", o).obj # a
      BY <2>1, <2>2, <2>6, RoomIs, ObjectIs
    <3> QED BY <2>1, <2>2, <3>1, PushedAside DEF RoomFine
  <2>7. ASSUME o \in Arrows PROVE ArrowFine(s, o)
    <3>0. ArrowFine(r, o) /\ r.queue \in Seq(Job) /\ r.stray[o] \in Nat /\ r.hits[o] \in Nat
      BY <2>7, RoomNumbers DEF RoomFine
    <3>1. r.stray[o] = 1
      BY <1>2, <3>0 DEF ArrowFine
    <3>2. s.stray[o] = 0
      BY <2>1, <3>1, RoomIs
    <3>3. ~Has(r.queue, o, "enter") /\ ~Has(r.queue, o, "tick") /\ o \in r.used
      BY <3>0, <3>1 DEF ArrowFine
    <3>4. /\ InTurn(s.queue, o)
          /\ \A op : Has(s.queue, o, op) <=> Has(r.queue, o, op) \/ "tick" = op
      BY <2>1, <2>2, <3>0, <3>3, AppendInTurn DEF ArrowFine
    <3>5. s.owner = r.owner /\ s.used = r.used /\ s.hits = r.hits /\ s.fault = r.fault
      BY <2>1 DEF FlightOf
    <3> QED BY <2>3, <3>0, <3>2, <3>3, <3>4, <3>5 DEF ArrowFine, Flying
  <2> QED BY <2>4, <2>5, <2>6, <2>7 DEF RoomFine
<1> QED BY <1>1, <1>2


\* The jobs of the room, one by one.
LEMMA RunsIs ==
  ASSUME TypeOK, RoomFine(room), NEW op, NEW x, Runs(op, x)
  PROVE  /\ room \in RoomType /\ popped \in RoomType /\ popped = Popped(room) /\ HeldTicks(popped)
         /\ room.queue # <<>> /\ room.queue[1].obj = x /\ room.queue[1].op = op /\ ~room.fault
         /\ \A a \in Arrows : a # x => ArrowFine(popped, a)
         /\ \A o \in Actor : o # x \/ op # "tick" \/ ~room.queue[1].held => ActorFine(popped, o)
         /\ (op # "tick" \/ ~room.queue[1].held) /\ x \notin Arrows => RoomFine(popped)
<1>1. /\ room \in RoomType /\ room.queue # <<>> /\ room.queue[1].obj = x /\ room.queue[1].op = op
      /\ ~room.fault
  BY DEF TypeOK, Runs
<1>2. popped \in RoomType /\ popped = Popped(room)
  BY PoppedIs
<1>3. HeldTicks(popped) /\ \A a \in Arrows : a # x => ArrowFine(popped, a)
  BY <1>1, <1>2, Taken
<1>4. \A o \in Actor : o # x \/ ~room.queue[1].held => ActorFine(popped, o)
  BY <1>1, <1>2, Taken
<1>5. room.queue[1].held => op = "tick"
  BY <1>1, Taken
<1> QED BY <1>1, <1>2, <1>3, <1>4, <1>5 DEF RoomFine

\* So does the launch of an arrow.
LEMMA LaunchedFine ==
  ASSUME NEW r \in RoomType, NEW a \in Arrows, HeldTicks(r), \A b \in Arrows : b # a => ArrowFine(r, b),
         \A o \in Actor : ActorFine(r, o),
         NEW z \in RoomType, JobsOf(z) = JobsOf(r), FightOf(z) = FightOf(r), FlightOf(z) = FlightOf(r),
         z.present = r.present, z.inRoom = r.inRoom \cup {a}
  PROVE  /\ HeldTicks(z) /\ \A b \in Arrows : b # a => ArrowFine(z, b)
         /\ \A o \in Actor : ActorFine(z, o)
         /\ Ready(r, a) => Ready(z, a)
<1>1. z.queue = r.queue /\ z.held = r.held /\ z.stray = r.stray /\ z.hp = r.hp
  BY DEF JobsOf, FightOf
<1>2. z.owner = r.owner /\ z.used = r.used /\ z.hits = r.hits /\ z.fault = r.fault
  BY DEF FlightOf
<1>3. HeldTicks(z)
  BY <1>1, HeldTicksSame
<1>4. ASSUME NEW b \in Arrows, b # a PROVE ArrowFine(z, b)
  BY <1>1, <1>2, <1>4 DEF ArrowFine, Flying
<1>5. ASSUME NEW o \in Actor PROVE ActorFine(z, o)
  BY <1>1 DEF ActorFine, Looked
<1>6. Ready(r, a) => Ready(z, a)
  BY <1>1, <1>2 DEF Ready
<1> QED BY <1>3, <1>4, <1>5, <1>6

\* An arrow that has its room flies or strikes.
LEMMA ArrowActsFine ==
  ASSUME NEW r \in RoomType, NEW a \in Arrows, HeldTicks(r), \A b \in Arrows : b # a => ArrowFine(r, b),
         \A o \in Actor : ActorFine(r, o), Ready(r, a), r.owner[a] # None, a \in r.inRoom,
         NEW s \in RoomType, ArrowFlies(r, a, s) \/ ArrowStrikes(r, a, s)
  PROVE  RoomFine(s)
<1>1. HeldTicks(s)
  BY StrikesHeldTicks
<1>2. ArrowFine(s, a)
  BY FliesFine, StrikesFine
<1>3. ASSUME NEW b \in Arrows, b # a PROVE ArrowFine(s, b)
  <2>1. CASE ArrowFlies(r, a, s)
    <3>1. Aside(r, s, b)
      BY <1>3, <2>1, FliesAside
    <3> QED BY <1>3, <3>1, AsideFine
  <2>2. CASE ArrowStrikes(r, a, s)
    BY <1>3, <2>2, StrikesAside
  <2> QED BY <2>1, <2>2
<1>4. ASSUME NEW o \in Actor PROVE ActorFine(s, o)
  BY <1>4, FliesActor, StrikesActor
<1> QED BY <1>1, <1>2, <1>3, <1>4 DEF RoomFine

\* Each job keeps it: an Enter.
LEMMA EnterJobRoom == ASSUME TypeOK, RoomFine(room), NEW x \in Object, EnterJob(x) PROVE RoomFine(room')
<1>1. /\ room \in RoomType /\ popped \in RoomType /\ popped = Popped(room) /\ HeldTicks(popped)
      /\ room.queue # <<>> /\ room.queue[1].obj = x /\ room.queue[1].op = "enter" /\ ~room.fault
      /\ \A a \in Arrows : a # x => ArrowFine(popped, a)
      /\ \A o \in Actor : ActorFine(popped, o)
      /\ room' \in Enter(popped, x)
  BY RunsIs DEF EnterJob
<1>2. CASE x \in Actor
  <2>1. room' \in RoomType /\ ActorEnters(popped, x, room')
    BY <1>1, <1>2, EnterActorDoes
  <2>2. \A a \in Arrows : ArrowFine(popped, a)
    BY <1>1, <1>2, ObjectIs
  <2> QED BY <1>1, <1>2, <2>1, <2>2, EntersFine
<1>3. CASE x \in Arrows
  <2>1. room' = EnterArrow(popped, x)
    BY <1>1, <1>3, ObjectIs DEF Enter
  <2>2. PICK z \in RoomType, f \in RoomType :
              /\ JobsOf(z) = JobsOf(popped) /\ FightOf(z) = FightOf(popped) /\ FlightOf(z) = FlightOf(popped)
              /\ PlaceOf(z) = <<popped.present, popped.inRoom \cup {x}, popped.cell, popped.grid,
                                [popped.zone EXCEPT ![ZoneOf(popped.cell[x])] = @ \cup {x}]>>
              /\ \/ popped.owner[x] = None /\ f = z
                 \/ popped.owner[x] # None /\ (ArrowFlies(z, x, f) \/ ArrowStrikes(z, x, f))
              /\ JobsOf(room') = JobsOf(f) /\ FightOf(room') = FightOf(f) /\ FlightOf(room') = FlightOf(f)
              /\ PlaceOf(room') = <<f.present \cup {x}, f.inRoom, f.cell, f.grid, f.zone>>
    <3>1. ArrowEnters(popped, x, room')
      BY <1>1, <1>3, <2>1, EnterArrowDoes
    <3> QED BY <3>1 DEF ArrowEnters
  <2>3. z.present = popped.present /\ z.inRoom = popped.inRoom \cup {x} /\ z.owner = popped.owner
    BY <2>2 DEF PlaceOf, FlightOf
  <2>4. Ready(popped, x)
    BY <1>1, <1>3, TakenArrow DEF RoomFine
  <2>5. /\ HeldTicks(z) /\ \A b \in Arrows : b # x => ArrowFine(z, b)
        /\ \A o \in Actor : ActorFine(z, o)
        /\ Ready(z, x)
    BY <1>1, <1>3, <2>2, <2>3, <2>4, LaunchedFine
  <2>6. RoomFine(f)
    <3>1. CASE popped.owner[x] = None /\ f = z
      <4>1. z.owner[x] = None
        BY <2>3, <3>1
      <4>2. ArrowFine(z, x)
        BY <2>5, <4>1 DEF Ready, ArrowFine
      <4> QED BY <2>5, <3>1, <4>2 DEF RoomFine
    <3>2. CASE popped.owner[x] # None /\ (ArrowFlies(z, x, f) \/ ArrowStrikes(z, x, f))
      BY <1>3, <2>2, <2>3, <2>5, <3>2, ArrowActsFine
    <3> QED BY <2>2, <3>1, <3>2
  <2>7. /\ room'.present = f.present \cup {x} /\ room'.inRoom = f.inRoom
        /\ room'.queue = f.queue /\ room'.held = f.held /\ room'.stray = f.stray /\ room'.hp = f.hp
        /\ room'.owner = f.owner /\ room'.used = f.used /\ room'.hits = f.hits /\ room'.fault = f.fault
    BY <2>2 DEF PlaceOf, FlightOf, FightOf, JobsOf
  <2>8. HeldTicks(room')
    BY <2>6, <2>7, HeldTicksSame DEF RoomFine
  <2>9. ASSUME NEW b \in Arrows PROVE ArrowFine(room', b)
    BY <2>6, <2>7 DEF RoomFine, ArrowFine, Flying
  <2>10. ASSUME NEW o \in Actor PROVE ActorFine(room', o)
    <3>1. o # x
      BY <1>3, ObjectIs
    <3> QED BY <2>6, <2>7, <3>1 DEF RoomFine, ActorFine, Looked
  <2> QED BY <2>8, <2>9, <2>10 DEF RoomFine
<1> QED BY <1>2, <1>3 DEF Object

\* A Leave.
LEMMA LeaveJobRoom == ASSUME TypeOK, RoomFine(room), NEW x \in Object, LeaveJob(x) PROVE RoomFine(room')
<1>1. /\ room \in RoomType /\ popped \in RoomType /\ popped = Popped(room) /\ HeldTicks(popped)
      /\ room.queue # <<>> /\ room.queue[1].obj = x /\ room.queue[1].op = "leave" /\ ~room.fault
      /\ \A a \in Arrows : a # x => ArrowFine(popped, a)
      /\ \A o \in Actor : ActorFine(popped, o)
      /\ x \notin Arrows => RoomFine(popped)
      /\ room' = Leave(popped, x)
  BY RunsIs DEF LeaveJob
<1>2. CASE x \in Actor
  BY <1>1, <1>2, LeaveFine, ObjectIs
<1>3. CASE x \in Arrows
  <2>1. PICK s : s = Leave(popped, x)
    OBVIOUS
  <2>2. s \in RoomType
    BY <1>1, <2>1, LeaveDoes
  <2>3. ASSUME NEW b \in Arrows, b # x PROVE ArrowFine(s, b)
    <3>1. Aside(popped, s, b)
      BY <1>1, <2>1, <2>3, LeavesAside
    <3> QED BY <1>1, <2>2, <2>3, <3>1, AsideFine
  <2>4. \A o \in Actor : ActorFine(s, o)
    BY <1>1, <2>1, LeavesActor
  <2>5. Leaving(popped, x)
    BY <1>1, <1>3, TakenArrow DEF RoomFine
  <2>6. x \notin Players
    BY <1>3, ObjectIs
  <2>7. JobsOf(s) = JobsOf(popped)
    <3>1. CASE x \in popped.present
      <4>1. LeavesJobs(popped, x, s)
        BY <1>1, <2>1, <3>1, LeaveDoes
      <4> QED BY <2>6, <4>1 DEF LeavesJobs
    <3>2. CASE x \notin popped.present
      BY <1>1, <2>1, <2>6, <3>2, LeaveDoes
    <3> QED BY <3>1, <3>2
  <2>8. s.queue = popped.queue /\ s.held = popped.held /\ s.stray = popped.stray
    BY <2>7 DEF JobsOf
  <2>9. HeldTicks(s)
    BY <1>1, <2>8, HeldTicksSame
  <2>10. ArrowFine(s, x)
    <3>1. CASE x \in popped.present
      <4>1. FlightOf(s) = <<[popped.owner EXCEPT ![x] = None], popped.used, popped.hits, popped.fault>>
        <5>1. LeavesFlight(popped, x, s)
          BY <1>1, <2>1, <3>1, LeaveDoes
        <5> QED BY <1>3, <5>1 DEF LeavesFlight
      <4>2. s.owner[x] = None /\ s.used = popped.used /\ s.hits = popped.hits
        BY <1>1, <1>3, <4>1, RoomIs DEF FlightOf
      <4> QED BY <2>5, <2>8, <4>2 DEF Leaving, ArrowFine
    <3>2. CASE x \notin popped.present
      <4>1. PlaceOf(s) = PlaceOf(popped) /\ FlightOf(s) = <<popped.owner, popped.used, popped.hits, TRUE>>
        BY <1>1, <2>1, <2>6, <3>2, LeaveDoes
      <4>2. /\ s.owner = popped.owner /\ s.used = popped.used /\ s.hits = popped.hits /\ s.fault = TRUE
            /\ s.inRoom = popped.inRoom
        BY <4>1 DEF FlightOf, PlaceOf
      <4> QED BY <2>5, <2>8, <4>2 DEF Leaving, ArrowFine, Flying
    <3> QED BY <3>1, <3>2
  <2> QED BY <1>1, <2>1, <2>3, <2>4, <2>9, <2>10 DEF RoomFine
<1> QED BY <1>2, <1>3 DEF Object


\* A move.
LEMMA HandleMoveRoom ==
  ASSUME TypeOK, RoomFine(room), NEW p \in Players, HandleMove(p)
  PROVE  RoomFine(room')
<1>1. RoomFine(popped) /\ popped \in RoomType
  BY RunsIs, ObjectIs DEF HandleMove
<1>2. ASSUME NEW t, NEW c, Elsewhere(popped, t), t.hp = popped.hp, c \in Cell,
             room' = ApplyMove(t, p, c)
      PROVE  RoomFine(room')
  <2>0. p \in Object
    BY ObjectIs
  <2>1. /\ t \in RoomType /\ JobsOf(t) = JobsOf(popped) /\ PlaceOf(t) = PlaceOf(popped)
        /\ FlightOf(t) = FlightOf(popped)
    BY <1>2 DEF Elsewhere
  <2>2. PICK s : s = ApplyMove(t, p, c)
    OBVIOUS
  <2>3. /\ s \in RoomType /\ Moves(t, p, s) /\ JobsOf(s) = JobsOf(t)
        /\ FightOf(s) = FightOf(t) /\ FlightOf(s) = FlightOf(t)
    BY <2>0, <2>1, <2>2, ApplyMoveDoes
  <2>4. s.hp = t.hp /\ s.present = t.present /\ s.inRoom = t.inRoom
    BY <2>3, SamePresent DEF FightOf
  <2>5. t.present = popped.present /\ t.inRoom = popped.inRoom
    BY <2>1 DEF PlaceOf
  <2>6. Steady(popped, s)
    BY <1>2, <2>1, <2>3, <2>4, <2>5 DEF Steady
  <2>7. RoomFine(s)
    BY <1>1, <2>6, SteadyFine
  <2> QED BY <1>2, <2>2, <2>7
<1> QED BY <1>1, <1>2, HandleMoveDoes

\* What is not about a fight is as it was, and so are the hp: it is kept.
LEMMA ElsewhereFine ==
  ASSUME NEW r \in RoomType, RoomFine(r), NEW s, Elsewhere(r, s), s.hp = r.hp
  PROVE  s \in RoomType /\ RoomFine(s)
<1>1. s.present = r.present /\ s.inRoom = r.inRoom
  BY DEF Elsewhere, PlaceOf
<1>2. Steady(r, s)
  BY <1>1 DEF Steady, Elsewhere
<1> QED BY <1>2, SteadyFine DEF Steady

\* A new arrow has its Enter queued, and no other has it.
LEMMA MadeFine ==
  ASSUME NEW r \in RoomType, RoomFine(r), NEW p \in Players, NEW a \in Arrows \ r.used,
         NEW s, s = PushJob(Made(r, p, a), NewJob("enter", a))
  PROVE  RoomFine(s)
<1>1. PICK u : u = Made(r, p, a)
  OBVIOUS
<1>2. /\ u \in RoomType /\ JobsOf(u) = JobsOf(r) /\ u.hp = r.hp
      /\ FlightOf(u) = <<[r.owner EXCEPT ![a] = p], r.used \cup {a}, r.hits, r.fault>>
      /\ PlaceOf(u) = <<r.present, r.inRoom, [r.cell EXCEPT ![a] = r.cell[p]], r.grid, r.zone>>
  BY <1>1, MadeDoes
<1>3. /\ u.queue = r.queue /\ u.held = r.held /\ u.stray = r.stray
      /\ u.present = r.present /\ u.inRoom = r.inRoom
      /\ u.owner = [r.owner EXCEPT ![a] = p] /\ u.used = r.used \cup {a} /\ u.hits = r.hits /\ u.fault = r.fault
  BY <1>2 DEF JobsOf, PlaceOf, FlightOf
<1>4. /\ NewJob("enter", a) \in Job /\ NewJob("enter", a).op = "enter"
      /\ NewJob("enter", a).obj = a /\ NewJob("enter", a).held = FALSE
  <2>1. "enter" \in Op /\ a \in Object
    BY ObjectIs DEF Op
  <2> QED BY <2>1, NewJobIs
<1>5. /\ s \in RoomType /\ s.queue = Append(u.queue, NewJob("enter", a)) /\ s.held = u.held
      /\ s.stray = u.stray
      /\ PlaceOf(s) = PlaceOf(u) /\ FightOf(s) = FightOf(u) /\ FlightOf(s) = FlightOf(u)
  BY <1>1, <1>2, <1>4, PushDoes
<1>6. /\ s.hp = u.hp /\ s.present = u.present /\ s.inRoom = u.inRoom
      /\ s.owner = u.owner /\ s.used = u.used /\ s.hits = u.hits
  BY <1>5 DEF PlaceOf, FightOf, FlightOf
<1>7. HeldTicks(s)
  BY <1>3, <1>4, <1>5, HeldTicksPushed DEF RoomFine
<1>8. ASSUME NEW o \in Actor PROVE ActorFine(s, o)
  <2>1. Looked(r, o) => Looked(s, o)
    BY <1>3, <1>4, <1>5, LookedPushed
  <2> QED BY <1>2, <1>3, <1>6, <2>1 DEF RoomFine, ActorFine
<1>9. ASSUME NEW b \in Arrows, b # a PROVE ArrowFine(s, b)
  <2>1. SameFor(r.queue, u.queue, b) /\ u.stray[b] = r.stray[b]
    BY <1>3 DEF SameFor
  <2>2. u.owner[b] = r.owner[b]
    BY <1>3, <1>9, RoomIs
  <2>3. Aside(r, u, b)
    BY <1>3, <1>9, <2>1, <2>2, RoomNumbers DEF Aside
  <2>4. ArrowFine(u, b)
    BY <1>2, <2>3, AsideFine DEF RoomFine
  <2> QED BY <1>2, <1>4, <1>5, <1>9, <2>4, PushedAside
<1>10. ArrowFine(s, a)
  <2>1. ArrowFine(r, a) /\ r.queue \in Seq(Job)
    BY RoomIs DEF RoomFine
  <2>2. /\ ~Has(r.queue, a, "enter") /\ ~Has(r.queue, a, "tick") /\ ~Has(r.queue, a, "leave")
        /\ r.stray[a] = 0 /\ r.hits[a] = 0
    BY <2>1 DEF ArrowFine
  <2>3. /\ InTurn(s.queue, a)
        /\ \A op : Has(s.queue, a, op) <=> Has(r.queue, a, op) \/ "enter" = op
    <3>1. InTurn(r.queue, a)
      BY <2>1 DEF ArrowFine
    <3>2. PICK j : j = NewJob("enter", a)
      OBVIOUS
    <3>3. j \in Job /\ j.op = "enter" /\ j.obj = a /\ s.queue = Append(r.queue, j)
      BY <1>3, <1>4, <1>5, <3>2
    <3>4. j.op \in {"enter", "leave"}
      BY <3>3
    <3>5. PICK q : q = r.queue
      OBVIOUS
    <3>6. /\ q \in Seq(Job) /\ InTurn(q, a)
          /\ ~Has(q, a, "enter") /\ ~Has(q, a, "tick") /\ ~Has(q, a, "leave")
      BY <2>1, <2>2, <3>1, <3>5
    <3>7. /\ InTurn(Append(q, j), a)
          /\ \A op : Has(Append(q, j), a, op) <=> Has(q, a, op) \/ (j.obj = a /\ j.op = op)
      BY <3>3, <3>4, <3>6, AppendInTurn
    <3> QED BY <3>3, <3>5, <3>7
  <2> QED BY <1>3, <1>5, <1>6, <2>2, <2>3 DEF ArrowFine
<1> QED BY <1>7, <1>8, <1>9, <1>10 DEF RoomFine

\* A skill.
LEMMA HandleSkillRoom ==
  ASSUME TypeOK, RoomFine(room), NEW p \in Players, HandleSkill(p)
  PROVE  RoomFine(room')
<1>1. RoomFine(popped) /\ popped \in RoomType /\ popped = Popped(room) /\ room \in RoomType
      /\ room.queue # <<>>
  <2>1. Runs("skill", p)
    BY DEF HandleSkill
  <2>2. p \notin Arrows /\ "skill" # "tick"
    BY ObjectIs
  <2> QED BY <2>1, <2>2, RunsIs
<1>2. popped.used = room.used
  BY <1>1, PoppedDoes DEF FlightOf
<1>3. ASSUME NEW t, Elsewhere(popped, t), t.hp = popped.hp
      PROVE  t \in RoomType /\ RoomFine(t) /\ t.used = room.used
  BY <1>1, <1>2, <1>3, ElsewhereFine DEF Elsewhere, FlightOf
<1>4. ASSUME NEW t, Elsewhere(popped, t), t.hp = popped.hp, NEW a \in Arrows \ room.used,
             room' = PushJob(Made(t, p, a), NewJob("enter", a))
      PROVE  RoomFine(room')
  <2>1. t \in RoomType /\ RoomFine(t) /\ t.used = room.used
    BY <1>3, <1>4
  <2> QED BY <1>4, <2>1, MadeFine
<1> QED BY <1>1, <1>3, <1>4, HandleSkillDoes

\* A random jump.
LEMMA HandleGoRandomRoom ==
  ASSUME TypeOK, RoomFine(room), NEW p \in Players, HandleGoRandom(p)
  PROVE  RoomFine(room')
<1>1. RoomFine(popped) /\ popped \in RoomType
  BY RunsIs, ObjectIs DEF HandleGoRandom
<1>2. room' = popped \/ room' \in Revive(Leave(popped, p), p, FALSE)
  BY DEF HandleGoRandom
<1>3. CASE room' \in Revive(Leave(popped, p), p, FALSE)
  <2>1. PICK l : l = Leave(popped, p)
    OBVIOUS
  <2>2. p \in Actor
    BY ObjectIs
  <2>3. l \in RoomType /\ RoomFine(l)
    BY <1>1, <2>1, <2>2, LeaveFine
  <2>4. room' \in Revive(l, p, FALSE)
    BY <1>3, <2>1
  <2> QED BY <2>2, <2>3, <2>4, ReviveFine
<1> QED BY <1>1, <1>2, <1>3

\* An update of a view: the next is reserved.
LEMMA ViewJobRoom ==
  ASSUME TypeOK, RoomFine(room), NEW p \in Players, ViewJob(p)
  PROVE  RoomFine(room')
<1>0. p \in Actor /\ p \notin Arrows /\ p \notin Monsters
  BY ObjectIs
<1>1. /\ popped \in RoomType /\ HeldTicks(popped)
      /\ \A a \in Arrows : ArrowFine(popped, a)
      /\ \A o \in Actor : o # p => ActorFine(popped, o)
      /\ ~room.queue[1].held => RoomFine(popped)
  BY <1>0, RunsIs DEF ViewJob
<1>2. CASE room' = ViewUpdate(popped, p)
  <2>1. PICK s : s = ViewUpdate(popped, p)
    OBVIOUS
  <2>2. /\ s \in RoomType
        /\ s.queue = Unnamed(popped.queue, p) /\ s.held = popped.held \cup {p}
        /\ s.stray = [popped.stray EXCEPT ![p] = IF p \in popped.held THEN @ + 1 ELSE @]
        /\ PlaceOf(s) = PlaceOf(popped)
        /\ FightOf(s) = FightOf(popped) /\ FlightOf(s) = FlightOf(popped)
    BY <1>1, <2>1, ViewUpdateDoes
  <2>3. s.present = popped.present /\ s.inRoom = popped.inRoom /\ s.hp = popped.hp
    BY <2>2 DEF PlaceOf, FightOf
  <2>4. \A x \in Actor : s.hp[x] <= popped.hp[x]
    BY <1>1, <2>3, HpIsNumber
  <2>5. RoomFine(s)
    BY <1>0, <1>1, <2>2, <2>3, <2>4, ReservedFine
  <2> QED BY <1>2, <2>1, <2>5
<1>3. CASE ~room.queue[1].held /\ room' = Faulty(popped)
  <2>1. PICK s : s = Faulty(popped)
    OBVIOUS
  <2>2. /\ s \in RoomType /\ JobsOf(s) = JobsOf(popped)
        /\ FightOf(s) = FightOf(popped) /\ PlaceOf(s) = PlaceOf(popped)
        /\ FlightOf(s) = <<popped.owner, popped.used, popped.hits, TRUE>>
    BY <1>1, <2>1, FaultyDoes
  <2>3. /\ s.queue = popped.queue /\ s.held = popped.held /\ s.stray = popped.stray
        /\ s.present = popped.present /\ s.inRoom = popped.inRoom /\ s.hp = popped.hp
        /\ s.owner = popped.owner /\ s.used = popped.used /\ s.hits = popped.hits /\ s.fault
    BY <2>2 DEF JobsOf, FightOf, PlaceOf, FlightOf
  <2>4. RoomFine(popped)
    BY <1>1, <1>3
  <2>5. HeldTicks(s)
    BY <1>1, <2>3, HeldTicksSame
  <2>6. \A a \in Arrows : ArrowFine(s, a)
    BY <2>3, <2>4 DEF RoomFine, ArrowFine, Flying
  <2>7. \A o \in Actor : ActorFine(s, o)
    BY <2>3, <2>4 DEF RoomFine, ActorFine, Looked
  <2> QED BY <1>3, <2>1, <2>5, <2>6, <2>7 DEF RoomFine
<1> QED BY <1>2, <1>3 DEF ViewJob, Faulty

\* An update of a monster: the next is reserved.
LEMMA MonsterJobRoom ==
  ASSUME TypeOK, RoomFine(room), NEW m \in Monsters, MonsterJob(m)
  PROVE  RoomFine(room')
<1>0. m \in Actor /\ m \notin Arrows /\ m \notin Players
  BY ObjectIs
<1>1. /\ room \in RoomType /\ popped \in RoomType /\ HeldTicks(popped)
      /\ \A a \in Arrows : ArrowFine(popped, a)
      /\ \A o \in Actor : o # m => ActorFine(popped, o)
      /\ popped = Popped(room) /\ room.queue # <<>>
      /\ room' \in MonsterUpdate(popped, m)
  BY <1>0, RunsIs DEF MonsterJob
<1>2. CASE m \in popped.inRoom
  <2>1. /\ Acted(popped, m, room')
        /\ room'.queue = Unnamed(popped.queue, m) /\ room'.held = popped.held \cup {m}
        /\ room'.stray = [popped.stray EXCEPT ![m] = IF m \in popped.held THEN @ + 1 ELSE @]
    BY <1>1, <1>2, MonsterUpdateDoes
  <2>2. /\ room' \in RoomType /\ FlightOf(room') = FlightOf(popped)
        /\ \A x \in Actor : room'.hp[x] <= popped.hp[x]
        /\ room'.present = popped.present /\ room'.inRoom = popped.inRoom
    BY <2>1 DEF Acted, Moves
  <2> QED BY <1>0, <1>1, <1>2, <2>1, <2>2, ReservedFine
<1>3. CASE m \notin popped.inRoom
  <2>1. room' = popped
    BY <1>1, <1>3 DEF MonsterUpdate
  <2>2. popped.present = room.present /\ popped.inRoom = room.inRoom
    BY <1>1, PoppedDoes DEF PlaceOf
  <2>3. m \notin popped.present
    BY <1>0, <1>3, <2>2 DEF RoomFine, ActorFine
  <2>4. ActorFine(popped, m)
    BY <2>3 DEF ActorFine
  <2> QED BY <1>1, <2>1, <2>4 DEF RoomFine
<1> QED BY <1>2, <1>3

\* An update of an arrow.
LEMMA ArrowJobRoom ==
  ASSUME TypeOK, RoomFine(room), NEW a \in Arrows, ArrowJob(a)
  PROVE  RoomFine(room')
<1>0. a \notin Actor /\ a \in Object
  BY ObjectIs
<1>1. /\ room \in RoomType /\ popped \in RoomType /\ HeldTicks(popped) /\ popped = Popped(room)
      /\ room.queue # <<>> /\ room.queue[1].obj = a /\ room.queue[1].op = "tick" /\ ~room.fault
      /\ \A b \in Arrows : b # a => ArrowFine(popped, b)
      /\ \A o \in Actor : ActorFine(popped, o)
      /\ room' = ArrowUpdate(popped, a)
  BY <1>0, RunsIs DEF ArrowJob
<1>2. popped.owner = room.owner /\ popped.inRoom = room.inRoom
  BY <1>1, PoppedDoes DEF FlightOf, PlaceOf
<1>3. \/ room.owner[a] = None /\ ArrowFine(popped, a)
      \/ room.owner[a] # None /\ a \in room.inRoom /\ Ready(popped, a)
  BY <1>1, TakenArrow DEF RoomFine
<1>4. CASE room.owner[a] = None
  <2>1. room' = popped
    BY <1>1, <1>2, <1>4 DEF ArrowUpdate
  <2> QED BY <1>1, <1>3, <1>4, <2>1 DEF RoomFine
<1>5. CASE room.owner[a] # None
  <2>1. popped.owner[a] # None /\ a \in popped.inRoom /\ Ready(popped, a)
    BY <1>2, <1>3, <1>5
  <2>2. ArrowFlies(popped, a, room') \/ ArrowStrikes(popped, a, room')
    BY <1>1, <2>1, ArrowUpdateDoes
  <2>3. room' \in RoomType
    BY <1>0, <1>1, ArrowJobFine DEF Fine
  <2> QED BY <1>1, <2>1, <2>2, <2>3, ArrowActsFine
<1> QED BY <1>4, <1>5

\* A cancelled job.
LEMMA EmptyJobRoom == ASSUME TypeOK, RoomFine(room), NEW x \in Object, EmptyJob(x) PROVE RoomFine(room')
<1>1. /\ room \in RoomType /\ room.queue # <<>> /\ room.queue[1].obj = x /\ room.queue[1].op = "none"
      /\ ~room.fault
      /\ x \notin Arrows => RoomFine(popped)
      /\ room' = popped
  BY RunsIs DEF EmptyJob
<1>2. x \notin Arrows
  <2>1. SUFFICES ASSUME x \in Arrows PROVE FALSE
    OBVIOUS
  <2>2. ArrowFine(room, x)
    BY <2>1 DEF RoomFine
  <2>3. room.queue[1].op \in {"enter", "leave", "tick"}
    BY <1>1, <2>1, <2>2, TakenArrow
  <2> QED BY <1>1, <2>3
<1> QED BY <1>1, <1>2

\* All the jobs.
LEMMA JobsRoom == ASSUME TypeOK, RoomFine(room), RunJob PROVE RoomFine(room')
<1>1. ASSUME NEW o \in Object, EnterJob(o) \/ LeaveJob(o) \/ EmptyJob(o) PROVE RoomFine(room')
  BY <1>1, EnterJobRoom, LeaveJobRoom, EmptyJobRoom
<1>2. ASSUME NEW p \in Players, HandleMove(p) \/ HandleSkill(p) \/ HandleGoRandom(p) \/ ViewJob(p)
      PROVE  RoomFine(room')
  BY <1>2, HandleMoveRoom, HandleSkillRoom, HandleGoRandomRoom, ViewJobRoom
<1>3. ASSUME NEW m \in Monsters, MonsterJob(m) PROVE RoomFine(room')
  BY <1>3, MonsterJobRoom
<1>4. ASSUME NEW a \in Arrows, ArrowJob(a) PROVE RoomFine(room')
  BY <1>4, ArrowJobRoom
<1> QED BY <1>1, <1>2, <1>3, <1>4 DEF RunJob

\* The timer.
LEMMA FiresRoom ==
  ASSUME TypeOK, RoomFine(room), NEW o \in Object, FireHeld(o) \/ FireStray(o)
  PROVE  RoomFine(room')
<1>1. room \in RoomType
  BY DEF TypeOK
<1>2. CASE FireHeld(o)
  <2>1. o \in room.held /\ room' = FiredHeld(room, o)
    BY <1>2, Zenon DEF FireHeld, FiredHeld, HeldTick
  <2> QED BY <1>1, <2>1, FiredFine
<1>3. CASE FireStray(o)
  <2>1. room.stray[o] > 0 /\ room' = FiredStray(room, o)
    BY <1>3, Zenon DEF FireStray, FiredStray
  <2> QED BY <1>1, <2>1, FiredFine
<1> QED BY <1>2, <1>3

\* The sessions' pushes.
LEMMA PushesRoom ==
  ASSUME TypeOK, RoomFine(room), NEW p \in Players, PushEnter(p) \/ PushPacket(p) \/ PushLeave(p)
  PROVE  RoomFine(room')
<1>1. room \in RoomType
  BY DEF TypeOK
<1>2. ASSUME NEW op \in Op, room' = PushJob(room, NewJob(op, p)) PROVE RoomFine(room')
  BY <1>1, <1>2, PushedPlayerFine
<1>3. "enter" \in Op /\ "leave" \in Op
  BY DEF Op
<1>4. CASE PushEnter(p)
  BY <1>2, <1>3, <1>4 DEF PushEnter, Push
<1>5. CASE PushPacket(p)
  <2>1. handler[p].at \in Op /\ room' = PushJob(room, NewJob(handler[p].at, p))
    BY <1>5 DEF PushPacket, Push, Packets, Op
  <2> QED BY <1>2, <2>1
<1>6. CASE PushLeave(p)
  BY <1>2, <1>3, <1>6 DEF PushLeave
<1> QED BY <1>4, <1>5, <1>6

\* OnDeadAnim on a network thread, with jobs between its Leave and its Enter.
LEMMA AnimsRoom ==
  ASSUME TypeOK, RoomFine(room), NEW p \in Players,
         (\E o \in Actor : BeginAnimEnd(p, o)) \/ AnimLeave(p) \/ AnimEnter(p)
  PROVE  RoomFine(room')
<1>1. room \in RoomType
  BY DEF TypeOK
<1>2. ASSUME NEW o \in Actor, BeginAnimEnd(p, o) PROVE RoomFine(room')
  <2>1. room' = Answered(room, p, o)
    BY <1>2 DEF BeginAnimEnd, Answered
  <2>2. Elsewhere(room, room') /\ room'.hp = room.hp
    BY <1>1, <2>1, AnsweredDoes
  <2> QED BY <1>1, <2>2, ElsewhereFine
<1>3. ASSUME handler[p].at \in Anim PROVE handler[p].obj \in Actor
  <2>1. handler[p] \in [at : Place \ Anim, obj : {None}] \cup [at : Anim, obj : Actor]
    BY DEF TypeOK
  <2> QED BY <1>3, <2>1
<1>4. CASE AnimLeave(p)
  <2>1. handler[p].obj \in Actor /\ room' = Leave(room, handler[p].obj)
    BY <1>3, <1>4 DEF AnimLeave, At, Anim
  <2> QED BY <1>1, <2>1, LeaveFine
<1>5. CASE AnimEnter(p)
  <2>1. handler[p].obj \in Actor /\ room' \in Revive(room, handler[p].obj, TRUE)
    BY <1>3, <1>5 DEF AnimEnter, At, Anim
  <2> QED BY <1>1, <2>1, ReviveFine
<1> QED BY <1>2, <1>4, <1>5

\* All the steps of a session.
LEMMA SessionStepRoom ==
  ASSUME TypeOK, RoomFine(room), NEW p \in Players, SessionStep(p)
  PROVE  RoomFine(room')
<1>1. CASE \/ BeginEnterGame(p) \/ FindRoom(p) \/ (\E packet \in Packets : BeginPacket(p, packet))
           \/ Drop(p) \/ ForgetPlayer(p)
  <2>1. room' = room
    BY <1>1 DEF BeginEnterGame, FindRoom, BeginPacket, Drop, ForgetPlayer
  <2> QED BY <2>1
<1> QED BY <1>1, PushesRoom, AnimsRoom DEF SessionStep

\* It holds when Room::Init has pushed the Enters of the monsters.
LEMMA InitRoom == ASSUME Init PROVE RoomFine(room)
<1>1. PICK order \in [1 .. Cardinality(Monsters) -> Monsters] :
        room = EmptyRoom([i \in DOMAIN order |-> NewJob("enter", order[i])])
  BY InitIs
<1>2. room \in RoomType
  BY InitIs
<1> DEFINE q == [i \in DOMAIN order |-> NewJob("enter", order[i])]
<1>3. ASSUME NEW i \in DOMAIN q PROVE q[i].op = "enter" /\ q[i].obj \in Monsters /\ q[i].held = FALSE
  <2>1. q[i] = NewJob("enter", order[i]) /\ order[i] \in Monsters
    OBVIOUS
  <2>2. "enter" \in Op /\ order[i] \in Object
    BY <2>1, ObjectIs DEF Op
  <2> QED BY <2>1, <2>2, NewJobIs, ZenonT(40)
<1> HIDE DEF q
<1>4. room = EmptyRoom(q)
  BY <1>1 DEF q
<1>5. /\ room.queue = q /\ room.held = {} /\ room.present = {} /\ room.used = {}
      /\ room.stray = [o \in Object |-> 0] /\ room.hits = [a \in Arrows |-> 0]
      /\ room.owner = [a \in Arrows |-> None]
  BY <1>4 DEF EmptyRoom
<1>6. HeldTicks(room)
  BY <1>3, <1>5 DEF HeldTicks
<1>7. ASSUME NEW a \in Arrows PROVE ArrowFine(room, a)
  <2>1. \A i \in DOMAIN room.queue : room.queue[i].obj # a
    <3>1. a \notin Monsters
      BY ObjectIs
    <3> QED BY <1>3, <1>5, <3>1
  <2>2. InTurn(room.queue, a) /\ \A op : ~Has(room.queue, a, op)
    BY <2>1 DEF InTurn, Has
  <2>3. room.stray[a] = 0 /\ room.hits[a] = 0 /\ room.owner[a] = None
    BY <1>5, ObjectIs
  <2> QED BY <2>2, <2>3 DEF ArrowFine
<1>8. \A o \in Actor : ActorFine(room, o)
  BY <1>5 DEF ActorFine
<1> QED BY <1>6, <1>7, <1>8 DEF RoomFine

\* Both invariants.
RoomInv == Well /\ RoomFine(room)

\* They hold at first.
LEMMA InitInv == Init => RoomInv
BY InitWell, InitRoom DEF RoomInv

\* And every step keeps them.
LEMMA NextInv == RoomInv /\ [Next]_vars => RoomInv'
<1> SUFFICES ASSUME RoomInv, [Next]_vars PROVE RoomInv'
  OBVIOUS
<1>0. Well /\ TypeOK /\ RoomFine(room)
  BY DEF RoomInv, Well
<1>1. Well'
  BY <1>0, NextWell
<1>2. CASE UNCHANGED vars
  <2>1. room' = room
    BY <1>2 DEF vars
  <2>2. RoomFine(room')
    BY <1>0, <2>1
  <2> QED BY <1>1, <2>2 DEF RoomInv
<1>3. CASE Next
  <2>1. ASSUME NEW o \in Object, FireHeld(o) \/ FireStray(o) PROVE RoomFine(room')
    BY <1>0, <2>1, FiresRoom
  <2>2. ASSUME NEW p \in Players, SessionStep(p) PROVE RoomFine(room')
    BY <1>0, <2>2, SessionStepRoom
  <2>3. RoomFine(room')
    BY <1>0, <1>3, <2>1, <2>2, JobsRoom DEF Next
  <2> QED BY <1>1, <2>3 DEF RoomInv
<1> QED BY <1>2, <1>3

\* Whatever else happens, an arrow hurts once: between its hit and its queued Leave no
\* update of it can run (Arrow.cpp:7-31).
THEOREM ArrowsHitOnce == Spec => []ArrowHitsOnce
<1>1. RoomInv => ArrowHitsOnce
  BY DEF RoomInv, RoomFine, ArrowFine, ArrowHitsOnce
<1> QED BY <1>1, InitInv, NextInv, PTL DEF Spec

\* Who is looked after has an update to come.
LEMMA FineForgetsNobody == ASSUME TypeOK, RoomFine(room) PROVE NobodyForgotten
<1>1. ASSUME NEW o \in room.present \cap Actor, o \in Players \/ room.hp[o] > 0 PROVE Ticks(o)
  <2>1. o \in room.held \/ Named(room.queue, o)
    BY <1>1 DEF RoomFine, ActorFine, Looked
  <2>2. ASSUME Named(room.queue, o) PROVE Ticks(o)
    BY <2>2 DEF Named, RoomFine, HeldTicks, Ticks
  <2> QED BY <2>1, <2>2 DEF Ticks
<1>2. ASSUME NEW a \in Arrows, room.owner[a] # None PROVE Ticks(a) \/ Waiting(a)
  <2>1. Has(room.queue, a, "enter") \/ Flying(room, a)
    BY <1>2 DEF RoomFine, ArrowFine
  <2>2. Has(room.queue, a, "enter") => Waiting(a)
    BY DEF Has, Waiting
  <2>3. Flying(room, a) => Ticks(a)
    BY DEF Flying, Has, Ticks
  <2> QED BY <2>1, <2>2, <2>3
<1> QED BY <1>1, <1>2 DEF NobodyForgotten

\* Every player in the room has an update of his view to come, every monster that
\* lives and every arrow in flight an update, whatever deaths, C_AnimEnds, blows and
\* late jobs meet (ViewCube.cpp:64, Monster.cpp:37-79, GameObject.cpp:170-184).
THEOREM NobodyIsForgotten == Spec => []NobodyForgotten
<1>1. RoomInv => NobodyForgotten
  BY FineForgetsNobody DEF RoomInv, Well
<1> QED BY <1>1, InitInv, NextInv, PTL DEF Spec

-----------------------------------------------------------------------------
(* What is said of the jobs of one object, and what of it is kept when jobs *)
(* are taken, emptied or pushed.                                           *)

\* The jobs of o in t are jobs of o in q, in the same order; empty ones do not count.
Fewer(q, t, o) ==
  \E k \in Nat : \A i \in DOMAIN t :
    t[i].obj = o /\ (t[i].held \/ t[i].op # "none") =>
      /\ i + k \in DOMAIN q /\ q[i + k].obj = o /\ q[i + k].op = t[i].op
      /\ t[i].held => q[i + k].held
      /\ o \in Players => q[i + k].held = t[i].held

\* Besides, no Leave has gone.
Follows(q, t, o) == Fewer(q, t, o) /\ (Has(q, o, "leave") => Has(t, o, "leave"))

\* o has at most one job of this kind; none but of these kinds.
Once(q, o, op) ==
  \A i, j \in DOMAIN q : q[i].obj = o /\ q[j].obj = o /\ q[i].op = op /\ q[j].op = op => i = j
Only(q, o, S) == \A i \in DOMAIN q : q[i].obj = o => q[i].op \in S \cup {"none"}

\* The jobs of a player that need him in the room or bring him there.  No such job and
\* no second Leave comes after his Leave.
Acts == {"enter", "move", "skill", "random"}
LeaveLast(q, p) ==
  \A i, j \in DOMAIN q :
    /\ q[i].obj = p /\ q[j].obj = p /\ q[i].op = "leave" /\ q[j].op \in Acts \cup {"leave"} /\ i # j
    => j < i

\* The updates of his view are named by the handle, and there is one at most.
OneView(q, p) ==
  /\ \A i \in DOMAIN q : q[i].obj = p /\ q[i].op = "tick" => q[i].held
  /\ \A i, j \in DOMAIN q : q[i].obj = p /\ q[j].obj = p /\ q[i].held /\ q[j].held => i = j

\* Indices of a queue are integers.
LEMMA IndexIs == ASSUME NEW q \in Seq(Job) PROVE \A i \in DOMAIN q : i \in Int /\ i + 0 = i /\ q[i] \in Job
OBVIOUS

\* What is said of all the jobs of o, is said of fewer.
LEMMA FewerKeeps ==
  ASSUME NEW q \in Seq(Job), NEW t \in Seq(Job), NEW o, Fewer(q, t, o)
  PROVE  /\ \A op : op # "none" /\ Has(t, o, op) => Has(q, o, op)
         /\ o \in Players /\ Named(t, o) => Named(q, o)
         /\ \A op : op # "none" /\ Once(q, o, op) => Once(t, o, op)
         /\ \A S : Only(q, o, S) => Only(t, o, S)
         /\ LeaveLast(q, o) => LeaveLast(t, o)
         /\ o \in Players /\ OneView(q, o) => OneView(t, o)
<1>1. PICK k \in Nat : \A i \in DOMAIN t :
        t[i].obj = o /\ (t[i].held \/ t[i].op # "none") =>
          /\ i + k \in DOMAIN q /\ q[i + k].obj = o /\ q[i + k].op = t[i].op
          /\ t[i].held => q[i + k].held
          /\ o \in Players => q[i + k].held = t[i].held
  BY DEF Fewer
<1>2. \A i \in DOMAIN t : i \in Int
  BY IndexIs
<1>3. \A i, j \in DOMAIN t : (i + k = j + k => i = j) /\ (i + k < j + k => i < j)
  BY <1>2
<1>4. ASSUME NEW op, op # "none", Has(t, o, op) PROVE Has(q, o, op)
  BY <1>1, <1>4 DEF Has
<1>5. ASSUME o \in Players, Named(t, o) PROVE Named(q, o)
  BY <1>1, <1>5 DEF Named
<1>6. ASSUME NEW op, op # "none", Once(q, o, op) PROVE Once(t, o, op)
  BY <1>1, <1>3, <1>6 DEF Once
<1>7. ASSUME NEW S, Only(q, o, S) PROVE Only(t, o, S)
  BY <1>1, <1>7 DEF Only
<1>8. ASSUME LeaveLast(q, o) PROVE LeaveLast(t, o)
  <2> SUFFICES ASSUME NEW i \in DOMAIN t, NEW j \in DOMAIN t, t[i].obj = o, t[j].obj = o, t[i].op = "leave",
                      t[j].op \in Acts \cup {"leave"}, i # j
               PROVE  j < i
    BY DEF LeaveLast
  <2>1. t[i].op # "none" /\ t[j].op # "none"
    BY DEF Acts
  <2>2. i + k \in DOMAIN q /\ j + k \in DOMAIN q /\ q[i + k].obj = o /\ q[j + k].obj = o
        /\ q[i + k].op = "leave" /\ q[j + k].op \in Acts \cup {"leave"}
    BY <1>1, <2>1
  <2>3. j + k < i + k
    BY <1>3, <1>8, <2>2 DEF LeaveLast
  <2> QED BY <1>3, <2>3
<1>9. ASSUME o \in Players, OneView(q, o) PROVE OneView(t, o)
  <2>1. \A i \in DOMAIN t : t[i].obj = o /\ t[i].op = "tick" => t[i].held
    BY <1>1, <1>9 DEF OneView
  <2>2. \A i, j \in DOMAIN t : t[i].obj = o /\ t[j].obj = o /\ t[i].held /\ t[j].held => i = j
    BY <1>1, <1>3, <1>9 DEF OneView
  <2> QED BY <2>1, <2>2 DEF OneView
<1> QED BY <1>4, <1>5, <1>6, <1>7, <1>8, <1>9

\* The first job taken leaves fewer jobs of anybody.
LEMMA FewerTail ==
  ASSUME NEW q \in Seq(Job), q # <<>>, NEW o
  PROVE  /\ Fewer(q, Tail(q), o)
         /\ (q[1].obj # o \/ q[1].op # "leave") => Follows(q, Tail(q), o)
<1>1. Fewer(q, Tail(q), o)
  BY TailIs, 1 \in Nat DEF Fewer
<1>2. ASSUME q[1].obj # o \/ q[1].op # "leave", Has(q, o, "leave") PROVE Has(Tail(q), o, "leave")
  <2>1. PICK i \in DOMAIN q : q[i].obj = o /\ q[i].op = "leave"
    BY <1>2 DEF Has
  <2>2. i - 1 \in DOMAIN Tail(q) /\ Tail(q)[i - 1] = q[i]
    BY <1>2, <2>1, TailIs
  <2> QED BY <2>1, <2>2 DEF Has
<1> QED BY <1>1, <1>2 DEF Follows

\* So does a change in place that empties jobs or takes the handle of monsters away.
LEMMA FewerSame ==
  ASSUME NEW q \in Seq(Job), NEW t \in Seq(Job), NEW o, DOMAIN t = DOMAIN q,
         \A i \in DOMAIN q : t[i].obj = q[i].obj,
         \A i \in DOMAIN q : q[i].obj = o =>
           \/ t[i] = q[i]
           \/ q[i].held /\ ~t[i].held /\ t[i].op = "none"
           \/ q[i].held /\ ~t[i].held /\ t[i].op = q[i].op /\ o \notin Players,
         \A i \in DOMAIN q : q[i].held => q[i].op = "tick"
  PROVE  Follows(q, t, o)
<1>1. \A i \in DOMAIN t : i + 0 = i
  BY IndexIs
<1>2. Fewer(q, t, o)
  <2>1. \A i \in DOMAIN t : t[i].obj = o /\ (t[i].held \/ t[i].op # "none") =>
          /\ i \in DOMAIN q /\ q[i].obj = o /\ q[i].op = t[i].op
          /\ t[i].held => q[i].held
          /\ o \in Players => q[i].held = t[i].held
    OBVIOUS
  <2> QED BY <1>1, <2>1, 0 \in Nat DEF Fewer
<1>3. Has(q, o, "leave") => Has(t, o, "leave")
  BY DEF Has
<1> QED BY <1>2, <1>3 DEF Follows

\* A job pushed for another, too.
LEMMA FewerAppend ==
  ASSUME NEW q \in Seq(Job), NEW j \in Job, NEW o, j.obj # o
  PROVE  Follows(q, Append(q, j), o)
<1> DEFINE t == Append(q, j)
<1>1. /\ DOMAIN q = 1 .. Len(q) /\ DOMAIN t = 1 .. Len(q) + 1 /\ Len(q) \in Nat
      /\ \A i \in 1 .. Len(q) : t[i] = q[i]
      /\ t[Len(q) + 1] = j
  BY AppendIs
<1> HIDE DEF t
<1>2. \A i \in DOMAIN t : t[i].obj = o => i \in DOMAIN q /\ t[i] = q[i] /\ i + 0 = i
  BY <1>1
<1>3. \A i \in DOMAIN q : i \in DOMAIN t /\ t[i] = q[i]
  BY <1>1
<1>4. Fewer(q, t, o)
  BY <1>2, 0 \in Nat DEF Fewer
<1> QED BY <1>3, <1>4 DEF Follows, Has, t

\* A queue follows itself, and what follows it.
LEMMA FollowsTwice ==
  ASSUME NEW q \in Seq(Job), NEW t \in Seq(Job), NEW u \in Seq(Job), NEW o
  PROVE  /\ Follows(q, q, o)
         /\ Fewer(q, t, o) /\ Fewer(t, u, o) => Fewer(q, u, o)
         /\ Follows(q, t, o) /\ Follows(t, u, o) => Follows(q, u, o)
<1>1. Follows(q, q, o)
  BY IndexIs, 0 \in Nat DEF Follows, Fewer
<1>2. ASSUME Fewer(q, t, o), Fewer(t, u, o) PROVE Fewer(q, u, o)
  <2>1. PICK k \in Nat : \A i \in DOMAIN t :
          t[i].obj = o /\ (t[i].held \/ t[i].op # "none") =>
            /\ i + k \in DOMAIN q /\ q[i + k].obj = o /\ q[i + k].op = t[i].op
            /\ t[i].held => q[i + k].held
            /\ o \in Players => q[i + k].held = t[i].held
    BY <1>2 DEF Fewer
  <2>2. PICK l \in Nat : \A i \in DOMAIN u :
          u[i].obj = o /\ (u[i].held \/ u[i].op # "none") =>
            /\ i + l \in DOMAIN t /\ t[i + l].obj = o /\ t[i + l].op = u[i].op
            /\ u[i].held => t[i + l].held
            /\ o \in Players => t[i + l].held = u[i].held
    BY <1>2 DEF Fewer
  <2>3. PICK n \in Nat : n = l + k
    OBVIOUS
  <2>4. \A i \in DOMAIN u : (i + l) + k = i + n
    BY <2>3, IndexIs
  <2>5. ASSUME NEW i \in DOMAIN u, u[i].obj = o, u[i].held \/ u[i].op # "none"
        PROVE  /\ i + n \in DOMAIN q /\ q[i + n].obj = o /\ q[i + n].op = u[i].op
               /\ u[i].held => q[i + n].held
               /\ o \in Players => q[i + n].held = u[i].held
    <3>1. /\ i + l \in DOMAIN t /\ t[i + l].obj = o /\ t[i + l].op = u[i].op
          /\ u[i].held => t[i + l].held
          /\ o \in Players => t[i + l].held = u[i].held
      BY <2>2, <2>5, Zenon
    <3>2. t[i + l].held \/ t[i + l].op # "none"
      BY <2>5, <3>1
    <3> HIDE <2>3
    <3>3. /\ (i + l) + k \in DOMAIN q /\ q[(i + l) + k].obj = o /\ q[(i + l) + k].op = t[i + l].op
          /\ t[i + l].held => q[(i + l) + k].held
          /\ o \in Players => q[(i + l) + k].held = t[i + l].held
      BY <2>1, <3>1, <3>2, Zenon
    <3>4. (i + l) + k = i + n
      BY <2>4
    <3> QED BY <3>1, <3>3, <3>4, Zenon
  <2> QED BY <2>5, Zenon DEF Fewer
<1> QED BY <1>1, <1>2 DEF Follows

-----------------------------------------------------------------------------
(* Where everybody is: what is sound about a place and its jobs, and what  *)
(* leaves it as it is.                                                     *)

\* Where an actor stands is told alike by the grid, his position and the Zones.
Stands(r, o) ==
  /\ \A c \in Cell : r.grid[c] = o <=> o \in r.present /\ r.cell[o] = c
  /\ o \in Players => \A z \in Zone : o \in r.zone[z] <=> o \in r.present /\ z = ZoneOf(r.cell[o])

\* An arrow on the grid is where it is, and one that will leave is there.
Shot(r, a) ==
  /\ \A c \in Cell : r.grid[c] = a => r.cell[a] = c /\ a \in r.used
  /\ a \in r.inRoom \/ Has(r.queue, a, "leave") => a \in r.present

\* An actor enters when he is outside, and once.
Entered(r, o) ==
  /\ Has(r.queue, o, "enter") => o \notin r.inRoom
  /\ Once(r.queue, o, "enter")
  /\ o \in r.present => o \in r.inRoom
  /\ o \in Monsters => Only(r.queue, o, {"enter", "tick"}) /\ (o \in r.inRoom => o \in r.present)

\* A player in the room, and no other, has an update of his view to come at most once,
\* under the handle.
Viewed(r, p) ==
  /\ r.stray[p] = 0 /\ OneView(r.queue, p)
  /\ p \in r.held => ~Named(r.queue, p)
  /\ p \in r.held \/ Named(r.queue, p) => p \in r.present

\* A player who has not joined; whose Leave is not pushed yet; and whose Leave is.
NotYet(r, p) == p \notin r.inRoom /\ Only(r.queue, p, {"leave"})
Staying(r, p) == ~Has(r.queue, p, "leave") /\ (p \in r.inRoom => p \in r.present)
Departing(r, p) ==
  /\ LeaveLast(r.queue, p)
  /\ p \in r.present \/ (\E op \in Acts : Has(r.queue, p, op)) => Has(r.queue, p, "leave")
  /\ p \in r.inRoom /\ p \notin r.present => ~Has(r.queue, p, "leave")

\* The same of one whom OnDeadAnim has taken out and not yet brought back.
Out(r, p) == p \in r.inRoom /\ p \notin r.present
OutStaying(r, p) == ~Has(r.queue, p, "leave") /\ Out(r, p)
OutDeparting(r, p) == LeaveLast(r.queue, p) /\ Has(r.queue, p, "leave") /\ Out(r, p)

\* Nothing about where o is has changed; nothing about its jobs but that some are gone.
PlaceAside(r, s, o) ==
  /\ o \in s.present <=> o \in r.present
  /\ o \in s.inRoom <=> o \in r.inRoom
  /\ s.cell[o] = r.cell[o]
  /\ \A c \in Cell : s.grid[c] = o <=> r.grid[c] = o
  /\ o \in Players => \A z \in Zone : o \in s.zone[z] <=> o \in r.zone[z]
JobAside(r, s, o) ==
  /\ Follows(r.queue, s.queue, o)
  /\ o \in Players => s.stray[o] = r.stray[o] /\ (o \in s.held => o \in r.held)
Untouched(r, s, o) ==
  PlaceAside(r, s, o) /\ JobAside(r, s, o) /\ (o \in Arrows /\ o \in r.used => o \in s.used)

\* The queue of a room.
LEMMA QueueIs == ASSUME NEW r \in RoomType PROVE r.queue \in Seq(Job)
BY RoomIs

\* Then what holds of o still holds.
LEMMA UntouchedKeeps ==
  ASSUME NEW r \in RoomType, NEW s \in RoomType, NEW o, Untouched(r, s, o)
  PROVE  /\ Stands(r, o) => Stands(s, o)
         /\ Entered(r, o) => Entered(s, o)
         /\ o \in Arrows /\ Shot(r, o) => Shot(s, o)
         /\ o \in Players /\ Viewed(r, o) => Viewed(s, o)
         /\ NotYet(r, o) => NotYet(s, o)
         /\ Staying(r, o) => Staying(s, o)
         /\ Departing(r, o) => Departing(s, o)
<1>1. PlaceAside(r, s, o) /\ Follows(r.queue, s.queue, o) /\ Fewer(r.queue, s.queue, o)
  BY DEF Untouched, JobAside, Follows
<1>2. r.queue \in Seq(Job) /\ s.queue \in Seq(Job)
  BY QueueIs
<1>3. PICK q, t : q = r.queue /\ t = s.queue
  OBVIOUS
<1>4. q \in Seq(Job) /\ t \in Seq(Job) /\ Fewer(q, t, o)
  BY <1>1, <1>2, <1>3
<1>5. /\ \A op : op # "none" /\ Has(t, o, op) => Has(q, o, op)
      /\ o \in Players /\ Named(t, o) => Named(q, o)
      /\ \A op : op # "none" /\ Once(q, o, op) => Once(t, o, op)
      /\ \A S : Only(q, o, S) => Only(t, o, S)
      /\ LeaveLast(q, o) => LeaveLast(t, o)
      /\ o \in Players /\ OneView(q, o) => OneView(t, o)
  BY <1>4, FewerKeeps
<1>6. Has(t, o, "leave") <=> Has(q, o, "leave")
  BY <1>1, <1>3, <1>5 DEF Follows
<1>7. \A op \in Acts : Has(t, o, op) => Has(q, o, op)
  BY <1>5 DEF Acts
<1>8. Stands(r, o) => Stands(s, o)
  BY <1>1 DEF Stands, PlaceAside
<1>9. Entered(r, o) => Entered(s, o)
  <2>1. "enter" # "none"
    OBVIOUS
  <2> QED BY <1>1, <1>3, <1>5, <2>1, Zenon DEF Entered, PlaceAside
<1>10. o \in Arrows /\ Shot(r, o) => Shot(s, o)
  BY <1>1, <1>3, <1>6 DEF Shot, PlaceAside, Untouched
<1>11. o \in Players /\ Viewed(r, o) => Viewed(s, o)
  BY <1>1, <1>3, <1>5 DEF Viewed, PlaceAside, Untouched, JobAside
<1>12. NotYet(r, o) => NotYet(s, o)
  BY <1>1, <1>3, <1>5 DEF NotYet, PlaceAside
<1>13. Staying(r, o) => Staying(s, o)
  BY <1>1, <1>3, <1>6 DEF Staying, PlaceAside
<1>14. Departing(r, o) => Departing(s, o)
  BY <1>1, <1>3, <1>5, <1>6, <1>7 DEF Departing, PlaceAside
<1> QED BY <1>8, <1>9, <1>10, <1>11, <1>12, <1>13, <1>14

\* Two such changes are one.
LEMMA UntouchedTwice ==
  ASSUME NEW r \in RoomType, NEW s \in RoomType, NEW t \in RoomType, NEW o
  PROVE  /\ PlaceAside(r, s, o) /\ PlaceAside(s, t, o) => PlaceAside(r, t, o)
         /\ JobAside(r, s, o) /\ JobAside(s, t, o) => JobAside(r, t, o)
         /\ Untouched(r, s, o) /\ Untouched(s, t, o) => Untouched(r, t, o)
<1>1. PlaceAside(r, s, o) /\ PlaceAside(s, t, o) => PlaceAside(r, t, o)
  BY DEF PlaceAside
<1>2. JobAside(r, s, o) /\ JobAside(s, t, o) => JobAside(r, t, o)
  <2>1. r.queue \in Seq(Job) /\ s.queue \in Seq(Job) /\ t.queue \in Seq(Job)
    BY QueueIs
  <2>2. Follows(r.queue, s.queue, o) /\ Follows(s.queue, t.queue, o) => Follows(r.queue, t.queue, o)
    BY <2>1, FollowsTwice
  <2> QED BY <2>2 DEF JobAside
<1> QED BY <1>1, <1>2 DEF Untouched

\* Nothing is one.
LEMMA SameAside ==
  ASSUME NEW r \in RoomType, NEW s, NEW o
  PROVE  /\ PlaceOf(s) = PlaceOf(r) => PlaceAside(r, s, o)
         /\ JobsOf(s) = JobsOf(r) => JobAside(r, s, o)
         /\ PlaceOf(s) = PlaceOf(r) /\ JobsOf(s) = JobsOf(r) /\ FlightOf(s) = FlightOf(r)
              => Untouched(r, s, o)
<1>1. Follows(r.queue, r.queue, o)
  BY QueueIs, FollowsTwice
<1>2. PlaceOf(s) = PlaceOf(r) => PlaceAside(r, s, o)
  BY DEF PlaceOf, PlaceAside
<1>3. JobsOf(s) = JobsOf(r) => JobAside(r, s, o)
  BY <1>1 DEF JobsOf, JobAside
<1> QED BY <1>2, <1>3 DEF Untouched, FlightOf

\* Who moves, comes in or leaves puts no other elsewhere.
LEMMA MovesAside ==
  ASSUME NEW r \in RoomType, NEW x \in Object, NEW o \in Object, o # x, NEW s, Moves(r, x, s)
  PROVE  PlaceAside(r, s, o)
<1>0. /\ r.cell \in [Object -> Cell] /\ r.grid \in [Cell -> Object \cup {None}]
      /\ r.zone \in [Zone -> SUBSET Object] /\ o # None
  BY RoomIs, ObjectIs
<1>1. s.present = r.present /\ s.inRoom = r.inRoom
  BY DEF Moves
<1>2. CASE s.cell = r.cell /\ s.grid = r.grid /\ s.zone = r.zone
  BY <1>1, <1>2 DEF PlaceAside
<1>3. ASSUME NEW c \in Cell, MayMove(r, x, c), s.cell = [r.cell EXCEPT ![x] = c],
             s.grid = MovedGrid(r, x, c), s.zone = MovedZone(r, x, c)
      PROVE  PlaceAside(r, s, o)
  <2>1. s.cell[o] = r.cell[o] /\ r.grid[c] = None
    BY <1>0, <1>3 DEF MayMove, CanGo
  <2>2. \A d \in Cell : s.grid[d] = o <=> r.grid[d] = o
    BY <1>0, <1>3, <2>1 DEF MovedGrid
  <2>3. \A z \in Zone : o \in s.zone[z] <=> o \in r.zone[z]
    BY <1>0, <1>3 DEF MovedZone
  <2> QED BY <1>1, <2>1, <2>2, <2>3 DEF PlaceAside
<1> QED BY <1>2, <1>3 DEF Moves

\* So it is when somebody comes in.
LEMMA ArrivesAside ==
  ASSUME NEW r \in RoomType, NEW x \in Object, NEW o \in Object, o # x, NEW pos \in RandomCells(r),
         NEW s, Arrives(r, x, pos, s)
  PROVE  PlaceAside(r, s, o)
<1>0. /\ r.cell \in [Object -> Cell] /\ r.grid \in [Cell -> Object \cup {None}]
      /\ r.zone \in [Zone -> SUBSET Object] /\ o # None /\ r.grid[pos] = None /\ pos \in Cell
  BY RoomIs, ObjectIs DEF RandomCells, CanGo
<1>1. s.cell[o] = r.cell[o] /\ \A d \in Cell : s.grid[d] = o <=> r.grid[d] = o
  BY <1>0 DEF Arrives
<1>2. \A z \in Zone : o \in s.zone[z] <=> o \in r.zone[z]
  BY <1>0 DEF Arrives
<1> QED BY <1>1, <1>2 DEF Arrives, PlaceAside

\* And when somebody leaves.
LEMMA LeavesPlaces ==
  ASSUME NEW r \in RoomType, NEW x \in Object, NEW o \in Object, o # x, NEW s, Leaves(r, x, s)
  PROVE  PlaceAside(r, s, o)
<1>0. /\ r.cell \in [Object -> Cell] /\ r.grid \in [Cell -> Object \cup {None}]
      /\ r.zone \in [Zone -> SUBSET Object] /\ o # None
  BY RoomIs, ObjectIs
<1>1. s.cell = r.cell /\ (o \in s.present <=> o \in r.present) /\ (o \in s.inRoom <=> o \in r.inRoom)
  BY DEF Leaves
<1>2. CASE x \notin r.inRoom
  BY <1>1, <1>2 DEF Leaves, PlaceAside
<1>3. CASE x \in r.inRoom
  <2>1. s.grid = LeftGrid(r, x) /\ s.zone = LeftZone(r, x)
    BY <1>3 DEF Leaves
  <2>2. \A d \in Cell : s.grid[d] = o <=> r.grid[d] = o
    BY <1>0, <2>1 DEF LeftGrid
  <2>3. \A z \in Zone : o \in s.zone[z] <=> o \in r.zone[z]
    BY <1>0, <2>1 DEF LeftZone
  <2> QED BY <1>1, <2>2, <2>3 DEF PlaceAside
<1> QED BY <1>2, <1>3

\* A change of the reserved jobs of x is none for another, none for a monster, and none
\* for a player who has no such job.
LEMMA TouchedAside ==
  ASSUME NEW r \in RoomType, NEW s \in RoomType, HeldTicks(r), NEW x \in Object, Touched(r, x, s),
         NEW o \in Object, x \in Players => o # x \/ ~Looked(r, x)
  PROVE  /\ Follows(r.queue, s.queue, o)
         /\ o \in Players => s.stray[o] = r.stray[o]
         /\ o # x => JobAside(r, s, o)
         /\ o \in Monsters => JobAside(r, s, o)
<1>1. r.queue \in Seq(Job) /\ s.queue \in Seq(Job)
  BY QueueIs
<1>2. PICK q, t : q = r.queue /\ t = s.queue
  OBVIOUS
<1>3. /\ DOMAIN t = DOMAIN q /\ \A i \in DOMAIN q : t[i].obj = q[i].obj
      /\ \A i \in DOMAIN q : q[i].held => q[i].op = "tick"
      /\ q \in Seq(Job) /\ t \in Seq(Job)
  BY <1>1, <1>2 DEF Touched, HeldTicks
<1>4. ASSUME NEW i \in DOMAIN q, q[i].obj = o
      PROVE  \/ t[i] = q[i]
             \/ q[i].held /\ ~t[i].held /\ t[i].op = "none"
             \/ q[i].held /\ ~t[i].held /\ t[i].op = q[i].op /\ o \notin Players
  <2>1. /\ (q[i].obj # x \/ ~q[i].held) => t[i] = q[i]
        /\ t[i].held => t[i] = q[i]
        /\ t[i].op \in {q[i].op, "none"}
    BY <1>2 DEF Touched
  <2>2. CASE o = x /\ q[i].held
    <3>1. o \notin Players
      BY <1>2, <1>4, <2>2 DEF Looked, Named
    <3> QED BY <2>1, <2>2, <3>1
  <2> QED BY <1>4, <2>1, <2>2
<1>5. Follows(q, t, o)
  BY <1>3, <1>4, FewerSame
<1>6. /\ o # x => s.stray[o] = r.stray[o]
      /\ o # x => (o \in s.held => o \in r.held)
      /\ x \notin r.held => s.stray[x] = r.stray[x]
  BY DEF Touched
<1>7. o \in Players => s.stray[o] = r.stray[o]
  BY <1>6 DEF Looked
<1>8. o \in Monsters => o \notin Players
  BY ObjectIs
<1> QED BY <1>2, <1>5, <1>6, <1>7, <1>8 DEF JobAside

\* A job pushed for one changes nothing for another.
LEMMA PushAside ==
  ASSUME NEW r \in RoomType, NEW s \in RoomType, NEW j \in Job, s.queue = Append(r.queue, j),
         NEW o, j.obj # o, o \in Players => s.stray[o] = r.stray[o] /\ (o \in s.held => o \in r.held)
  PROVE  JobAside(r, s, o)
<1>1. PICK q : q = r.queue
  OBVIOUS
<1>2. q \in Seq(Job)
  BY <1>1, QueueIs
<1>3. Follows(q, Append(q, j), o)
  BY <1>2, FewerAppend
<1> QED BY <1>1, <1>3 DEF JobAside

\* A job that runs is taken from the queue: that changes nothing either, but for a Leave.
LEMMA PoppedAside ==
  ASSUME NEW r \in RoomType, r.queue # <<>>, NEW s, s = Popped(r), NEW o
  PROVE  /\ (r.queue[1].obj # o \/ r.queue[1].op # "leave") => Untouched(r, s, o)
         /\ Fewer(r.queue, s.queue, o)
<1>1. /\ s \in RoomType /\ s.queue = Tail(r.queue) /\ s.held = r.held /\ s.stray = r.stray
      /\ PlaceOf(s) = PlaceOf(r) /\ FlightOf(s) = FlightOf(r)
  BY PoppedDoes
<1>2. PICK q : q = r.queue
  OBVIOUS
<1>3. q \in Seq(Job) /\ q # <<>>
  BY <1>2, QueueIs
<1>4. Fewer(q, Tail(q), o) /\ ((q[1].obj # o \/ q[1].op # "leave") => Follows(q, Tail(q), o))
  BY <1>3, FewerTail
<1>5. PlaceAside(r, s, o)
  BY <1>1, SameAside
<1>6. s.used = r.used
  BY <1>1 DEF FlightOf
<1> QED BY <1>1, <1>2, <1>4, <1>5, <1>6 DEF Untouched, JobAside

\* What the job that was taken tells about those that are left.
LEMMA TailTells ==
  ASSUME NEW q \in Seq(Job), q # <<>>, NEW o, q[1].obj = o
  PROVE  /\ Has(q, o, q[1].op)
         /\ q[1].op = "enter" /\ Once(q, o, "enter") => ~Has(Tail(q), o, "enter")
         /\ q[1].held /\ OneView(q, o) => ~Named(Tail(q), o) /\ Named(q, o)
         /\ q[1].op = "leave" /\ LeaveLast(q, o) =>
              ~Has(Tail(q), o, "leave") /\ \A op \in Acts : ~Has(Tail(q), o, op)
<1>1. 1 \in DOMAIN q /\ \A i \in DOMAIN Tail(q) : i \in Int /\ i + 1 \in DOMAIN q /\ Tail(q)[i] = q[i + 1]
  BY TailIs
<1>2. \A i \in DOMAIN Tail(q) : i + 1 # 1 /\ ~(i + 1 < 1)
  BY TailIs
<1>3. q[1].op = "enter" /\ Once(q, o, "enter") => ~Has(Tail(q), o, "enter")
  BY <1>1, <1>2 DEF Once, Has
<1>4. q[1].held /\ OneView(q, o) => ~Named(Tail(q), o) /\ Named(q, o)
  BY <1>1, <1>2 DEF OneView, Named
<1>5. ASSUME q[1].op = "leave", LeaveLast(q, o), NEW op \in Acts \cup {"leave"} PROVE ~Has(Tail(q), o, op)
  BY <1>1, <1>2, <1>5 DEF LeaveLast, Has
<1>6. Has(q, o, q[1].op)
  BY <1>1 DEF Has
<1> QED BY <1>3, <1>4, <1>5, <1>6

\* A job that is cancelled changes nothing for anybody, and its object has none under
\* the handle any more.
LEMMA EmptiedAside ==
  ASSUME NEW r \in RoomType, NEW s \in RoomType, HeldTicks(r), NEW x \in Object,
         s.queue = Emptied(r.queue, x), s.held = r.held \ {x}, NEW o,
         o \in Players => s.stray[o] = r.stray[o]
  PROVE  JobAside(r, s, o) /\ ~Looked(s, x)
<1>1. PICK q, t : q = r.queue /\ t = Emptied(q, x)
  OBVIOUS
<1>2. q \in Seq(Job) /\ t = s.queue
  BY <1>1, QueueIs
<1>3. /\ t \in Seq(Job) /\ DOMAIN t = DOMAIN q
      /\ \A i \in DOMAIN q :
           /\ t[i].obj = q[i].obj
           /\ t[i] = IF q[i].obj = x /\ q[i].held THEN NewJob("none", x) ELSE q[i]
  BY <1>1, <1>2, EmptiedIs
<1>4. NewJob("none", x).held = FALSE /\ NewJob("none", x).op = "none"
  BY DEF NewJob
<1>5. \A i \in DOMAIN q : q[i].held => q[i].op = "tick"
  BY <1>1 DEF HeldTicks
<1>6. Follows(q, t, o)
  <2>1. \A i \in DOMAIN q : q[i].obj = o =>
          \/ t[i] = q[i]
          \/ q[i].held /\ ~t[i].held /\ t[i].op = "none"
          \/ q[i].held /\ ~t[i].held /\ t[i].op = q[i].op /\ o \notin Players
    BY <1>3, <1>4
  <2> QED BY <1>2, <1>3, <1>5, <2>1, FewerSame
<1>7. ~Named(t, x)
  BY <1>3, <1>4 DEF Named
<1> QED BY <1>1, <1>2, <1>6, <1>7 DEF JobAside, Looked

-----------------------------------------------------------------------------
(* The operators of Room put nobody in two places.                         *)

\* Who moves, comes in or leaves is told alike before and after.
LEMMA MovesStands ==
  ASSUME NEW r \in RoomType, NEW x \in Object, NEW s, Moves(r, x, s), Stands(r, x),
         x \in r.inRoom => x \in r.present
  PROVE  Stands(s, x)
<1>0. /\ r.cell \in [Object -> Cell] /\ r.grid \in [Cell -> Object \cup {None}]
      /\ r.zone \in [Zone -> SUBSET Object] /\ x # None
  BY RoomIs, ObjectIs
<1>1. s.present = r.present /\ s.inRoom = r.inRoom
  BY DEF Moves
<1>2. CASE s.cell = r.cell /\ s.grid = r.grid /\ s.zone = r.zone
  BY <1>1, <1>2 DEF Stands
<1>3. ASSUME NEW c \in Cell, MayMove(r, x, c), s.cell = [r.cell EXCEPT ![x] = c],
             s.grid = MovedGrid(r, x, c), s.zone = MovedZone(r, x, c)
      PROVE  Stands(s, x)
  <2>1. x \in r.present /\ s.cell[x] = c /\ r.cell[x] \in Cell
    BY <1>0, <1>3 DEF MayMove
  <2>2. \A d \in Cell : s.grid[d] = x <=> c = d
    <3>1. \A d \in Cell : r.grid[d] = x <=> r.cell[x] = d
      BY <2>1 DEF Stands
    <3> QED BY <1>0, <1>3, <2>1, <3>1 DEF MovedGrid
  <2>3. x \in Players => \A z \in Zone : x \in s.zone[z] <=> z = ZoneOf(c)
    <3>1. x \in Players => \A z \in Zone : x \in r.zone[z] <=> z = ZoneOf(r.cell[x])
      BY <2>1 DEF Stands
    <3>2. ZoneOf(c) \in Zone /\ ZoneOf(r.cell[x]) \in Zone
      BY <2>1, CellsAreZoned
    <3>3. PICK b, e : b = ZoneOf(r.cell[x]) /\ e = ZoneOf(c)
      OBVIOUS
    <3> QED BY <1>0, <1>3, <3>1, <3>2, <3>3 DEF MovedZone
  <2> QED BY <1>1, <2>1, <2>2, <2>3 DEF Stands
<1> QED BY <1>2, <1>3 DEF Moves

\* Who comes in is on his cell and in its Zone; nobody else is moved.
LEMMA ArrivesStands ==
  ASSUME NEW r \in RoomType, NEW x \in Object, NEW pos \in RandomCells(r), NEW s,
         Arrives(r, x, pos, s), Stands(r, x), x \notin r.present
  PROVE  Stands(s, x) /\ x \in s.present /\ x \in s.inRoom
<1>0. /\ r.cell \in [Object -> Cell] /\ r.grid \in [Cell -> Object \cup {None}]
      /\ r.zone \in [Zone -> SUBSET Object] /\ pos \in Cell
  BY RoomIs, ObjectIs DEF RandomCells, CanGo
<1>1. s.cell[x] = pos /\ x \in s.present /\ x \in s.inRoom
  BY <1>0 DEF Arrives
<1>2. \A d \in Cell : s.grid[d] = x <=> pos = d
  BY <1>0 DEF Arrives, Stands
<1>3. x \in Players => \A z \in Zone : x \in s.zone[z] <=> z = ZoneOf(pos)
  <2>1. PICK e : e = ZoneOf(pos)
    OBVIOUS
  <2> QED BY <1>0, <2>1 DEF Arrives, Stands
<1> QED BY <1>1, <1>2, <1>3 DEF Stands

\* Who leaves is on no cell and in no Zone.
LEMMA LeavesStands ==
  ASSUME NEW r \in RoomType, NEW x \in Object, NEW s, Leaves(r, x, s), Stands(r, x), x \in r.present,
         x \in r.inRoom
  PROVE  Stands(s, x) /\ x \notin s.present
<1>0. /\ r.cell \in [Object -> Cell] /\ r.grid \in [Cell -> Object \cup {None}]
      /\ r.zone \in [Zone -> SUBSET Object] /\ r.cell[x] \in Cell /\ x # None
  BY RoomIs, ObjectIs
<1>1. s.grid = LeftGrid(r, x) /\ s.zone = LeftZone(r, x) /\ x \notin s.present
  BY DEF Leaves
<1>2. \A d \in Cell : s.grid[d] # x
  BY <1>0, <1>1 DEF LeftGrid, Stands
<1>3. x \in Players => \A z \in Zone : x \notin s.zone[z]
  <2>1. PICK e : e = ZoneOf(r.cell[x])
    OBVIOUS
  <2>2. x \in Players => x \notin Monsters
    BY ObjectIs
  <2> QED BY <1>0, <1>1, <2>1, <2>2 DEF LeftZone, Stands
<1> QED BY <1>1, <1>2, <1>3 DEF Stands

\* What holds of each object but those of R, whose OnDeadAnim was overtaken.  L are the
\* players with a job pushed after their Leave.
SoundFor(r, L, o) ==
  /\ o \in Arrows => Shot(r, o)
  /\ o \in Actor => Entered(r, o) /\ (o \notin L => Stands(r, o))
  /\ o \in Players => Viewed(r, o)
Sound(r, L, R) == \A o \in Object \ R : SoundFor(r, L, o)

\* What a job keeps of it, whichever of it holds.
Stays(r, s, L, o) ==
  o \in Players =>
    /\ NotYet(r, o) => NotYet(s, o)
    /\ Staying(r, o) => Staying(s, o)
    /\ o \notin L /\ Departing(r, o) => Departing(s, o)

\* What no step changes of one who is in OnDeadAnim, or it has overtaken it.
Kept(r, s, o) ==
  /\ ~Has(r.queue, o, "enter") => ~Has(s.queue, o, "enter")
  /\ Has(s.queue, o, "leave") <=> Has(r.queue, o, "leave")
  /\ LeaveLast(r.queue, o) => LeaveLast(s.queue, o)
  /\ (o \in s.present <=> o \in r.present) /\ (o \in s.inRoom <=> o \in r.inRoom)

\* Jobs that change only that there are fewer of o, and no Leave less.
LEMMA FollowsKept ==
  ASSUME NEW r \in RoomType, NEW s \in RoomType, NEW o, Follows(r.queue, s.queue, o),
         o \in s.present <=> o \in r.present, o \in s.inRoom <=> o \in r.inRoom
  PROVE  Kept(r, s, o)
<1>1. PICK q, t : q = r.queue /\ t = s.queue
  OBVIOUS
<1>2. /\ q \in Seq(Job) /\ t \in Seq(Job) /\ Fewer(q, t, o) /\ "enter" # "none" /\ "leave" # "none"
      /\ Has(q, o, "leave") => Has(t, o, "leave")
  BY <1>1, QueueIs DEF Follows
<1>3. /\ Has(t, o, "enter") => Has(q, o, "enter")
      /\ Has(t, o, "leave") => Has(q, o, "leave")
      /\ LeaveLast(q, o) => LeaveLast(t, o)
  BY <1>2, FewerKeeps
<1> QED BY <1>1, <1>2, <1>3 DEF Kept

\* Who is left alone.
LEMMA UntouchedSound ==
  ASSUME NEW r \in RoomType, NEW s \in RoomType, NEW L, NEW o, Untouched(r, s, o)
  PROVE  /\ SoundFor(r, L, o) => SoundFor(s, L, o)
         /\ Stays(r, s, L, o) /\ Kept(r, s, o)
<1>1. Follows(r.queue, s.queue, o) /\ (o \in s.present <=> o \in r.present) /\ (o \in s.inRoom <=> o \in r.inRoom)
  BY DEF Untouched, JobAside, PlaceAside
<1>2. Kept(r, s, o)
  BY <1>1, FollowsKept
<1> QED BY <1>2, UntouchedKeeps DEF SoundFor, Stays

\* And of what stays so twice, all stays.
LEMMA StaysTwice ==
  ASSUME NEW r, NEW s, NEW t, NEW L, NEW o, Stays(r, s, L, o), Stays(s, t, L, o)
  PROVE  Stays(r, t, L, o)
BY DEF Stays

\* And what is kept twice is kept.
LEMMA KeptTwice ==
  ASSUME NEW r, NEW s, NEW t, NEW o, Kept(r, s, o), Kept(s, t, o)
  PROVE  Kept(r, t, o)
BY DEF Kept

\* Enter of a player or monster touches no other.
LEMMA EnterAside ==
  ASSUME NEW r \in RoomType, HeldTicks(r), NEW x \in Actor, NEW s \in RoomType, ActorEnters(r, x, s),
         NEW o \in Object, o # x
  PROVE  Untouched(r, s, o)
<1>0. x \in Object
  BY ObjectIs
<1>1. PICK pos \in RandomCells(r) : \E w \in RoomType :
        Arrives(r, x, pos, w) /\ IF x \in Monsters THEN Moves(w, x, s) ELSE PlaceOf(s) = PlaceOf(w)
  BY DEF ActorEnters
<1>2. PICK w \in RoomType : Arrives(r, x, pos, w) /\ Moves(w, x, s)
  BY <1>1, SamePlace
<1>3. Touched(r, x, s) /\ s.used = r.used
  BY DEF ActorEnters, FlightOf
<1>4. PlaceAside(r, w, o)
  BY <1>0, <1>2, ArrivesAside
<1>5. PlaceAside(w, s, o)
  BY <1>0, <1>2, MovesAside
<1>6. PlaceAside(r, s, o)
  BY <1>4, <1>5, UntouchedTwice
<1>7. JobAside(r, s, o)
  BY <1>0, <1>3, TouchedAside
<1> QED BY <1>3, <1>6, <1>7 DEF Untouched

\* Enter of a player or monster who is outside.
LEMMA EnterSound ==
  ASSUME NEW r \in RoomType, HeldTicks(r), NEW L, NEW x \in Actor, SoundFor(r, L, x),
         x \notin r.present, ~Has(r.queue, x, "enter"), NEW s \in RoomType, ActorEnters(r, x, s)
  PROVE  /\ SoundFor(s, L, x) /\ x \in s.present /\ x \in s.inRoom
         /\ Follows(r.queue, s.queue, x)
<1>0. x \in Object /\ x \notin Arrows /\ (x \in Monsters \/ x \in Players)
  BY ObjectIs DEF Actor
<1>1. PICK pos \in RandomCells(r) : \E w \in RoomType :
        Arrives(r, x, pos, w) /\ IF x \in Monsters THEN Moves(w, x, s) ELSE PlaceOf(s) = PlaceOf(w)
  BY DEF ActorEnters
<1>2. PICK w \in RoomType : Arrives(r, x, pos, w) /\ Moves(w, x, s)
  BY <1>1, SamePlace
<1>3. Touched(r, x, s) /\ x \in s.held
  BY DEF ActorEnters
<1>4. x \in Players => ~Looked(r, x)
  BY DEF SoundFor, Viewed, Looked
<1>6. Follows(r.queue, s.queue, x) /\ (x \in Players => s.stray[x] = r.stray[x])
  BY <1>0, <1>3, <1>4, TouchedAside
<1>7. x \in w.present /\ x \in w.inRoom /\ (x \notin L => Stands(w, x))
  <2>1. x \in w.present /\ x \in w.inRoom
    BY <1>2 DEF Arrives
  <2> QED BY <1>0, <1>2, <2>1, ArrivesStands DEF SoundFor
<1>8. x \in s.present /\ x \in s.inRoom /\ (x \notin L => Stands(s, x))
  <2>1. s.present = w.present /\ s.inRoom = w.inRoom
    BY <1>2 DEF Moves
  <2> QED BY <1>0, <1>2, <1>7, <2>1, MovesStands
<1>9. PICK q, t : q = r.queue /\ t = s.queue
  OBVIOUS
<1>10. q \in Seq(Job) /\ t \in Seq(Job) /\ Fewer(q, t, x) /\ "enter" # "none"
  BY <1>6, <1>9, QueueIs DEF Follows
<1>11. /\ Has(t, x, "enter") => Has(q, x, "enter")
       /\ x \in Players /\ Named(t, x) => Named(q, x)
       /\ Once(q, x, "enter") => Once(t, x, "enter")
       /\ Only(q, x, {"enter", "tick"}) => Only(t, x, {"enter", "tick"})
       /\ x \in Players /\ OneView(q, x) => OneView(t, x)
  BY <1>10, FewerKeeps
<1>12. Entered(s, x)
  BY <1>8, <1>9, <1>11 DEF SoundFor, Entered
<1>13. x \in Players => Viewed(s, x)
  BY <1>4, <1>6, <1>8, <1>9, <1>11 DEF SoundFor, Viewed, Looked
<1> QED BY <1>0, <1>6, <1>8, <1>12, <1>13 DEF SoundFor

\* Leave of somebody who is there touches no other.
LEMMA LeaveAside ==
  ASSUME NEW r \in RoomType, HeldTicks(r), NEW x \in Object, x \in r.present, NEW s, s = Leave(r, x)
  PROVE  /\ s \in RoomType /\ s.fault = r.fault /\ HeldTicks(s)
         /\ \A o \in Object : o # x => Untouched(r, s, o)
         /\ x \notin s.present /\ Follows(r.queue, s.queue, x) /\ Leaves(r, x, s)
         /\ x \in Players => ~Looked(s, x) /\ s.stray = r.stray
<1>1. /\ s \in RoomType /\ Leaves(r, x, s) /\ LeavesJobs(r, x, s) /\ LeavesFlight(r, x, s)
  BY LeaveDoes
<1>2. s.used = r.used /\ s.fault = r.fault
  BY <1>1 DEF LeavesFlight, FlightOf
<1>3. x \in Players \/ JobsOf(s) = JobsOf(r)
  BY <1>1 DEF LeavesJobs
<1>4. ASSUME x \in Players PROVE s.queue = Emptied(r.queue, x) /\ s.held = r.held \ {x} /\ s.stray = r.stray
  BY <1>1, <1>4 DEF LeavesJobs
<1>5. HeldTicks(s)
  <2>1. CASE x \in Players
    BY <1>4, <2>1, HeldTicksSame
  <2>2. CASE JobsOf(s) = JobsOf(r)
    BY <2>2, HeldTicksSame DEF JobsOf
  <2> QED BY <1>3, <2>1, <2>2
<1>6. ASSUME NEW o \in Object PROVE JobAside(r, s, o)
  <2>1. CASE x \in Players
    BY <1>1, <1>4, <2>1, EmptiedAside
  <2>2. CASE JobsOf(s) = JobsOf(r)
    BY <2>2, SameAside
  <2> QED BY <1>3, <2>1, <2>2
<1>7. x \in Players => ~Looked(s, x)
  BY <1>1, <1>4, EmptiedAside
<1>8. ASSUME NEW o \in Object, o # x PROVE Untouched(r, s, o)
  BY <1>1, <1>2, <1>6, <1>8, LeavesPlaces DEF Untouched
<1>9. Follows(r.queue, s.queue, x)
  BY <1>6 DEF JobAside
<1>10. x \notin s.present
  BY <1>1 DEF Leaves
<1> QED BY <1>1, <1>2, <1>4, <1>5, <1>7, <1>8, <1>9, <1>10

\* And leaves x sound.
LEMMA LeaveSound ==
  ASSUME NEW r \in RoomType, HeldTicks(r), NEW L, NEW x \in Object, SoundFor(r, L, x),
         x \in r.present, x \in Arrows => ~Has(r.queue, x, "leave"), NEW s, s = Leave(r, x)
  PROVE  SoundFor(s, L, x) /\ (x \in Players => s.inRoom = r.inRoom)
<1>1. /\ s \in RoomType /\ Leaves(r, x, s) /\ LeavesFlight(r, x, s)
      /\ Follows(r.queue, s.queue, x) /\ (x \in Players => ~Looked(s, x) /\ s.stray = r.stray)
  BY LeaveDoes, LeaveAside
<1>2. s.used = r.used
  BY <1>1 DEF LeavesFlight, FlightOf
<1>3. /\ x \notin s.present /\ (x \notin Players => x \notin s.inRoom)
      /\ x \in Players => s.inRoom = r.inRoom
  BY <1>1 DEF Leaves
<1>4. PICK q, t : q = r.queue /\ t = s.queue
  OBVIOUS
<1>5. q \in Seq(Job) /\ t \in Seq(Job) /\ Fewer(q, t, x) /\ "enter" # "none" /\ "leave" # "none"
  BY <1>1, <1>4, QueueIs DEF Follows
<1>6. /\ Has(t, x, "enter") => Has(q, x, "enter")
      /\ Has(t, x, "leave") => Has(q, x, "leave")
      /\ Once(q, x, "enter") => Once(t, x, "enter")
      /\ Only(q, x, {"enter", "tick"}) => Only(t, x, {"enter", "tick"})
      /\ x \in Players /\ OneView(q, x) => OneView(t, x)
  BY <1>5, FewerKeeps
<1>7. x \in Actor => Entered(s, x)
  <2>1. x \in Monsters => x \notin Players
    BY ObjectIs
  <2> QED BY <1>3, <1>4, <1>6, <2>1 DEF SoundFor, Entered
<1>8. x \in Actor /\ x \notin L => Stands(s, x)
  <2>1. x \in Actor /\ x \notin L => Stands(r, x) /\ x \in r.inRoom
    BY DEF SoundFor, Entered
  <2> QED BY <1>1, <2>1, LeavesStands
<1>9. x \in Players => Viewed(s, x)
  BY <1>1, <1>4, <1>6 DEF SoundFor, Viewed, Looked
<1>10. x \in Arrows => Shot(s, x)
  <2>1. x \in Arrows => x \notin s.inRoom /\ ~Has(s.queue, x, "leave")
    BY <1>3, <1>4, <1>6, ObjectIs
  <2>2. s.cell = r.cell /\ \A c \in Cell : s.grid[c] = x => r.grid[c] = x
    <3>1. r.grid \in [Cell -> Object \cup {None}] /\ r.cell[x] \in Cell /\ x # None
      BY RoomIs, ObjectIs
    <3> QED BY <1>1, <3>1 DEF Leaves, LeftGrid
  <2> QED BY <1>2, <2>1, <2>2 DEF Shot, SoundFor
<1> QED BY <1>3, <1>7, <1>8, <1>9, <1>10 DEF SoundFor

\* The same place, and fewer jobs: it is still sound.
LEMMA FewerSound ==
  ASSUME NEW r \in RoomType, NEW s \in RoomType, NEW L, NEW o, PlaceAside(r, s, o),
         Fewer(r.queue, s.queue, o), s.stray = r.stray, s.held = r.held, s.used = r.used,
         SoundFor(r, L, o)
  PROVE  SoundFor(s, L, o)
<1>1. PICK q, t : q = r.queue /\ t = s.queue
  OBVIOUS
<1>2. q \in Seq(Job) /\ t \in Seq(Job) /\ Fewer(q, t, o) /\ "enter" # "none" /\ "leave" # "none"
  BY <1>1, QueueIs
<1>3. /\ Has(t, o, "enter") => Has(q, o, "enter")
      /\ Has(t, o, "leave") => Has(q, o, "leave")
      /\ Once(q, o, "enter") => Once(t, o, "enter")
      /\ Only(q, o, {"enter", "tick"}) => Only(t, o, {"enter", "tick"})
      /\ o \in Players /\ OneView(q, o) => OneView(t, o)
      /\ o \in Players /\ Named(t, o) => Named(q, o)
  BY <1>2, FewerKeeps
<1>4. Stands(r, o) => Stands(s, o)
  BY DEF Stands, PlaceAside
<1>5. Entered(r, o) => Entered(s, o)
  BY <1>1, <1>3 DEF Entered, PlaceAside
<1>6. Shot(r, o) => Shot(s, o)
  BY <1>1, <1>3 DEF Shot, PlaceAside
<1>7. o \in Players /\ Viewed(r, o) => Viewed(s, o)
  BY <1>1, <1>3 DEF Viewed, PlaceAside
<1> QED BY <1>4, <1>5, <1>6, <1>7 DEF SoundFor

\* The room without the job that runs is sound.
LEMMA PoppedSound ==
  ASSUME NEW r \in RoomType, r.queue # <<>>, NEW L, NEW R, Sound(r, L, R), NEW s, s = Popped(r)
  PROVE  Sound(s, L, R)
<1>1. /\ s \in RoomType /\ s.held = r.held /\ s.stray = r.stray
      /\ PlaceOf(s) = PlaceOf(r) /\ FlightOf(s) = FlightOf(r)
  BY PoppedDoes
<1>2. s.used = r.used
  BY <1>1 DEF FlightOf
<1>3. ASSUME NEW o \in Object \ R PROVE SoundFor(s, L, o)
  <2>1. PlaceAside(r, s, o) /\ Fewer(r.queue, s.queue, o) /\ SoundFor(r, L, o)
    BY <1>1, PoppedAside, SameAside DEF Sound
  <2> QED BY <1>1, <1>2, <2>1, FewerSound
<1> QED BY <1>3 DEF Sound

\* The jobs that may run on one who is in OnDeadAnim.
Quiet(r, o) == r.queue[1].obj = o => r.queue[1].op \in {"skill", "tick", "none"}

\* What a job keeps of o, and what it keeps of the room.
GoesFor(r, s, L, o) ==
  /\ SoundFor(s, L, o) /\ Stays(r, s, L, o)
  /\ o \in Actor /\ Quiet(r, o) => Kept(r, s, o)
Goes(r, s, L, R) ==
  /\ s.fault => r.fault \/ R # {}
  /\ \A o \in Object \ R : GoesFor(r, s, L, o)

\* A job that changes only its object, and that for the good, or its OnDeadAnim was
\* overtaken.
LEMMA JobGoes ==
  ASSUME NEW r \in RoomType, r.queue # <<>>, NEW L, NEW R, Sound(r, L, R), NEW s, s = Popped(r),
         NEW x \in Object, r.queue[1].obj = x, NEW t \in RoomType, t.fault => s.fault \/ R # {},
         \A o \in Object : o # x => Untouched(s, t, o), x \notin R => GoesFor(r, t, L, x)
  PROVE  Goes(r, t, L, R)
<1>1. s \in RoomType /\ Sound(s, L, R) /\ FlightOf(s) = FlightOf(r)
  BY PoppedDoes, PoppedSound
<1>2. s.fault = r.fault
  BY <1>1 DEF FlightOf
<1>3. ASSUME NEW o \in Object \ R, o # x PROVE GoesFor(r, t, L, o)
  <2>1. Untouched(s, t, o) /\ Untouched(r, s, o) /\ SoundFor(s, L, o)
    BY <1>1, <1>3, PoppedAside DEF Sound
  <2>2. Untouched(r, t, o)
    BY <1>1, <2>1, UntouchedTwice
  <2> QED BY <1>1, <2>1, <2>2, UntouchedSound DEF GoesFor
<1> QED BY <1>2, <1>3 DEF Goes

\* What one more job of o adds.
LEMMA AppendTells ==
  ASSUME NEW q \in Seq(Job), NEW j \in Job, NEW o, j.obj = o, NEW t, t = Append(q, j)
  PROVE  /\ \A op : Has(t, o, op) <=> Has(q, o, op) \/ j.op = op
         /\ Named(t, o) <=> Named(q, o) \/ j.held
         /\ \A op : Once(q, o, op) /\ (j.op # op \/ ~Has(q, o, op)) => Once(t, o, op)
         /\ \A S : Only(q, o, S) /\ j.op \in S => Only(t, o, S)
         /\ LeaveLast(q, o) /\ (j.op \in Acts \cup {"leave"} => ~Has(q, o, "leave")) => LeaveLast(t, o)
         /\ OneView(q, o) /\ (j.op = "tick" => j.held) /\ (j.held => ~Named(q, o)) => OneView(t, o)
<1> DEFINE n == Len(q) + 1
<1>1. /\ n \in DOMAIN t /\ t[n] = j
      /\ \A i \in DOMAIN t : i \in DOMAIN q \/ i = n
      /\ \A i \in DOMAIN q : i \in DOMAIN t /\ i < n /\ i # n /\ t[i] = q[i]
  BY AppendIs
<1> HIDE DEF n
<1>2. \A op : Has(t, o, op) <=> Has(q, o, op) \/ j.op = op
  BY <1>1 DEF Has
<1>3. Named(t, o) <=> Named(q, o) \/ j.held
  BY <1>1 DEF Named
<1>4. ASSUME NEW op, Once(q, o, op), j.op # op \/ ~Has(q, o, op) PROVE Once(t, o, op)
  BY <1>1, <1>4 DEF Once, Has
<1>5. ASSUME NEW S, Only(q, o, S), j.op \in S PROVE Only(t, o, S)
  BY <1>1, <1>5 DEF Only
<1>6. ASSUME LeaveLast(q, o), j.op \in Acts \cup {"leave"} => ~Has(q, o, "leave") PROVE LeaveLast(t, o)
  <2> SUFFICES ASSUME NEW i \in DOMAIN t, NEW k \in DOMAIN t, t[i].obj = o, t[k].obj = o,
                      t[i].op = "leave", t[k].op \in Acts \cup {"leave"}, i # k
               PROVE  k < i
    BY DEF LeaveLast
  <2>1. CASE i \in DOMAIN q /\ k \in DOMAIN q
    BY <1>1, <1>6, <2>1 DEF LeaveLast
  <2>2. CASE i = n
    BY <1>1, <2>2
  <2>3. CASE i \in DOMAIN q /\ k = n
    BY <1>1, <1>6, <2>3 DEF Has
  <2> QED BY <1>1, <2>1, <2>2, <2>3
<1>7. ASSUME OneView(q, o), j.op = "tick" => j.held, j.held => ~Named(q, o) PROVE OneView(t, o)
  <2>1. \A i \in DOMAIN t : t[i].obj = o /\ t[i].op = "tick" => t[i].held
    BY <1>1, <1>7 DEF OneView
  <2>2. \A i, k \in DOMAIN t : t[i].obj = o /\ t[k].obj = o /\ t[i].held /\ t[k].held => i = k
    BY <1>1, <1>7 DEF OneView, Named
  <2> QED BY <2>1, <2>2 DEF OneView
<1> QED BY <1>2, <1>3, <1>4, <1>5, <1>6, <1>7

\* A monster or player that moves.
LEMMA MoverSound ==
  ASSUME NEW r \in RoomType, NEW s \in RoomType, NEW L, NEW x \in Actor, Moves(r, x, s),
         JobAside(r, s, x), SoundFor(r, L, x), x \notin L => (x \in r.inRoom => x \in r.present)
  PROVE  SoundFor(s, L, x) /\ Stays(r, s, L, x) /\ Kept(r, s, x)
<1>0. x \in Object /\ x \notin Arrows /\ (x \in Players => x \notin Monsters)
  BY ObjectIs DEF Actor
<1>1. s.present = r.present /\ s.inRoom = r.inRoom /\ Follows(r.queue, s.queue, x)
  BY DEF Moves, JobAside
<1>2. PICK q, t : q = r.queue /\ t = s.queue
  OBVIOUS
<1>3. q \in Seq(Job) /\ t \in Seq(Job) /\ Fewer(q, t, x) /\ (Has(q, x, "leave") => Has(t, x, "leave"))
  BY <1>1, <1>2, QueueIs DEF Follows
<1>4. /\ \A op : op # "none" /\ Has(t, x, op) => Has(q, x, op)
      /\ \A op : op # "none" /\ Once(q, x, op) => Once(t, x, op)
      /\ \A S : Only(q, x, S) => Only(t, x, S)
      /\ LeaveLast(q, x) => LeaveLast(t, x)
      /\ x \in Players /\ OneView(q, x) => OneView(t, x)
      /\ x \in Players /\ Named(t, x) => Named(q, x)
  BY <1>3, FewerKeeps
<1>5. Entered(s, x)
  <2>1. "enter" # "none"
    OBVIOUS
  <2> QED BY <1>0, <1>1, <1>2, <1>4, <2>1 DEF Entered, SoundFor
<1>6. x \in Players => Viewed(s, x)
  BY <1>1, <1>2, <1>4 DEF Viewed, SoundFor, JobAside
<1>7. x \notin L => Stands(s, x)
  BY <1>0, MovesStands DEF SoundFor
<1>8. NotYet(r, x) => NotYet(s, x)
  BY <1>1, <1>2, <1>4 DEF NotYet
<1>9. Staying(r, x) => Staying(s, x)
  BY <1>1, <1>2, <1>4 DEF Staying
<1>10. Departing(r, x) => Departing(s, x)
  <2>1. \A op \in Acts : Has(t, x, op) => Has(q, x, op)
    BY <1>4 DEF Acts
  <2>2. Has(t, x, "leave") <=> Has(q, x, "leave")
    BY <1>3, <1>4
  <2> QED BY <1>1, <1>2, <1>4, <2>1, <2>2 DEF Departing
<1>11. Kept(r, s, x)
  BY <1>1, FollowsKept
<1> QED BY <1>0, <1>5, <1>6, <1>7, <1>8, <1>9, <1>10, <1>11 DEF SoundFor, Stays

\* An arrow that flies or strikes.
LEMMA ArrowActs ==
  ASSUME NEW r \in RoomType, HeldTicks(r), NEW a \in Arrows, a \in r.used, a \in r.inRoom,
         \A c \in Cell : r.grid[c] = a => r.cell[a] = c,
         NEW s, ArrowFlies(r, a, s) \/ ArrowStrikes(r, a, s)
  PROVE  /\ s \in RoomType /\ s.fault = r.fault /\ a \in s.used
         /\ s.present = r.present
         /\ \A o \in Object : o # a => Untouched(r, s, o)
         /\ \A c \in Cell : s.grid[c] = a => s.cell[a] = c
<1>0. a \in Object /\ r.stray \in [Object -> Nat]
  BY RoomIs, ObjectIs
<1>1. CASE ArrowFlies(r, a, s)
  <2>1. /\ s \in RoomType /\ Moves(r, a, s) /\ FightOf(s) = FightOf(r) /\ FlightOf(s) = FlightOf(r)
        /\ s.queue = r.queue /\ s.held = r.held /\ s.stray = [r.stray EXCEPT ![a] = @ + 1]
    BY <1>1 DEF ArrowFlies
  <2>2. s.used = r.used /\ s.fault = r.fault /\ s.present = r.present
    BY <2>1 DEF FlightOf, Moves
  <2>4. ASSUME NEW o \in Object, o # a PROVE Untouched(r, s, o)
    <3>1. PlaceAside(r, s, o)
      BY <1>0, <2>1, <2>4, MovesAside
    <3>2. Follows(r.queue, s.queue, o)
      BY <2>1, QueueIs, FollowsTwice
    <3>3. s.stray[o] = r.stray[o]
      BY <1>0, <2>1, <2>4
    <3> QED BY <2>1, <2>2, <3>1, <3>2, <3>3 DEF Untouched, JobAside
  <2>5. \A c \in Cell : s.grid[c] = a => s.cell[a] = c
    <3>1. CASE s.cell = r.cell /\ s.grid = r.grid
      BY <3>1
    <3>2. ASSUME NEW c \in Cell, s.cell = [r.cell EXCEPT ![a] = c], s.grid = MovedGrid(r, a, c)
          PROVE  \A d \in Cell : s.grid[d] = a => s.cell[a] = d
      <4>1. /\ r.cell \in [Object -> Cell] /\ r.grid \in [Cell -> Object \cup {None}] /\ a # None
        BY RoomIs, ObjectIs
      <4>2. s.cell[a] = c
        BY <1>0, <3>2, <4>1
      <4> QED BY <3>2, <4>1, <4>2 DEF MovedGrid
    <3> QED BY <2>1, <3>1, <3>2 DEF Moves
  <2> QED BY <2>1, <2>2, <2>4, <2>5
<1>2. CASE ArrowStrikes(r, a, s)
  <2>1. PICK t : Struck(r, a, t) /\ s = PushJob(t, NewJob("leave", a))
    BY <1>2 DEF ArrowStrikes
  <2>2. NewJob("leave", a) \in Job /\ NewJob("leave", a).obj = a
    <3>1. "leave" \in Op
      BY DEF Op
    <3> QED BY <1>0, <3>1, NewJobIs
  <2>3. /\ t \in RoomType /\ PlaceOf(t) = PlaceOf(r) /\ t.used = r.used
        /\ t.fault = r.fault /\ t.stray = [r.stray EXCEPT ![a] = @ + 1] /\ Thinned(r, t)
    BY <2>1 DEF Struck
  <2>4. /\ s \in RoomType /\ s.queue = Append(t.queue, NewJob("leave", a))
        /\ s.held = t.held /\ s.stray = t.stray
        /\ PlaceOf(s) = PlaceOf(t) /\ FightOf(s) = FightOf(t) /\ FlightOf(s) = FlightOf(t)
    BY <2>1, <2>2, <2>3, PushDoes
  <2>5. s.used = r.used /\ s.fault = r.fault /\ PlaceOf(s) = PlaceOf(r)
    BY <2>4, <2>3 DEF FlightOf
  <2>6. s.present = r.present /\ s.grid = r.grid /\ s.cell = r.cell
    BY <2>5 DEF PlaceOf
  <2>8. ASSUME NEW o \in Object, o # a PROVE Untouched(r, s, o)
    <3>1. t.stray[o] = r.stray[o]
      BY <1>0, <2>3, <2>8
    <3>2. JobAside(r, t, o)
      <4>1. CASE t.queue = r.queue /\ t.held = r.held
        <5>1. Follows(r.queue, t.queue, o)
          BY <4>1, QueueIs, FollowsTwice
        <5> QED BY <3>1, <4>1, <5>1 DEF JobAside
      <4>2. ASSUME NEW x \in Monsters, t.queue = Emptied(r.queue, x), t.held = r.held \ {x}
            PROVE  JobAside(r, t, o)
        BY <2>3, <3>1, <4>2, EmptiedAside, ObjectIs
      <4> QED BY <2>3, <4>1, <4>2 DEF Thinned
    <3>3. JobAside(t, s, o)
      BY <2>2, <2>3, <2>4, <2>8, PushAside
    <3>4. JobAside(r, s, o)
      BY <2>3, <2>4, <3>2, <3>3, UntouchedTwice
    <3>5. PlaceAside(r, s, o)
      BY <2>5, SameAside
    <3> QED BY <2>5, <3>4, <3>5 DEF Untouched
  <2> QED BY <2>4, <2>5, <2>6, <2>8
<1> QED BY <1>1, <1>2

-----------------------------------------------------------------------------
(* The jobs and timers of the room keep what is sound in it.               *)

\* A player who is in the room afterwards.
LEMMA PresentStays ==
  ASSUME NEW r \in RoomType, NEW s \in RoomType, NEW L, NEW o \in Actor, Follows(r.queue, s.queue, o),
         o \in s.present, NEW op \in Acts, Has(r.queue, o, op), o \in Players => ~NotYet(r, o)
  PROVE  Stays(r, s, L, o)
<1>1. PICK q, t : q = r.queue /\ t = s.queue
  OBVIOUS
<1>2. q \in Seq(Job) /\ t \in Seq(Job) /\ Fewer(q, t, o) /\ (Has(q, o, "leave") => Has(t, o, "leave"))
      /\ "leave" # "none"
  BY <1>1, QueueIs DEF Follows
<1>3. (Has(t, o, "leave") => Has(q, o, "leave")) /\ (LeaveLast(q, o) => LeaveLast(t, o))
  BY <1>2, FewerKeeps
<1>4. Staying(r, o) => Staying(s, o)
  BY <1>1, <1>3 DEF Staying
<1>5. Departing(r, o) => Departing(s, o)
  BY <1>1, <1>2, <1>3 DEF Departing
<1> QED BY <1>4, <1>5 DEF Stays

\* The Enter of a player or a monster runs.
LEMMA EnterGoes ==
  ASSUME NEW r \in RoomType, r.queue # <<>>, NEW L, NEW R \in SUBSET Actor, Sound(r, L, R),
         NEW s, s = Popped(r), HeldTicks(s), NEW x \in Actor, r.queue[1].obj = x, r.queue[1].op = "enter",
         NEW t \in RoomType, ActorEnters(s, x, t)
  PROVE  Goes(r, t, L, R)
<1>0. x \in Object /\ (x \in Players \/ x \in Monsters)
  BY ObjectIs DEF Actor
<1>1. /\ s \in RoomType /\ s.queue = Tail(r.queue) /\ PlaceOf(s) = PlaceOf(r)
  BY PoppedDoes
<1>2. \A o \in Object : o # x => Untouched(s, t, o)
  BY <1>1, EnterAside
<1>3. t.fault = s.fault
  BY DEF ActorEnters, FlightOf
<1>4. ASSUME x \notin R PROVE GoesFor(r, t, L, x)
  <2>1. s.present = r.present /\ SoundFor(r, L, x) /\ SoundFor(s, L, x)
    BY <1>0, <1>1, <1>4, PoppedSound DEF PlaceOf, Sound
  <2>2. Entered(r, x)
    BY <2>1 DEF SoundFor
  <2>3. PICK q : q = r.queue
    OBVIOUS
  <2>4. q \in Seq(Job) /\ q # <<>> /\ q[1].obj = x /\ q[1].op = "enter" /\ Once(q, x, "enter")
    BY <2>2, <2>3, QueueIs DEF Entered
  <2>5. Has(q, x, "enter") /\ ~Has(Tail(q), x, "enter")
    BY <2>4, TailTells
  <2>6. x \notin s.present
    BY <2>1, <2>2, <2>3, <2>5 DEF Entered
  <2>7. SoundFor(t, L, x) /\ x \in t.present /\ Follows(s.queue, t.queue, x)
    BY <1>1, <2>1, <2>3, <2>5, <2>6, EnterSound
  <2>8. Follows(r.queue, t.queue, x)
    <3>1. Untouched(r, s, x)
      BY PoppedAside
    <3>2. Follows(r.queue, s.queue, x)
      BY <3>1 DEF Untouched, JobAside
    <3>3. r.queue \in Seq(Job) /\ s.queue \in Seq(Job) /\ t.queue \in Seq(Job)
      BY <1>1, QueueIs
    <3> QED BY <2>7, <3>2, <3>3, FollowsTwice
  <2>9. ~NotYet(r, x)
    <3>1. 1 \in DOMAIN q
      BY <2>4, TailIs
    <3> QED BY <2>3, <2>4, <3>1 DEF NotYet, Only
  <2>10. Stays(r, t, L, x)
    <3>1. "enter" \in Acts /\ Has(r.queue, x, "enter")
      BY <2>3, <2>5 DEF Acts
    <3> QED BY <2>7, <2>8, <2>9, <3>1, PresentStays
  <2>11. ~Quiet(r, x)
    BY DEF Quiet
  <2> QED BY <2>7, <2>10, <2>11 DEF GoesFor
<1> QED BY <1>0, <1>2, <1>3, <1>4, JobGoes

\* The Enter of an arrow runs.
LEMMA LaunchGoes ==
  ASSUME NEW r \in RoomType, r.queue # <<>>, NEW L, NEW R \in SUBSET Actor, Sound(r, L, R), NEW s, s = Popped(r), HeldTicks(s),
         NEW a \in Arrows, r.queue[1].obj = a, Ready(s, a),
         NEW t \in RoomType, ArrowEnters(s, a, t)
  PROVE  Goes(r, t, L, R)
<1>0. a \in Object /\ a \notin Actor /\ a \notin Players /\ a \notin Monsters
  BY ObjectIs
<1>1. s \in RoomType /\ Sound(s, L, R)
  BY PoppedDoes, PoppedSound
<1>2. SoundFor(s, L, a) /\ a \in s.used
  BY <1>0, <1>1 DEF Sound, Ready
<1>3. \A c \in Cell : s.grid[c] = a => s.cell[a] = c
  BY <1>2 DEF SoundFor, Shot
<1>4. PICK z \in RoomType, f \in RoomType :
        /\ JobsOf(z) = JobsOf(s) /\ FightOf(z) = FightOf(s) /\ FlightOf(z) = FlightOf(s)
        /\ PlaceOf(z) = <<s.present, s.inRoom \cup {a}, s.cell, s.grid,
                          [s.zone EXCEPT ![ZoneOf(s.cell[a])] = @ \cup {a}]>>
        /\ \/ s.owner[a] = None /\ f = z
           \/ s.owner[a] # None /\ (ArrowFlies(z, a, f) \/ ArrowStrikes(z, a, f))
        /\ JobsOf(t) = JobsOf(f) /\ FightOf(t) = FightOf(f) /\ FlightOf(t) = FlightOf(f)
        /\ PlaceOf(t) = <<f.present \cup {a}, f.inRoom, f.cell, f.grid, f.zone>>
  BY DEF ArrowEnters
<1>5. /\ z.present = s.present /\ z.inRoom = s.inRoom \cup {a} /\ z.cell = s.cell /\ z.grid = s.grid
      /\ z.zone = [s.zone EXCEPT ![ZoneOf(s.cell[a])] = @ \cup {a}]
      /\ z.used = s.used /\ z.fault = s.fault
  BY <1>4 DEF PlaceOf, FlightOf
<1>6. HeldTicks(z)
  BY <1>1, <1>4, HeldTicksSame DEF JobsOf
<1>7. ASSUME NEW o \in Object, o # a PROVE Untouched(s, z, o)
  <2>1. s.zone \in [Zone -> SUBSET Object]
    BY <1>1, RoomIs
  <2>2. \A y \in Zone : o \in z.zone[y] <=> o \in s.zone[y]
    BY <1>5, <1>7, <2>1
  <2>3. PlaceAside(s, z, o)
    BY <1>5, <1>7, <2>2 DEF PlaceAside
  <2>4. JobAside(s, z, o)
    BY <1>1, <1>4, SameAside
  <2> QED BY <1>5, <2>3, <2>4 DEF Untouched
<1>8. /\ f.fault = z.fault /\ a \in f.used
      /\ \A o \in Object : o # a => Untouched(z, f, o)
      /\ \A c \in Cell : f.grid[c] = a => f.cell[a] = c
  <2>1. CASE f = z
    <3>1. \A o \in Object : Untouched(z, z, o)
      BY SameAside
    <3> QED BY <1>2, <1>3, <1>5, <2>1, <3>1
  <2>2. CASE ArrowFlies(z, a, f) \/ ArrowStrikes(z, a, f)
    <3>1. a \in z.used /\ a \in z.inRoom /\ \A c \in Cell : z.grid[c] = a => z.cell[a] = c
      BY <1>2, <1>3, <1>5
    <3> QED BY <1>6, <2>2, <3>1, ArrowActs
  <2> QED BY <1>4, <2>1, <2>2
<1>9. /\ t.present = f.present \cup {a} /\ t.inRoom = f.inRoom /\ t.cell = f.cell /\ t.grid = f.grid
      /\ t.zone = f.zone /\ t.used = f.used /\ t.fault = f.fault
  BY <1>4 DEF PlaceOf, FlightOf
<1>10. ASSUME NEW o \in Object, o # a PROVE Untouched(s, t, o)
  <2>1. PlaceAside(f, t, o)
    BY <1>9, <1>10 DEF PlaceAside
  <2>2. JobAside(f, t, o)
    BY <1>4, SameAside
  <2>3. Untouched(f, t, o)
    BY <1>9, <2>1, <2>2 DEF Untouched
  <2>4. Untouched(s, f, o)
    BY <1>1, <1>7, <1>8, <1>10, UntouchedTwice
  <2> QED BY <1>1, <2>3, <2>4, UntouchedTwice
<1>11. SoundFor(t, L, a)
  <2>1. Shot(t, a)
    BY <1>8, <1>9 DEF Shot
  <2> QED BY <1>0, <2>1 DEF SoundFor
<1>12. GoesFor(r, t, L, a)
  BY <1>0, <1>11 DEF Stays, GoesFor
<1>13. t.fault = s.fault
  BY <1>4, <1>5, <1>8, <1>9
<1> QED BY <1>0, <1>10, <1>12, <1>13, JobGoes

\* A Leave runs.
LEMMA LeaveGoes ==
  ASSUME NEW r \in RoomType, RoomFine(r), r.queue # <<>>, NEW L, NEW R \in SUBSET Actor, Sound(r, L, R),
         NEW s, s = Popped(r), HeldTicks(s),
         NEW x \in Object, r.queue[1].obj = x, r.queue[1].op = "leave", NEW t, t = Leave(s, x)
  PROVE  Goes(r, t, L, R)
<1>1. /\ s \in RoomType /\ s.queue = Tail(r.queue) /\ PlaceOf(s) = PlaceOf(r) /\ Sound(s, L, R)
  BY PoppedDoes, PoppedSound
<1>2. s.present = r.present /\ s.inRoom = r.inRoom
  BY <1>1 DEF PlaceOf
<1>3. PICK q : q = r.queue
  OBVIOUS
<1>4. q \in Seq(Job) /\ q # <<>> /\ q[1].obj = x /\ q[1].op = "leave" /\ 1 \in DOMAIN q
  BY <1>3, QueueIs, TailIs
<1>5. /\ Has(q, x, "leave")
      /\ LeaveLast(q, x) => ~Has(Tail(q), x, "leave") /\ \A op \in Acts : ~Has(Tail(q), x, op)
  BY <1>4, TailTells
<1>6. Fewer(q, s.queue, x) /\ ~Quiet(r, x)
  BY <1>3, PoppedAside DEF Quiet
<1>7. ASSUME x \notin R PROVE x \notin Monsters /\ SoundFor(r, L, x) /\ SoundFor(s, L, x)
  <2>1. SoundFor(r, L, x) /\ SoundFor(s, L, x)
    BY <1>1, <1>7 DEF Sound
  <2> QED BY <1>3, <1>4, <2>1, ObjectIs DEF SoundFor, Entered, Only
<1>8. CASE x \in s.present
  <2>1. x \in Arrows => ~Has(s.queue, x, "leave")
    <3>1. x \in Arrows => InTurn(q, x)
      BY <1>3 DEF RoomFine, ArrowFine
    <3> QED BY <1>1, <1>3, <1>4, <3>1, TailInTurn
  <2>2. /\ t \in RoomType /\ t.fault = s.fault
        /\ \A o \in Object : o # x => Untouched(s, t, o)
        /\ x \notin t.present /\ Follows(s.queue, t.queue, x)
    BY <1>1, <1>8, LeaveAside
  <2>3. ASSUME x \notin R PROVE GoesFor(r, t, L, x)
    <3>1. SoundFor(t, L, x)
      BY <1>1, <1>7, <1>8, <2>1, <2>3, LeaveSound
    <3>2. CASE x \in Players
      <4>1. x \in r.inRoom
        BY <1>2, <1>7, <1>8, <2>3, <3>2, ObjectIs DEF SoundFor, Entered
      <4>2. ~NotYet(r, x) /\ ~Staying(r, x)
        BY <1>3, <1>5, <4>1 DEF NotYet, Staying
      <4>3. ASSUME Departing(r, x) PROVE Departing(t, x)
        <5>1. PICK u, v : u = s.queue /\ v = t.queue
          OBVIOUS
        <5>2. u \in Seq(Job) /\ v \in Seq(Job) /\ Fewer(q, u, x) /\ Fewer(u, v, x)
          BY <1>1, <1>6, <2>2, <5>1, QueueIs DEF Follows
        <5>3. LeaveLast(v, x) /\ \A op : op # "none" /\ Has(v, x, op) => Has(u, x, op)
          BY <1>3, <1>4, <4>3, <5>2, FewerKeeps DEF Departing
        <5>4. ~Has(u, x, "leave") /\ \A op \in Acts : ~Has(u, x, op)
          BY <1>1, <1>3, <1>5, <4>3, <5>1 DEF Departing
        <5>5. ~Has(v, x, "leave") /\ \A op \in Acts : ~Has(v, x, op)
          BY <5>3, <5>4 DEF Acts
        <5> QED BY <2>2, <5>1, <5>3, <5>5 DEF Departing
      <4> QED BY <1>6, <3>1, <4>2, <4>3 DEF Stays, GoesFor
    <3>3. CASE x \notin Players
      BY <1>6, <3>1, <3>3 DEF Stays, GoesFor
    <3> QED BY <3>2, <3>3
  <2> QED BY <2>2, <2>3, JobGoes
<1>9. CASE x \notin s.present /\ x \in Players
  <2>1. t = s
    BY <1>1, <1>9, LeaveDoes
  <2>2. \A o \in Object : Untouched(s, t, o)
    BY <1>1, <2>1, SameAside
  <2>3. NotYet(r, x) => NotYet(s, x)
    BY <1>1, <1>2, <1>3, <1>4, <1>6, QueueIs, FewerKeeps DEF NotYet
  <2>4. ~Staying(r, x)
    BY <1>3, <1>5 DEF Staying
  <2>5. ASSUME Departing(r, x) PROVE Departing(s, x)
    <3>1. PICK u : u = s.queue
      OBVIOUS
    <3>2. u \in Seq(Job) /\ Fewer(q, u, x) /\ LeaveLast(q, x)
      BY <1>1, <1>3, <1>6, <2>5, <3>1, QueueIs DEF Departing
    <3>3. LeaveLast(u, x)
      BY <1>4, <3>2, FewerKeeps
    <3>4. ~Has(u, x, "leave") /\ \A op \in Acts : ~Has(u, x, op)
      BY <1>1, <1>3, <1>5, <3>1, <3>2
    <3> QED BY <1>9, <3>1, <3>3, <3>4 DEF Departing
  <2>6. x \notin R => GoesFor(r, t, L, x)
    BY <1>6, <1>7, <2>1, <2>3, <2>4, <2>5 DEF Stays, GoesFor
  <2> QED BY <1>1, <2>1, <2>2, <2>6, JobGoes
<1>10. CASE x \notin s.present /\ x \notin Players
  <2>1. x \in R
    <3>1. x \notin R /\ x \in Arrows => x \in r.present
      BY <1>3, <1>5, <1>7 DEF SoundFor, Shot
    <3> QED BY <1>2, <1>7, <1>10, <3>1, ObjectIs
  <2>2. /\ t \in RoomType /\ JobsOf(t) = JobsOf(s) /\ PlaceOf(t) = PlaceOf(s)
        /\ FlightOf(t) = <<s.owner, s.used, s.hits, TRUE>>
    BY <1>1, <1>10, LeaveDoes
  <2>3. t.used = s.used
    BY <2>2 DEF FlightOf
  <2>4. ASSUME NEW o \in Object PROVE Untouched(s, t, o)
    BY <1>1, <2>2, <2>3, SameAside DEF Untouched
  <2> QED BY <2>1, <2>2, <2>4, JobGoes
<1> QED BY <1>8, <1>9, <1>10

\* A job that does nothing runs.
LEMMA QuietGoes ==
  ASSUME NEW r \in RoomType, r.queue # <<>>, NEW L, NEW R \in SUBSET Actor, Sound(r, L, R), NEW s, s = Popped(r),
         NEW x \in Object, r.queue[1].obj = x, r.queue[1].op # "leave"
  PROVE  Goes(r, s, L, R)
<1>1. s \in RoomType /\ Sound(s, L, R)
  BY PoppedDoes, PoppedSound
<1>2. \A o \in Object : Untouched(s, s, o)
  BY <1>1, SameAside
<1>3. Untouched(r, s, x)
  BY <1>1, PoppedAside
<1>4. x \notin R => GoesFor(r, s, L, x)
  BY <1>1, <1>3, UntouchedSound DEF GoesFor, Sound
<1> QED BY <1>1, <1>2, <1>4, JobGoes

\* A job that moves its object runs.
LEMMA MoveGoes ==
  ASSUME NEW r \in RoomType, r.queue # <<>>, NEW L, NEW R \in SUBSET Actor, Sound(r, L, R), NEW s, s = Popped(r),
         NEW x \in Actor, r.queue[1].obj = x, r.queue[1].op # "leave",
         x \notin L \cup R => (x \in r.inRoom => x \in r.present),
         NEW t \in RoomType, Moves(s, x, t), FlightOf(t) = FlightOf(s),
         \A o \in Object : JobAside(s, t, o)
  PROVE  Goes(r, t, L, R)
<1>0. x \in Object
  BY ObjectIs
<1>1. s \in RoomType /\ Sound(s, L, R) /\ PlaceOf(s) = PlaceOf(r)
  BY PoppedDoes, PoppedSound
<1>2. t.used = s.used /\ t.fault = s.fault /\ s.present = r.present /\ s.inRoom = r.inRoom
  BY <1>1 DEF FlightOf, PlaceOf
<1>3. ASSUME NEW o \in Object, o # x PROVE Untouched(s, t, o)
  BY <1>0, <1>1, <1>2, <1>3, MovesAside DEF Untouched
<1>4. x \notin R => SoundFor(t, L, x) /\ Stays(s, t, L, x) /\ Kept(s, t, x)
  BY <1>0, <1>1, <1>2, MoverSound DEF Sound
<1>5. Stays(r, s, L, x) /\ Kept(r, s, x)
  BY <1>1, PoppedAside, UntouchedSound
<1>6. x \notin R => GoesFor(r, t, L, x)
  BY <1>4, <1>5, StaysTwice, KeptTwice DEF GoesFor
<1> QED BY <1>0, <1>2, <1>3, <1>6, JobGoes

\* A player who has an act to come is outside, or in the room.
LEMMA ActorPlaced ==
  ASSUME NEW r, NEW p, NEW op \in Acts, Has(r.queue, p, op), Staying(r, p) \/ Departing(r, p)
  PROVE  p \in r.inRoom => p \in r.present
BY DEF Staying, Departing

\* A move packet's job runs.
LEMMA HandleMoveGoes ==
  ASSUME NEW r \in RoomType, r.queue # <<>>, NEW L, NEW R \in SUBSET Actor, Sound(r, L, R), NEW s, s = Popped(r),
         NEW p \in Players, r.queue[1].obj = p, r.queue[1].op = "move",
         p \notin L \cup R => Staying(r, p) \/ Departing(r, p),
         NEW e, Elsewhere(s, e), NEW c \in Cell, NEW t, t = ApplyMove(e, p, c)
  PROVE  Goes(r, t, L, R)
<1>0. p \in Object /\ p \in Actor
  BY ObjectIs
<1>1. /\ e \in RoomType /\ JobsOf(e) = JobsOf(s) /\ PlaceOf(e) = PlaceOf(s) /\ FlightOf(e) = FlightOf(s)
     
  BY DEF Elsewhere
<1>2. /\ t \in RoomType /\ Moves(e, p, t) /\ JobsOf(t) = JobsOf(e) /\ FightOf(t) = FightOf(e)
      /\ FlightOf(t) = FlightOf(e)
  BY <1>0, <1>1, ApplyMoveDoes
<1>3. s \in RoomType
  BY PoppedDoes
<1>4. Moves(s, p, t)
  BY <1>1, <1>2, SamePlace
<1>6. \A o \in Object : JobAside(s, t, o)
  BY <1>1, <1>2, <1>3, SameAside
<1>7. p \notin L \cup R => (p \in r.inRoom => p \in r.present)
  <2>1. PICK q : q = r.queue
    OBVIOUS
  <2>2. q \in Seq(Job) /\ q # <<>> /\ q[1].obj = p /\ q[1].op = "move"
    BY <2>1, QueueIs
  <2>3. Has(q, p, "move")
    BY <2>2, TailTells
  <2>4. "move" \in Acts
    BY DEF Acts
  <2> QED BY <2>1, <2>3, <2>4, ActorPlaced
<1> QED BY <1>0, <1>1, <1>2, <1>4, <1>6, <1>7, MoveGoes

\* A skill packet's job runs: a fight only.
LEMMA ElsewhereGoes ==
  ASSUME NEW r \in RoomType, r.queue # <<>>, NEW L, NEW R \in SUBSET Actor, Sound(r, L, R), NEW s, s = Popped(r),
         NEW x \in Object, r.queue[1].obj = x, r.queue[1].op # "leave", NEW t, Elsewhere(s, t)
  PROVE  Goes(r, t, L, R)
<1>1. s \in RoomType /\ Sound(s, L, R) /\ t \in RoomType /\ FlightOf(t) = FlightOf(s)
  BY PoppedDoes, PoppedSound DEF Elsewhere
<1>2. \A o \in Object : Untouched(s, t, o)
  BY <1>1, SameAside DEF Elsewhere
<1>3. Untouched(r, t, x)
  BY <1>1, <1>2, PoppedAside, UntouchedTwice
<1>4. x \notin R => GoesFor(r, t, L, x)
  BY <1>1, <1>3, UntouchedSound DEF Sound, GoesFor
<1>5. t.fault = s.fault
  BY <1>1 DEF FlightOf
<1> QED BY <1>1, <1>2, <1>4, <1>5, JobGoes

\* An arrow is made: no other has changed, and it is nowhere.
LEMMA MadeAside ==
  ASSUME NEW r \in RoomType, NEW p \in Players, NEW a \in Arrows \ r.used, NEW L, SoundFor(r, L, a),
         NEW s, s = PushJob(Made(r, p, a), NewJob("enter", a))
  PROVE  /\ s \in RoomType /\ s.fault = r.fault
         /\ SoundFor(s, L, a) /\ \A o \in Object : o # a => Untouched(r, s, o)
<1>0. a \in Object /\ a \notin Actor /\ a \notin Players /\ r.cell \in [Object -> Cell]
  BY RoomIs, ObjectIs
<1>1. PICK u : u = Made(r, p, a)
  OBVIOUS
<1>2. /\ u \in RoomType /\ JobsOf(u) = JobsOf(r) /\ u.deaths = r.deaths
      /\ FlightOf(u) = <<[r.owner EXCEPT ![a] = p], r.used \cup {a}, r.hits, r.fault>>
      /\ PlaceOf(u) = <<r.present, r.inRoom, [r.cell EXCEPT ![a] = r.cell[p]], r.grid, r.zone>>
  BY <1>1, MadeDoes
<1>3. /\ u.queue = r.queue /\ u.held = r.held /\ u.stray = r.stray
      /\ u.present = r.present /\ u.inRoom = r.inRoom /\ u.cell = [r.cell EXCEPT ![a] = r.cell[p]]
      /\ u.grid = r.grid /\ u.zone = r.zone /\ u.used = r.used \cup {a} /\ u.fault = r.fault
  BY <1>2 DEF JobsOf, PlaceOf, FlightOf
<1>4. NewJob("enter", a) \in Job /\ NewJob("enter", a).op = "enter" /\ NewJob("enter", a).obj = a
  <2>1. "enter" \in Op
    BY DEF Op
  <2> QED BY <1>0, <2>1, NewJobIs
<1>5. /\ s \in RoomType /\ s.queue = Append(u.queue, NewJob("enter", a)) /\ s.held = u.held
      /\ s.stray = u.stray
      /\ PlaceOf(s) = PlaceOf(u) /\ FightOf(s) = FightOf(u) /\ FlightOf(s) = FlightOf(u)
  BY <1>1, <1>2, <1>4, PushDoes
<1>6. /\ s.present = r.present /\ s.inRoom = r.inRoom /\ s.cell = [r.cell EXCEPT ![a] = r.cell[p]]
      /\ s.grid = r.grid /\ s.zone = r.zone /\ s.used = r.used \cup {a} /\ s.fault = r.fault
  BY <1>3, <1>5 DEF PlaceOf, FlightOf
<1>7. ASSUME NEW o \in Object, o # a PROVE Untouched(r, s, o)
  <2>1. PlaceAside(r, s, o)
    BY <1>0, <1>6, <1>7 DEF PlaceAside
  <2>2. JobAside(r, s, o)
    BY <1>3, <1>4, <1>5, <1>7, PushAside
  <2> QED BY <1>6, <2>1, <2>2 DEF Untouched
<1>8. Shot(r, a)
  BY DEF SoundFor
<1>9. Has(s.queue, a, "leave") => Has(r.queue, a, "leave")
  <2>1. PICK q, j, t : q = r.queue /\ j = NewJob("enter", a) /\ t = s.queue
    OBVIOUS
  <2>2. q \in Seq(Job) /\ j \in Job /\ j.obj = a /\ t = Append(q, j) /\ j.op = "enter"
    BY <1>3, <1>4, <1>5, <2>1, QueueIs
  <2>3. Has(t, a, "leave") <=> Has(q, a, "leave") \/ j.op = "leave"
    BY <2>2, AppendTells
  <2>4. "enter" # "leave"
    OBVIOUS
  <2> QED BY <2>1, <2>2, <2>3, <2>4
<1>10. Shot(s, a)
  BY <1>6, <1>8, <1>9 DEF Shot
<1> QED BY <1>0, <1>5, <1>6, <1>7, <1>10 DEF SoundFor

\* A skill packet's job runs: an arrow is made.
LEMMA MadeGoes ==
  ASSUME NEW r \in RoomType, r.queue # <<>>, NEW L, NEW R \in SUBSET Actor, Sound(r, L, R), NEW s, s = Popped(r),
         NEW p \in Players, r.queue[1].obj = p, r.queue[1].op # "leave", NEW e, Elsewhere(s, e),
         NEW a \in Arrows \ r.used, NEW t, t = PushJob(Made(e, p, a), NewJob("enter", a))
  PROVE  Goes(r, t, L, R)
<1>0. a \in Object /\ a \notin Players /\ a \notin Monsters /\ p \in Object
  BY ObjectIs
<1>1. /\ s \in RoomType /\ e \in RoomType /\ FlightOf(e) = FlightOf(s) /\ FlightOf(s) = FlightOf(r)
  BY PoppedDoes DEF Elsewhere
<1>2. a \in Arrows \ e.used
  BY <1>1 DEF FlightOf
<1>3. Goes(r, e, L, R)
  BY <1>0, ElsewhereGoes
<1>4. /\ t \in RoomType /\ t.fault = e.fault
      /\ SoundFor(t, L, a) /\ \A o \in Object : o # a => Untouched(e, t, o)
  <2>1. a \notin Actor /\ SoundFor(e, L, a)
    BY <1>0, <1>3 DEF Goes, GoesFor, Actor
  <2> QED BY <1>1, <1>2, <2>1, MadeAside
<1>5. ASSUME NEW o \in Object \ R PROVE GoesFor(r, t, L, o)
  <2>1. CASE o = a
    BY <1>0, <1>4, <2>1 DEF Stays, GoesFor, Actor
  <2>2. CASE o # a
    <3>1. SoundFor(e, L, o) /\ Stays(r, e, L, o) /\ (o \in Actor /\ Quiet(r, o) => Kept(r, e, o))
      BY <1>3 DEF Goes, GoesFor
    <3>2. SoundFor(t, L, o) /\ Stays(e, t, L, o) /\ Kept(e, t, o)
      BY <1>1, <1>4, <2>2, <3>1, UntouchedSound
    <3> QED BY <3>1, <3>2, StaysTwice, KeptTwice DEF GoesFor
  <2> QED BY <2>1, <2>2
<1>6. t.fault => r.fault \/ R # {}
  BY <1>3, <1>4 DEF Goes
<1> QED BY <1>5, <1>6 DEF Goes

\* Who revives comes in like who enters.
LEMMA ReviveAside ==
  ASSUME NEW r \in RoomType, HeldTicks(r), NEW x \in Actor, NEW full, NEW s \in Revive(r, x, full)
  PROVE  /\ s \in RoomType /\ s.fault = r.fault
         /\ \A o \in Object : o # x => Untouched(r, s, o)
<1>1. PICK e : Elsewhere(r, e) /\ s \in RoomType /\ ActorEnters(e, x, s)
  BY ReviveDoes
<1>2. /\ e \in RoomType /\ JobsOf(e) = JobsOf(r) /\ PlaceOf(e) = PlaceOf(r) /\ FlightOf(e) = FlightOf(r)
  BY <1>1 DEF Elsewhere
<1>3. e.queue = r.queue /\ e.held = r.held /\ e.fault = r.fault /\ s.fault = e.fault
  BY <1>1, <1>2 DEF JobsOf, FlightOf, ActorEnters
<1>4. ASSUME NEW o \in Object, o # x PROVE Untouched(r, s, o)
  <2>1. HeldTicks(e)
    BY <1>2, <1>3, HeldTicksSame
  <2>2. Untouched(r, e, o)
    BY <1>2, SameAside
  <2>3. Untouched(e, s, o)
    BY <1>1, <1>2, <1>4, <2>1, EnterAside
  <2> QED BY <1>1, <1>2, <2>2, <2>3, UntouchedTwice
<1> QED BY <1>1, <1>3, <1>4

\* And is as sound.
LEMMA ReviveSound ==
  ASSUME NEW r \in RoomType, HeldTicks(r), NEW L, NEW x \in Actor, SoundFor(r, L, x),
         x \notin r.present, ~Has(r.queue, x, "enter"), NEW full, NEW s \in Revive(r, x, full)
  PROVE  SoundFor(s, L, x) /\ x \in s.present /\ x \in s.inRoom /\ Follows(r.queue, s.queue, x)
<1>1. PICK e : Elsewhere(r, e) /\ s \in RoomType /\ ActorEnters(e, x, s)
  BY ReviveDoes
<1>2. /\ e \in RoomType /\ JobsOf(e) = JobsOf(r) /\ PlaceOf(e) = PlaceOf(r) /\ FlightOf(e) = FlightOf(r)
  BY <1>1 DEF Elsewhere
<1>3. e.queue = r.queue /\ e.held = r.held /\ e.present = r.present
  BY <1>2 DEF JobsOf, PlaceOf
<1>4. Untouched(r, e, x)
  BY <1>2, SameAside
<1>5. HeldTicks(e) /\ SoundFor(e, L, x)
  BY <1>2, <1>3, <1>4, HeldTicksSame, UntouchedSound
<1>6. SoundFor(s, L, x) /\ x \in s.present /\ x \in s.inRoom /\ Follows(e.queue, s.queue, x)
  BY <1>1, <1>2, <1>3, <1>5, EnterSound
<1> QED BY <1>3, <1>6

\* A random jump runs.
LEMMA JumpGoes ==
  ASSUME NEW r \in RoomType, r.queue # <<>>, NEW L, NEW R \in SUBSET Actor, Sound(r, L, R),
         NEW s, s = Popped(r), HeldTicks(s),
         NEW p \in Players, r.queue[1].obj = p, r.queue[1].op = "random", p \in r.inRoom,
         NEW t \in Revive(Leave(s, p), p, FALSE)
  PROVE  Goes(r, t, L, R)
<1>0. p \in Object /\ p \in Actor /\ p \notin Arrows /\ p \notin Monsters
  BY ObjectIs
<1>1. s \in RoomType /\ PlaceOf(s) = PlaceOf(r) /\ Sound(s, L, R)
  BY PoppedDoes, PoppedSound
<1>2. PICK l : l = Leave(s, p)
  OBVIOUS
<1>3. /\ l \in RoomType /\ l.fault = s.fault /\ HeldTicks(l) /\ p \notin l.present
      /\ \A o \in Object : o # p => Untouched(s, l, o)
      /\ Follows(s.queue, l.queue, p)
  <2>1. CASE p \in s.present
    BY <1>0, <1>1, <1>2, <2>1, LeaveAside
  <2>2. CASE p \notin s.present
    <3>1. l = s
      BY <1>0, <1>1, <1>2, <2>2, LeaveDoes
    <3>2. s.queue \in Seq(Job)
      BY <1>1, QueueIs
    <3>3. Follows(s.queue, s.queue, p)
      BY <3>2, FollowsTwice
    <3>4. \A o \in Object : Untouched(s, s, o)
      BY <1>1, SameAside
    <3> QED BY <1>1, <2>2, <3>1, <3>3, <3>4
  <2> QED BY <2>1, <2>2
<1>4. PICK full : t \in Revive(l, p, full)
  BY <1>2
<1>5. /\ t \in RoomType /\ t.fault = l.fault
      /\ \A o \in Object : o # p => Untouched(l, t, o)
  BY <1>0, <1>3, <1>4, ReviveAside
<1>6. ASSUME NEW o \in Object, o # p PROVE Untouched(s, t, o)
  BY <1>1, <1>3, <1>5, <1>6, UntouchedTwice
<1>7. ASSUME p \notin R PROVE GoesFor(r, t, L, p)
  <2>1. p \in s.inRoom /\ SoundFor(s, L, p)
    BY <1>0, <1>1, <1>7 DEF PlaceOf, Sound
  <2>2. SoundFor(l, L, p) /\ l.inRoom = s.inRoom
    <3>1. CASE p \in s.present
      BY <1>0, <1>1, <1>2, <2>1, <3>1, LeaveSound
    <3>2. CASE p \notin s.present
      BY <1>0, <1>1, <1>2, <2>1, <3>2, LeaveDoes
    <3> QED BY <3>1, <3>2
  <2>3. ~Has(l.queue, p, "enter")
    BY <1>0, <2>1, <2>2 DEF SoundFor, Entered
  <2>4. SoundFor(t, L, p) /\ p \in t.present /\ Follows(l.queue, t.queue, p)
    BY <1>0, <1>3, <1>4, <2>2, <2>3, ReviveSound
  <2>5. Follows(r.queue, t.queue, p)
    <3>1. Untouched(r, s, p)
      <4>1. "random" # "leave"
        OBVIOUS
      <4> QED BY <4>1, PoppedAside
    <3>2. Follows(r.queue, s.queue, p)
      BY <3>1 DEF Untouched, JobAside
    <3>3. r.queue \in Seq(Job) /\ s.queue \in Seq(Job) /\ l.queue \in Seq(Job) /\ t.queue \in Seq(Job)
      BY <1>1, <1>3, <1>5, QueueIs
    <3>4. Follows(r.queue, l.queue, p)
      BY <1>3, <3>2, <3>3, FollowsTwice
    <3> QED BY <2>4, <3>3, <3>4, FollowsTwice
  <2>6. Has(r.queue, p, "random") /\ "random" \in Acts
    <3>1. PICK q : q = r.queue
      OBVIOUS
    <3>2. q \in Seq(Job) /\ q # <<>> /\ q[1].obj = p /\ q[1].op = "random"
      BY <3>1, QueueIs
    <3>3. Has(q, p, "random")
      BY <3>2, TailTells
    <3> QED BY <3>1, <3>3 DEF Acts
  <2>7. ~NotYet(r, p)
    BY DEF NotYet
  <2>8. Stays(r, t, L, p)
    BY <1>0, <1>5, <2>4, <2>5, <2>6, <2>7, PresentStays
  <2>9. ~Quiet(r, p)
    BY DEF Quiet
  <2> QED BY <2>4, <2>8, <2>9 DEF GoesFor
<1> QED BY <1>0, <1>3, <1>5, <1>6, <1>7, JobGoes

\* A reserved job takes the handle from no other.
LEMMA ReservedAside ==
  ASSUME NEW r \in RoomType, HeldTicks(r), NEW x \in Actor, NEW s \in RoomType,
         s.queue = Unnamed(r.queue, x), s.held = r.held \cup {x},
         s.stray = [r.stray EXCEPT ![x] = IF x \in r.held THEN @ + 1 ELSE @],
         NEW o \in Object, x \in Players => o # x \/ ~Looked(r, x)
  PROVE  /\ Follows(r.queue, s.queue, o)
         /\ o # x => JobAside(r, s, o)
         /\ o \in Monsters => JobAside(r, s, o)
         /\ o \in Players => s.stray[o] = r.stray[o]
<1>1. x \in Object
  BY ObjectIs
<1>2. Touched(r, x, s)
  <2>1. PICK u : u = Reserve(r, x)
    OBVIOUS
  <2>2. /\ u.queue = Unnamed(r.queue, x) /\ u.held = r.held \cup {x}
        /\ u.stray = [r.stray EXCEPT ![x] = IF x \in r.held THEN @ + 1 ELSE @]
    BY <1>1, <2>1, ReserveDoes
  <2>3. JobsOf(s) = JobsOf(u)
    BY <2>2 DEF JobsOf
  <2>4. Touched(r, x, u)
    BY <1>1, <2>1, LoseHandleTouches
  <2> QED BY <2>3, <2>4, TouchedSame
<1> QED BY <1>1, <1>2, TouchedAside

\* An update of a view runs.
LEMMA ViewGoes ==
  ASSUME NEW r \in RoomType, r.queue # <<>>, NEW L, NEW R \in SUBSET Actor, Sound(r, L, R),
         NEW s, s = Popped(r), HeldTicks(s),
         NEW p \in Players, r.queue[1].obj = p, r.queue[1].op = "tick",
         NEW t, t = ViewUpdate(s, p)
  PROVE  (p \notin R => r.queue[1].held) /\ Goes(r, t, L, R)
<1>0. p \in Object /\ p \in Actor /\ p \notin Arrows /\ p \notin Monsters /\ "tick" # "leave"
  BY ObjectIs
<1>1. /\ s \in RoomType /\ s.queue = Tail(r.queue) /\ s.held = r.held /\ s.stray = r.stray
      /\ PlaceOf(s) = PlaceOf(r) /\ Sound(s, L, R)
  BY PoppedDoes, PoppedSound
<1>2. /\ t \in RoomType
      /\ t.queue = Unnamed(s.queue, p) /\ t.held = s.held \cup {p}
      /\ t.stray = [s.stray EXCEPT ![p] = IF p \in s.held THEN @ + 1 ELSE @]
      /\ PlaceOf(t) = PlaceOf(s) /\ FightOf(t) = FightOf(s) /\ FlightOf(t) = FlightOf(s)
  BY <1>1, ViewUpdateDoes
<1>3. t.used = s.used /\ t.fault = s.fault /\ t.present = r.present
  BY <1>1, <1>2 DEF FlightOf, PlaceOf
<1>4. ASSUME NEW o \in Object, o # p PROVE Untouched(s, t, o)
  <2>1. JobAside(s, t, o)
    BY <1>0, <1>1, <1>2, <1>4, ReservedAside
  <2>2. PlaceAside(s, t, o)
    BY <1>1, <1>2, SameAside
  <2> QED BY <1>3, <2>1, <2>2 DEF Untouched
<1>5. ASSUME p \notin R PROVE r.queue[1].held /\ GoesFor(r, t, L, p)
  <2>1. SoundFor(r, L, p) /\ SoundFor(s, L, p)
    BY <1>0, <1>1, <1>5 DEF Sound
  <2>2. PICK q, u : q = r.queue /\ u = s.queue
    OBVIOUS
  <2>3. /\ q \in Seq(Job) /\ q # <<>> /\ q[1].obj = p /\ q[1].op = "tick" /\ 1 \in DOMAIN q
        /\ OneView(q, p)
    BY <1>0, <2>1, <2>2, QueueIs, TailIs DEF SoundFor, Viewed
  <2>4. q[1].held
    BY <2>3 DEF OneView
  <2>5. ~Named(Tail(q), p) /\ Named(q, p)
    BY <2>3, <2>4, TailTells
  <2>6. p \in r.present /\ p \notin r.held
    BY <1>0, <2>1, <2>2, <2>5 DEF SoundFor, Viewed
  <2>7. ~Named(u, p)
    BY <1>1, <2>2, <2>5
  <2>8. ~Looked(s, p)
    BY <1>1, <2>2, <2>6, <2>7 DEF Looked
  <2>9. Follows(s.queue, t.queue, p) /\ t.stray[p] = s.stray[p]
    BY <1>0, <1>1, <1>2, <2>8, ReservedAside
  <2>10. Untouched(r, s, p)
    BY <1>0, PoppedAside
  <2>11. Stays(r, s, L, p) /\ Kept(r, s, p)
    BY <1>1, <2>10, UntouchedSound
  <2>12. PICK v : v = t.queue
    OBVIOUS
  <2>13. /\ u \in Seq(Job) /\ v \in Seq(Job) /\ Fewer(u, v, p) /\ (Has(u, p, "leave") => Has(v, p, "leave"))
         /\ "enter" # "none" /\ "leave" # "none"
    BY <1>1, <1>2, <2>2, <2>9, <2>12, QueueIs DEF Follows
  <2>14. /\ \A op : op # "none" /\ Has(v, p, op) => Has(u, p, op)
         /\ Once(u, p, "enter") => Once(v, p, "enter")
         /\ \A S : Only(u, p, S) => Only(v, p, S)
         /\ LeaveLast(u, p) => LeaveLast(v, p)
         /\ OneView(u, p) => OneView(v, p)
         /\ ~Named(v, p)
    BY <2>7, <2>13, FewerKeeps
  <2>15. PlaceAside(s, t, p)
    BY <1>1, <1>2, SameAside
  <2>16. (p \in t.present <=> p \in s.present) /\ (p \in t.inRoom <=> p \in s.inRoom)
    BY <2>15 DEF PlaceAside
  <2>17. Kept(s, t, p)
    BY <1>1, <1>2, <2>9, <2>16, FollowsKept
  <2>18. Viewed(t, p)
    <3>1. s.stray[p] = 0 /\ OneView(u, p)
      BY <1>0, <2>1, <2>2 DEF SoundFor, Viewed
    <3>2. p \in t.present
      BY <1>3, <2>6
    <3> QED BY <2>9, <2>12, <2>14, <3>1, <3>2 DEF Viewed
  <2>19. Entered(t, p)
    BY <1>0, <2>1, <2>2, <2>12, <2>13, <2>14, <2>16 DEF SoundFor, Entered
  <2>20. p \notin L => Stands(t, p)
    BY <1>0, <2>1, <2>15 DEF SoundFor, Stands, PlaceAside
  <2>21. NotYet(s, p) => NotYet(t, p)
    BY <2>2, <2>12, <2>14, <2>16 DEF NotYet
  <2>22. Staying(s, p) => Staying(t, p)
    BY <2>2, <2>12, <2>13, <2>14, <2>16 DEF Staying
  <2>23. Departing(s, p) => Departing(t, p)
    <3>1. \A op \in Acts : Has(v, p, op) => Has(u, p, op)
      BY <2>14 DEF Acts
    <3>2. Has(v, p, "leave") <=> Has(u, p, "leave")
      BY <2>13, <2>14
    <3> QED BY <2>2, <2>12, <2>14, <2>16, <3>1, <3>2 DEF Departing
  <2>24. Stays(s, t, L, p)
    BY <2>21, <2>22, <2>23 DEF Stays
  <2>25. Stays(r, t, L, p) /\ Kept(r, t, p)
    BY <2>11, <2>17, <2>24, StaysTwice, KeptTwice
  <2>26. SoundFor(t, L, p)
    BY <1>0, <2>18, <2>19, <2>20 DEF SoundFor
  <2> QED BY <2>2, <2>4, <2>25, <2>26 DEF GoesFor
<1> QED BY <1>0, <1>3, <1>2, <1>4, <1>5, JobGoes

\* One that is not the cube's own runs: it is a fault.
LEMMA StrayViewGoes ==
  ASSUME NEW r \in RoomType, r.queue # <<>>, NEW L, NEW R \in SUBSET Actor, Sound(r, L, R), NEW s, s = Popped(r),
         NEW p \in Players, r.queue[1].obj = p, r.queue[1].op = "tick", p \in R,
         NEW t, t = Faulty(s)
  PROVE  Goes(r, t, L, R)
<1>1. p \in Object /\ s \in RoomType
  BY PoppedDoes, ObjectIs
<1>2. /\ t \in RoomType /\ JobsOf(t) = JobsOf(s) /\ PlaceOf(t) = PlaceOf(s)
      /\ FlightOf(t) = <<s.owner, s.used, s.hits, TRUE>>
  BY <1>1, FaultyDoes
<1>3. t.used = s.used
  BY <1>2 DEF FlightOf
<1>4. \A o \in Object : Untouched(s, t, o)
  BY <1>1, <1>2, <1>3, SameAside DEF Untouched
<1> QED BY <1>1, <1>2, <1>4, JobGoes

\* An update of a monster runs.
LEMMA MonsterGoes ==
  ASSUME NEW r \in RoomType, r.queue # <<>>, NEW L, NEW R \in SUBSET Actor, Sound(r, L, R), NEW s, s = Popped(r), HeldTicks(s),
         NEW m \in Monsters, r.queue[1].obj = m, r.queue[1].op = "tick",
         NEW t \in MonsterUpdate(s, m)
  PROVE  Goes(r, t, L, R)
<1>0. m \in Object /\ m \in Actor /\ m \notin Arrows /\ m \notin Players /\ "tick" # "leave"
  BY ObjectIs
<1>1. s \in RoomType /\ PlaceOf(s) = PlaceOf(r)
  BY PoppedDoes
<1>2. CASE m \in s.inRoom
  <2>1. /\ Acted(s, m, t)
        /\ t.queue = Unnamed(s.queue, m) /\ t.held = s.held \cup {m}
        /\ t.stray = [s.stray EXCEPT ![m] = IF m \in s.held THEN @ + 1 ELSE @]
    BY <1>1, <1>2, MonsterUpdateDoes
  <2>2. t \in RoomType /\ Moves(s, m, t) /\ FlightOf(t) = FlightOf(s)
    BY <2>1 DEF Acted
  <2>3. ASSUME NEW o \in Object PROVE JobAside(s, t, o)
    BY <1>0, <1>1, <2>1, <2>2, ReservedAside
  <2>4. m \notin R => (m \in r.inRoom => m \in r.present)
    BY <1>0 DEF Sound, SoundFor, Entered
  <2> QED BY <1>0, <2>2, <2>3, <2>4, MoveGoes
<1>3. CASE m \notin s.inRoom
  <2>1. t = s
    BY <1>3 DEF MonsterUpdate
  <2> QED BY <1>0, <2>1, QuietGoes
<1> QED BY <1>2, <1>3

\* An update of an arrow runs.
LEMMA ArrowGoes ==
  ASSUME NEW r \in RoomType, r.queue # <<>>, ~r.fault, NEW L, NEW R \in SUBSET Actor, Sound(r, L, R), NEW s, s = Popped(r), HeldTicks(s),
         NEW a \in Arrows, ArrowFine(r, a), r.queue[1].obj = a, r.queue[1].op = "tick",
         NEW t, t = ArrowUpdate(s, a)
  PROVE  Goes(r, t, L, R)
<1>0. a \in Object /\ a \notin Actor /\ a \notin Players /\ a \notin Monsters /\ "tick" # "leave"
  BY ObjectIs
<1>1. s \in RoomType /\ Sound(s, L, R) /\ PlaceOf(s) = PlaceOf(r) /\ FlightOf(s) = FlightOf(r)
  BY PoppedDoes, PoppedSound
<1>2. s.owner = r.owner /\ s.inRoom = r.inRoom /\ s.present = r.present
  BY <1>1 DEF FlightOf, PlaceOf
<1>3. \/ r.owner[a] = None
      \/ r.owner[a] # None /\ a \in r.inRoom /\ Ready(s, a)
  BY TakenArrow
<1>4. CASE r.owner[a] = None
  <2>1. t = s
    BY <1>2, <1>4 DEF ArrowUpdate
  <2> QED BY <1>0, <2>1, QuietGoes
<1>5. CASE r.owner[a] # None
  <2>1. s.owner[a] # None /\ a \in s.inRoom /\ a \in s.used
    BY <1>2, <1>3, <1>5 DEF Ready
  <2>2. ArrowFlies(s, a, t) \/ ArrowStrikes(s, a, t)
    BY <1>1, <2>1, ArrowUpdateDoes
  <2>3. SoundFor(s, L, a)
    BY <1>0, <1>1 DEF Sound
  <2>4. \A c \in Cell : s.grid[c] = a => s.cell[a] = c
    BY <2>3 DEF SoundFor, Shot
  <2>5. /\ t \in RoomType /\ t.fault = s.fault /\ a \in t.used
        /\ t.present = s.present
        /\ \A o \in Object : o # a => Untouched(s, t, o)
        /\ \A c \in Cell : t.grid[c] = a => t.cell[a] = c
    BY <1>1, <2>1, <2>2, <2>4, ArrowActs
  <2>6. a \in t.present
    BY <2>1, <2>3, <2>5 DEF SoundFor, Shot
  <2>7. GoesFor(r, t, L, a)
    BY <1>0, <2>5, <2>6 DEF SoundFor, Shot, Stays, GoesFor
  <2> QED BY <1>0, <2>5, <2>7, JobGoes
<1> QED BY <1>4, <1>5

\* An update falls due: for a player it is the one of his view.
LEMMA TickSound ==
  ASSUME NEW r \in RoomType, NEW s \in RoomType, NEW L, NEW o \in Object, SoundFor(r, L, o),
         NEW j \in Job, j.op = "tick", j.obj = o, s.queue = Append(r.queue, j),
         PlaceOf(s) = PlaceOf(r), FlightOf(s) = FlightOf(r),
         o \in Players => j.held /\ o \in r.held /\ o \notin s.held /\ s.stray[o] = r.stray[o]
  PROVE  SoundFor(s, L, o) /\ Stays(r, s, L, o) /\ Kept(r, s, o)
<1>0. (o \in Arrows => o \notin Actor) /\ (o \in Players => o \notin Monsters) /\ (o \in Players => o \in Actor)
      /\ (o \in Monsters => o \in Actor)
  BY ObjectIs
<1>1. PlaceAside(r, s, o) /\ s.used = r.used
  BY SameAside DEF FlightOf
<1>2. PICK q, t : q = r.queue /\ t = s.queue
  OBVIOUS
<1>3. q \in Seq(Job) /\ t = Append(q, j)
  BY <1>2, QueueIs
<1>4. /\ \A op : Has(t, o, op) <=> Has(q, o, op) \/ j.op = op
      /\ Named(t, o) <=> Named(q, o) \/ j.held
      /\ \A op : Once(q, o, op) /\ (j.op # op \/ ~Has(q, o, op)) => Once(t, o, op)
      /\ \A S : Only(q, o, S) /\ j.op \in S => Only(t, o, S)
      /\ LeaveLast(q, o) /\ (j.op \in Acts \cup {"leave"} => ~Has(q, o, "leave")) => LeaveLast(t, o)
      /\ OneView(q, o) /\ (j.op = "tick" => j.held) /\ (j.held => ~Named(q, o)) => OneView(t, o)
  BY <1>3, AppendTells
<1>5. \A op \in Acts \cup {"leave"} : Has(t, o, op) <=> Has(q, o, op)
  BY <1>4 DEF Acts
<1>6. j.op \notin Acts \cup {"leave"}
  BY DEF Acts
<1>7. Entered(r, o) => Entered(s, o)
  <2>1. Has(t, o, "enter") <=> Has(q, o, "enter")
    BY <1>5 DEF Acts
  <2>2. Once(q, o, "enter") => Once(t, o, "enter")
    BY <1>4
  <2>3. Only(q, o, {"enter", "tick"}) => Only(t, o, {"enter", "tick"})
    BY <1>4
  <2> QED BY <1>1, <1>2, <2>1, <2>2, <2>3 DEF Entered, PlaceAside
<1>8. Stands(r, o) => Stands(s, o)
  BY <1>1 DEF Stands, PlaceAside
<1>9. Shot(r, o) => Shot(s, o)
  BY <1>1, <1>2, <1>5 DEF Shot, PlaceAside
<1>10. o \in Players => Viewed(r, o)
  BY DEF SoundFor
<1>11. o \in Players => Viewed(s, o)
  <2>1. o \in Players => OneView(t, o)
    BY <1>2, <1>4, <1>10 DEF Viewed
  <2> QED BY <1>1, <1>2, <1>10, <2>1 DEF Viewed, PlaceAside
<1>12. SoundFor(s, L, o)
  BY <1>7, <1>8, <1>9, <1>11 DEF SoundFor
<1>13. o \in Players => ~NotYet(r, o)
  BY <1>0, <1>10 DEF SoundFor, Viewed, Entered, NotYet
<1>14. Staying(r, o) => Staying(s, o)
  BY <1>1, <1>2, <1>5 DEF Staying, PlaceAside
<1>15. Departing(r, o) => Departing(s, o)
  <2>1. LeaveLast(q, o) => LeaveLast(t, o)
    BY <1>4, <1>6
  <2>2. \A op \in Acts : Has(t, o, op) => Has(q, o, op)
    BY <1>5
  <2>3. Has(t, o, "leave") <=> Has(q, o, "leave")
    BY <1>5
  <2> QED BY <1>1, <1>2, <2>1, <2>2, <2>3 DEF Departing, PlaceAside
<1>16. Kept(r, s, o)
  <2>1. Has(t, o, "enter") <=> Has(q, o, "enter")
    BY <1>5 DEF Acts
  <2>2. (Has(t, o, "leave") <=> Has(q, o, "leave")) /\ (LeaveLast(q, o) => LeaveLast(t, o))
    BY <1>4, <1>5, <1>6
  <2> QED BY <1>1, <1>2, <2>1, <2>2 DEF Kept, PlaceAside
<1>17. Stays(r, s, L, o)
  BY <1>13, <1>14, <1>15 DEF Stays
<1> QED BY <1>12, <1>16, <1>17

\* A reserved job falls due; the update of a released view may, of one whose OnDeadAnim
\* was overtaken.
LEMMA FiredGoes ==
  ASSUME NEW r \in RoomType, HeldTicks(r), NEW L, NEW R \in SUBSET Actor, Sound(r, L, R), NEW o \in Object, NEW s,
         \/ o \in r.held /\ s = FiredHeld(r, o)
         \/ r.stray[o] > 0 /\ s = FiredStray(r, o)
  PROVE  /\ Goes(r, s, L, R)
         /\ \A x \in Actor \ R : Kept(r, s, x)
<1>0. r.stray \in [Object -> Nat]
  BY RoomIs
<1>1. PICK j \in Job :
        /\ j.op = "tick" /\ j.obj = o /\ s \in RoomType /\ s.queue = Append(r.queue, j)
        /\ PlaceOf(s) = PlaceOf(r) /\ FlightOf(s) = FlightOf(r)
        /\ \A x \in Object : x # o => s.stray[x] = r.stray[x] /\ (x \in s.held => x \in r.held)
        /\ o \in Players /\ o \notin R => j.held /\ o \in r.held /\ o \notin s.held /\ s.stray[o] = r.stray[o]
  <2>1. CASE o \in r.held /\ s = FiredHeld(r, o)
    <3>1. HeldTick(o) \in Job /\ HeldTick(o).op = "tick" /\ HeldTick(o).obj = o /\ HeldTick(o).held
      BY HeldTickIs
    <3>2. /\ s \in RoomType /\ s.queue = Append(r.queue, HeldTick(o))
          /\ s.held = r.held \ {o} /\ s.stray = r.stray
          /\ PlaceOf(s) = PlaceOf(r) /\ FightOf(s) = FightOf(r) /\ FlightOf(s) = FlightOf(r)
      BY <2>1, FiredHeldDoes
    <3>3. /\ \A x \in Object : x # o => s.stray[x] = r.stray[x] /\ (x \in s.held => x \in r.held)
          /\ o \notin s.held /\ s.stray[o] = r.stray[o]
      BY <3>2
    <3> QED BY <2>1, <3>1, <3>2, <3>3
  <2>2. CASE r.stray[o] > 0 /\ s = FiredStray(r, o)
    <3>1. NewJob("tick", o) \in Job /\ NewJob("tick", o).op = "tick" /\ NewJob("tick", o).obj = o
      <4>1. "tick" \in Op
        BY DEF Op
      <4> QED BY <4>1, NewJobIs
    <3>2. /\ s \in RoomType /\ s.queue = Append(r.queue, NewJob("tick", o))
          /\ s.held = r.held /\ s.stray = [r.stray EXCEPT ![o] = @ - 1]
          /\ PlaceOf(s) = PlaceOf(r) /\ FightOf(s) = FightOf(r) /\ FlightOf(s) = FlightOf(r)
      BY <2>2, FiredStrayDoes, SMTT(60)
    <3>3. \A x \in Object : x # o => s.stray[x] = r.stray[x] /\ (x \in s.held => x \in r.held)
      BY <1>0, <3>2
    <3>4. o \notin Players \/ o \in R
      <4>1. o \in Players /\ o \notin R => r.stray[o] = 0
        BY DEF Sound, SoundFor, Viewed
      <4> QED BY <2>2, <4>1
    <3> QED BY <3>1, <3>2, <3>3, <3>4
  <2> QED BY <2>1, <2>2
<1>2. s.used = r.used /\ s.fault = r.fault
  BY <1>1 DEF FlightOf
<1>3. ASSUME NEW x \in Object, x # o PROVE Untouched(r, s, x)
  <2>1. JobAside(r, s, x)
    BY <1>1, <1>3, PushAside
  <2>2. PlaceAside(r, s, x)
    BY <1>1, SameAside
  <2> QED BY <1>2, <2>1, <2>2 DEF Untouched
<1>4. o \notin R => SoundFor(s, L, o) /\ Stays(r, s, L, o) /\ Kept(r, s, o)
  BY <1>1, TickSound DEF Sound
<1>5. ASSUME NEW x \in Object \ R, x # o PROVE SoundFor(s, L, x) /\ Stays(r, s, L, x) /\ Kept(r, s, x)
  BY <1>1, <1>3, <1>5, UntouchedSound DEF Sound
<1>6. \A x \in Object \ R : SoundFor(s, L, x) /\ Stays(r, s, L, x) /\ Kept(r, s, x)
  BY <1>4, <1>5
<1> QED BY <1>2, <1>6, ObjectIs DEF Goes, GoesFor

\* Whatever the room does next, what it was sound in it is sound in.
LEMMA RoomGoes ==
  ASSUME TypeOK, RoomFine(room), Sound(room, late, raced), NEW R, R = raced',
         \A p \in Players \ (late \cup raced \cup Reviving) : Staying(room, p) \/ Departing(room, p),
         RunJob \/ \E o \in Object : FireHeld(o) \/ FireStray(o)
  PROVE  /\ Goes(room, room', late, R) /\ UNCHANGED session /\ raced \subseteq R
         /\ \A o \in Reviving \ R : ~Has(room.queue, o, "enter") => Kept(room, room', o)
<1> DEFINE Fires == \E o \in Object : FireHeld(o) \/ FireStray(o)
<1>0. /\ room \in RoomType /\ R \in SUBSET Actor /\ raced \subseteq R
      /\ RunJob => Overtaken \subseteq R
  <2>1. Fires => R = raced
    BY DEF FireHeld, FireStray
  <2>2. RunJob => R = raced \cup Overtaken
    BY DEF RunJob
  <2> QED BY <2>1, <2>2, RevivingIs DEF TypeOK
<1>a. Sound(room, late, R)
  BY <1>0 DEF Sound
<1>1. ASSUME NEW o \in Object, EnterJob(o) PROVE Goes(room, room', late, R)
  <2>1. /\ popped \in RoomType /\ popped = Popped(room) /\ HeldTicks(popped)
        /\ room.queue # <<>> /\ room.queue[1].obj = o /\ room.queue[1].op = "enter" /\ ~room.fault
        /\ room' \in Enter(popped, o)
    BY <1>1, RunsIs DEF EnterJob
  <2>2. CASE o \in Actor
    <3>1. room' \in RoomType /\ ActorEnters(popped, o, room')
      BY <2>1, <2>2, EnterActorDoes
    <3> QED BY <1>0, <1>a, <2>1, <2>2, <3>1, EnterGoes
  <2>3. CASE o \in Arrows
    <3>1. o \notin Players /\ o \notin Monsters
      BY <2>3, ObjectIs
    <3>2. room' = EnterArrow(popped, o)
      BY <2>1, <2>3, <3>1 DEF Enter
    <3>3. room' \in RoomType /\ ArrowEnters(popped, o, room')
      BY <2>1, <2>3, <3>2, EnterArrowDoes
    <3>4. Ready(popped, o)
      BY <1>0, <1>a, <2>1, <2>3, TakenArrow DEF RoomFine
    <3> QED BY <1>0, <1>a, <2>1, <2>3, <3>3, <3>4, LaunchGoes
  <2> QED BY <2>2, <2>3 DEF Object
<1>2. ASSUME NEW o \in Object, LeaveJob(o) PROVE Goes(room, room', late, R)
  <2>1. /\ popped = Popped(room) /\ HeldTicks(popped)
        /\ room.queue # <<>> /\ room.queue[1].obj = o /\ room.queue[1].op = "leave" /\ ~room.fault
        /\ room' = Leave(popped, o)
    BY <1>2, RunsIs DEF LeaveJob
  <2> QED BY <1>0, <1>a, <2>1, LeaveGoes
<1>3. ASSUME NEW o \in Object, EmptyJob(o) PROVE Goes(room, room', late, R)
  <2>1. /\ popped = Popped(room)
        /\ room.queue # <<>> /\ room.queue[1].obj = o /\ room.queue[1].op # "leave"
        /\ room' = popped
    BY <1>3, RunsIs DEF EmptyJob
  <2> QED BY <1>0, <1>a, <2>1, QuietGoes
<1>4. ASSUME RunJob, NEW p \in Players, HandleMove(p) PROVE Goes(room, room', late, R)
  <2>1. /\ popped = Popped(room)
        /\ room.queue # <<>> /\ room.queue[1].obj = p /\ room.queue[1].op = "move"
    BY <1>4, RunsIs DEF HandleMove
  <2>2. CASE room' = popped
    BY <1>0, <1>a, <2>1, <2>2, QuietGoes, ObjectIs
  <2>3. CASE room' # popped
    <3>1. PICK e, c : Elsewhere(popped, e) /\ c \in Cell /\ room' = ApplyMove(e, p, c)
      BY <1>4, <2>3, HandleMoveDoes
    <3>2. p \notin R => p \notin Reviving
      BY <1>0, <1>4 DEF Overtaken, HandleMove
    <3>3. p \notin late \cup R => Staying(room, p) \/ Departing(room, p)
      BY <1>0, <3>2
    <3> QED BY <1>0, <1>a, <2>1, <3>1, <3>3, HandleMoveGoes
  <2> QED BY <2>2, <2>3
<1>5. ASSUME NEW p \in Players, HandleSkill(p) PROVE Goes(room, room', late, R)
  <2>1. /\ popped = Popped(room) /\ p \in Object
        /\ room.queue # <<>> /\ room.queue[1].obj = p /\ room.queue[1].op = "skill"
        /\ "skill" # "leave"
    BY <1>5, RunsIs, ObjectIs DEF HandleSkill
  <2>2. CASE room' = popped
    BY <1>0, <1>a, <2>1, <2>2, QuietGoes
  <2>3. CASE room' # popped
    <3>1. PICK e : Elsewhere(popped, e) /\ \/ room' = e
                                           \/ \E a \in Arrows \ room.used : room' = PushJob(Made(e, p, a), NewJob("enter", a))
      BY <1>5, <2>3, HandleSkillDoes
    <3>2. CASE room' = e
      BY <1>0, <1>a, <2>1, <3>1, <3>2, ElsewhereGoes
    <3>3. CASE \E a \in Arrows \ room.used : room' = PushJob(Made(e, p, a), NewJob("enter", a))
      BY <1>0, <1>a, <2>1, <3>1, <3>3, MadeGoes
    <3> QED BY <3>1, <3>2, <3>3
  <2> QED BY <2>2, <2>3
<1>6. ASSUME NEW p \in Players, HandleGoRandom(p) PROVE Goes(room, room', late, R)
  <2>1. /\ popped = Popped(room) /\ p \in Object /\ HeldTicks(popped)
        /\ room.queue # <<>> /\ room.queue[1].obj = p /\ room.queue[1].op = "random"
        /\ "random" # "leave"
    BY <1>6, RunsIs, ObjectIs DEF HandleGoRandom
  <2>2. CASE p \in room.inRoom
    <3>1. room' \in Revive(Leave(popped, p), p, FALSE)
      BY <1>6, <2>2 DEF HandleGoRandom
    <3> QED BY <1>0, <1>a, <2>1, <2>2, <3>1, JumpGoes
  <2>3. CASE p \notin room.inRoom
    <3>1. room' = popped
      BY <1>6, <2>3 DEF HandleGoRandom
    <3> QED BY <1>0, <1>a, <2>1, <3>1, QuietGoes
  <2> QED BY <2>2, <2>3
<1>7. ASSUME NEW p \in Players, ViewJob(p) PROVE Goes(room, room', late, R)
  <2>1. /\ popped = Popped(room) /\ HeldTicks(popped)
        /\ room.queue # <<>> /\ room.queue[1].obj = p /\ room.queue[1].op = "tick"
    BY <1>7, RunsIs DEF ViewJob
  <2>2. PICK t : t = ViewUpdate(popped, p)
    OBVIOUS
  <2>3. (p \notin R => room.queue[1].held) /\ Goes(room, t, late, R)
    BY <1>0, <1>a, <2>1, <2>2, ViewGoes
  <2>4. CASE room.queue[1].held
    BY <1>7, <2>2, <2>3, <2>4 DEF ViewJob
  <2>5. CASE ~room.queue[1].held
    <3>1. p \in R /\ room' = Faulty(popped)
      BY <1>7, <2>3, <2>5 DEF ViewJob, Faulty
    <3> QED BY <1>0, <1>a, <2>1, <3>1, StrayViewGoes
  <2> QED BY <2>4, <2>5
<1>8. ASSUME NEW m \in Monsters, MonsterJob(m) PROVE Goes(room, room', late, R)
  <2>1. /\ popped = Popped(room) /\ HeldTicks(popped)
        /\ room.queue # <<>> /\ room.queue[1].obj = m /\ room.queue[1].op = "tick"
        /\ room' \in MonsterUpdate(popped, m)
    BY <1>8, RunsIs DEF MonsterJob
  <2> QED BY <1>0, <1>a, <2>1, MonsterGoes
<1>9. ASSUME NEW a \in Arrows, ArrowJob(a) PROVE Goes(room, room', late, R)
  <2>1. /\ popped = Popped(room) /\ HeldTicks(popped) /\ ~room.fault /\ ArrowFine(room, a)
        /\ room.queue # <<>> /\ room.queue[1].obj = a /\ room.queue[1].op = "tick"
        /\ room' = ArrowUpdate(popped, a)
    BY <1>9, RunsIs DEF ArrowJob, RoomFine
  <2> QED BY <1>0, <1>a, <2>1, ArrowGoes
<1>10. ASSUME NEW o \in Object, FireHeld(o) \/ FireStray(o)
       PROVE  Goes(room, room', late, R) /\ \A x \in Actor \ R : Kept(room, room', x)
  <2>1. \/ o \in room.held /\ room' = FiredHeld(room, o)
        \/ room.stray[o] > 0 /\ room' = FiredStray(room, o)
    BY <1>10 DEF FireHeld, FireStray, FiredHeld, FiredStray, HeldTick
  <2>2. HeldTicks(room)
    BY DEF RoomFine
  <2> QED BY <1>0, <1>a, <2>1, <2>2, FiredGoes
<1>11. UNCHANGED session
  BY DEF RunJob, EnterJob, LeaveJob, EmptyJob, HandleMove, HandleSkill, HandleGoRandom, ViewJob,
         MonsterJob, ArrowJob, FireHeld, FireStray
<1>12. Goes(room, room', late, R)
  BY <1>1, <1>2, <1>3, <1>4, <1>5, <1>6, <1>7, <1>8, <1>9, <1>10 DEF RunJob
<1>13. ASSUME NEW o \in Reviving \ R, ~Has(room.queue, o, "enter") PROVE Kept(room, room', o)
  <2>0. o \in Actor /\ o \in Object \ R
    BY RevivingIs, ObjectIs
  <2>1. CASE RunJob
    <3>1. ~room.fault /\ room.queue # <<>>
      BY <2>1 DEF RunJob, EnterJob, LeaveJob, EmptyJob, HandleMove, HandleSkill, HandleGoRandom, ViewJob,
                  MonsterJob, ArrowJob, Runs
    <3>2. PICK q : q = room.queue
      OBVIOUS
    <3>3. q \in Seq(Job) /\ q # <<>> /\ 1 \in DOMAIN q /\ q[1].op \in Op
      <4>1. q \in Seq(Job) /\ q # <<>> /\ 1 \in DOMAIN q
        BY <1>0, <3>1, <3>2, QueueIs, TailIs
      <4>2. q[1] \in Job
        BY <4>1
      <4> QED BY <4>1, <4>2 DEF Job
    <3>4. q[1].obj = o => q[1].op # "enter"
      BY <1>13, <3>2, <3>3 DEF Has
    <3>5. q[1].obj = o => q[1].op \notin {"leave", "move", "random"}
      BY <1>0, <1>13, <2>1, <3>1, <3>2 DEF Overtaken, Runs
    <3>6. Quiet(room, o)
      BY <3>2, <3>3, <3>4, <3>5 DEF Op, Quiet
    <3> QED BY <1>12, <2>0, <3>6 DEF Goes, GoesFor
  <2>2. CASE Fires
    BY <1>10, <2>0, <2>2
  <2> QED BY <2>1, <2>2
<1> QED BY <1>0, <1>11, <1>12, <1>13

-----------------------------------------------------------------------------
(* The sessions keep it as well.                                           *)

\* One whom an OnDeadAnim has taken out and not yet brought back.
Away(p) == \E q \in Players : handler[q].at = "animEnter" /\ handler[q].obj = p

\* Where a player is whose OnDeadAnim nothing has overtaken.  Who has not joined is not
\* in the room and no job brings him there; until his Leave is pushed he is in the room
\* with all that goes with it or not at all; then Leave is the last job that concerns him.
Placed(p) ==
  /\ ~joined[p] \/ handler[p].at = "joined" => NotYet(room, p)
  /\ link[p] \in {"open", "dropped"} =>
       IF Away(p) THEN OutStaying(room, p) ELSE Staying(room, p)
  /\ link[p] \in {"left", "closed"} /\ p \notin late =>
       IF Away(p) THEN OutDeparting(room, p) ELSE Departing(room, p)

\* Where a session stands.
InSession(p) ==
  /\ handler[p].at \in {"joined"} \cup Packets => joined[p]
  /\ handler[p].at = "entering" => ~joined[p]
  /\ link[p] # "closed" /\ (joined[p] \/ handler[p].at = "entering") => current[p]
  /\ link[p] \in {"open", "dropped"} => p \notin late
  /\ p \notin raced => Placed(p)

\* The answers under way that nothing has overtaken: each is the only one of its object,
\* no Enter waits for it, and it is in the room until it has been taken out.
Answers(p, o) == handler[p].at \in Anim /\ handler[p].obj = o
Answering ==
  \A p \in Players, o \in Actor \ raced : Answers(p, o) =>
    /\ ~Has(room.queue, o, "enter")
    /\ o \in Players => o \in room.inRoom
    /\ o \in room.present <=> handler[p].at = "animLeave"
    /\ \A q \in Players : Answers(q, o) => q = p

\* What keeps everybody where he is told to be: the inductive invariant of the three
\* theorems, next to RoomInv.
Ordered ==
  /\ Sound(room, late, raced) /\ (\A p \in Players : InSession(p)) /\ Answering
  /\ room.fault => raced # {}

\* Nothing has changed for a session, or it answers.
SameSession(q) ==
  /\ handler'[q] = handler[q] \/ handler'[q].at \in Anim \cup {"idle"}
  /\ link'[q] = link[q] /\ current'[q] = current[q] /\ joined'[q] = joined[q]
  /\ q \in late' <=> q \in late

\* No packet's name is another place's.
LEMMA PacketsAre ==
  /\ \A place \in Packets : place \notin Anim \cup {"idle", "entering", "joined"}
  /\ \A place \in Anim : place \notin {"idle", "entering", "joined"}
  /\ \A place \in Packets : place \in Acts /\ place # "leave" /\ place # "enter"
  /\ "animLeave" \in Anim /\ "animEnter" \in Anim /\ "animLeave" # "animEnter"
BY DEF Packets, Anim, Acts

\* What held of it holds, if the room keeps it.
LEMMA SessionKeeps ==
  ASSUME NEW q \in Players, InSession(q), SameSession(q), raced \subseteq raced',
         q \notin raced' =>
           /\ Stays(room, room', late, q) /\ (Away(q) => Kept(room, room', q))
           /\ Away(q)' <=> Away(q)
  PROVE  InSession(q)'
<1>1. /\ handler'[q].at \in {"joined"} \cup Packets => handler'[q] = handler[q]
      /\ handler'[q].at \in {"joined", "entering"} => handler'[q] = handler[q]
  BY PacketsAre DEF SameSession
<1>2. ASSUME q \notin raced' PROVE Placed(q)'
  <2>1. Placed(q)
    BY <1>2 DEF InSession
  <2>2. /\ NotYet(room, q) => NotYet(room', q)
        /\ Staying(room, q) => Staying(room', q)
        /\ q \notin late /\ Departing(room, q) => Departing(room', q)
    BY <1>2 DEF Stays
  <2>3. ASSUME Away(q) PROVE /\ OutStaying(room, q) => OutStaying(room', q)
                             /\ OutDeparting(room, q) => OutDeparting(room', q)
    BY <1>2, <2>3 DEF Kept, OutStaying, OutDeparting, Out
  <2>4. /\ NotYet(room, q)' = NotYet(room', q) /\ Staying(room, q)' = Staying(room', q)
        /\ Departing(room, q)' = Departing(room', q)
        /\ OutStaying(room, q)' = OutStaying(room', q)
        /\ OutDeparting(room, q)' = OutDeparting(room', q)
    BY DEF NotYet, Staying, Departing, OutStaying, OutDeparting, Out
  <2> QED BY <1>1, <1>2, <2>1, <2>2, <2>3, <2>4 DEF Placed, SameSession
<1> QED BY <1>1, <1>2 DEF InSession, SameSession

\* What the answers under way need of the room.
Still(r, s, o) ==
  /\ ~Has(r.queue, o, "enter") => ~Has(s.queue, o, "enter")
  /\ (o \in s.present <=> o \in r.present) /\ (o \in s.inRoom <=> o \in r.inRoom)

\* They are not disturbed by what leaves their objects alone.
LEMMA AnsweringKeeps ==
  ASSUME TypeOK, Answering, raced \subseteq raced', \A o \in Reviving \ raced' : Still(room, room', o),
         \A q \in Players : handler'[q].at \in Anim => handler'[q] = handler[q]
  PROVE  Answering'
<1> SUFFICES ASSUME NEW p \in Players, NEW o \in Actor \ raced', Answers(p, o)'
             PROVE  /\ ~Has(room'.queue, o, "enter")
                    /\ o \in Players => o \in room'.inRoom
                    /\ o \in room'.present <=> handler'[p].at = "animLeave"
                    /\ \A q \in Players : Answers(q, o)' => q = p
  BY DEF Answering, Has
<1>1. \A q \in Players : Answers(q, o)' => Answers(q, o) /\ handler'[q] = handler[q]
  BY DEF Answers
<1>2. Answers(p, o) /\ handler'[p] = handler[p] /\ o \in Actor \ raced
  BY <1>1
<1>3. o \in Reviving
  BY <1>2 DEF Answers, Reviving
<1>4. Still(room, room', o)
  BY <1>3
<1>5. /\ ~Has(room.queue, o, "enter")
      /\ o \in Players => o \in room.inRoom
      /\ o \in room.present <=> handler[p].at = "animLeave"
      /\ \A q \in Players : Answers(q, o) => q = p
  BY <1>2 DEF Answering
<1> QED BY <1>1, <1>2, <1>4, <1>5 DEF Still

\* A handler pushes a job of its player.
LEMMA PushSound ==
  ASSUME NEW r \in RoomType, NEW L, NEW M, L \subseteq M, NEW R, Sound(r, L, R), NEW p \in Players,
         NEW op \in Acts \cup {"leave"},
         op = "enter" /\ p \notin R => p \notin r.inRoom /\ ~Has(r.queue, p, "enter"),
         NEW s, s = PushJob(r, NewJob(op, p))
  PROVE  /\ Sound(s, M, R) /\ s.fault = r.fault
         /\ \A o \in Object : o # p => Stays(r, s, L, o) /\ Kept(r, s, o)
         /\ op # "enter" => Still(r, s, p)
         /\ op # "leave" /\ Staying(r, p) => Staying(s, p)
         /\ op # "leave" /\ OutStaying(r, p) => OutStaying(s, p)
         /\ op = "leave" /\ NotYet(r, p) => NotYet(s, p)
         /\ op = "leave" /\ Staying(r, p) => Departing(s, p)
         /\ op = "leave" /\ OutStaying(r, p) => OutDeparting(s, p)
<1>0. /\ p \in Object /\ p \notin Monsters /\ p \notin Arrows /\ p \in Actor
      /\ op \in Op /\ op # "tick"
  BY ObjectIs DEF Acts, Op
<1>1. PICK j : j = NewJob(op, p)
  OBVIOUS
<1>2. j \in Job /\ j.op = op /\ j.obj = p /\ j.held = FALSE
  BY <1>0, <1>1, NewJobIs
<1>3. /\ s \in RoomType /\ s.queue = Append(r.queue, j) /\ s.held = r.held /\ s.stray = r.stray
      /\ PlaceOf(s) = PlaceOf(r) /\ FightOf(s) = FightOf(r) /\ FlightOf(s) = FlightOf(r)
  BY <1>1, <1>2, PushDoes
<1>4. s.used = r.used /\ s.fault = r.fault
  BY <1>3 DEF FlightOf
<1>5. ASSUME NEW o \in Object, o # p PROVE Untouched(r, s, o)
  <2>1. JobAside(r, s, o)
    BY <1>2, <1>3, <1>5, PushAside
  <2>2. PlaceAside(r, s, o)
    BY <1>3, SameAside
  <2> QED BY <1>4, <2>1, <2>2 DEF Untouched
<1>6. PICK q, t : q = r.queue /\ t = s.queue
  OBVIOUS
<1>7. q \in Seq(Job) /\ t = Append(q, j)
  BY <1>3, <1>6, QueueIs
<1>8. /\ \A x : Has(t, p, x) <=> Has(q, p, x) \/ op = x
      /\ Named(t, p) <=> Named(q, p)
      /\ Once(q, p, "enter") /\ (op # "enter" \/ ~Has(q, p, "enter")) => Once(t, p, "enter")
      /\ \A S : Only(q, p, S) /\ op \in S => Only(t, p, S)
      /\ LeaveLast(q, p) /\ ~Has(q, p, "leave") => LeaveLast(t, p)
      /\ OneView(q, p) => OneView(t, p)
  BY <1>0, <1>2, <1>7, AppendTells, ZenonT(40)
<1>9. PlaceAside(r, s, p)
  BY <1>3, SameAside
<1>10. ASSUME p \notin R PROVE SoundFor(s, M, p)
  <2>1. SoundFor(r, L, p)
    BY <1>0, <1>10 DEF Sound
  <2>2. Entered(s, p)
    BY <1>0, <1>6, <1>8, <1>9, <1>10, <2>1 DEF SoundFor, Entered, PlaceAside
  <2>3. Viewed(s, p)
    BY <1>3, <1>6, <1>8, <1>9, <2>1 DEF SoundFor, Viewed, PlaceAside
  <2>4. p \notin M => Stands(s, p)
    BY <1>0, <1>9, <2>1 DEF SoundFor, Stands, PlaceAside
  <2> QED BY <1>0, <2>2, <2>3, <2>4 DEF SoundFor
<1>11. \A o \in Object : o # p => Stays(r, s, L, o) /\ Kept(r, s, o)
  BY <1>3, <1>5, UntouchedSound
<1>12. ASSUME NEW o \in Object \ R, o # p PROVE SoundFor(s, M, o)
  <2>1. SoundFor(s, L, o)
    BY <1>3, <1>5, <1>12, UntouchedSound DEF Sound
  <2> QED BY <2>1 DEF SoundFor
<1>13. Sound(s, M, R)
  BY <1>10, <1>12 DEF Sound
<1>14. op # "enter" => Still(r, s, p)
  BY <1>6, <1>8, <1>9 DEF Still, PlaceAside
<1>15. op # "leave" => (Staying(r, p) => Staying(s, p)) /\ (OutStaying(r, p) => OutStaying(s, p))
  BY <1>6, <1>8, <1>9 DEF Staying, OutStaying, Out, PlaceAside
<1>16. op = "leave" /\ NotYet(r, p) => NotYet(s, p)
  BY <1>6, <1>8, <1>9 DEF NotYet, PlaceAside
<1>17. op = "leave" => /\ Staying(r, p) => Departing(s, p)
                       /\ OutStaying(r, p) => OutDeparting(s, p)
  <2>1. ~Has(q, p, "leave") => LeaveLast(q, p)
    BY DEF Has, LeaveLast
  <2> QED BY <1>6, <1>8, <1>9, <2>1 DEF Staying, Departing, OutStaying, OutDeparting, Out, PlaceAside
<1> QED BY <1>4, <1>11, <1>13, <1>14, <1>15, <1>16, <1>17

\* A room that does not change keeps all.
LEMMA SameStays ==
  ASSUME NEW r, NEW L
  PROVE  \A o : Stays(r, r, L, o) /\ Kept(r, r, o) /\ Still(r, r, o)
BY DEF Stays, Kept, Still

\* What is kept is still.
LEMMA KeptStill == ASSUME NEW r, NEW s, NEW o, Kept(r, s, o) PROVE Still(r, s, o)
BY DEF Kept, Still

\* A job runs or falls due.
LEMMA RoomOrdered ==
  ASSUME TypeOK, RoomFine(room), Ordered, RunJob \/ \E o \in Object : FireHeld(o) \/ FireStray(o)
  PROVE  Ordered'
<1>0. PICK R : R = raced'
  OBVIOUS
<1>1. \A p \in Players \ (late \cup raced \cup Reviving) : Staying(room, p) \/ Departing(room, p)
  <2> SUFFICES ASSUME NEW p \in Players \ (late \cup raced \cup Reviving)
               PROVE  Staying(room, p) \/ Departing(room, p)
    OBVIOUS
  <2>1. ~Away(p)
    BY DEF Away, Reviving, Anim
  <2>2. Placed(p) /\ link[p] \in {"open", "dropped", "left", "closed"}
    BY DEF Ordered, InSession, TypeOK
  <2> QED BY <2>1, <2>2 DEF Placed
<1>2. /\ Goes(room, room', late, R) /\ UNCHANGED session /\ raced \subseteq R
      /\ \A o \in Reviving \ R : ~Has(room.queue, o, "enter") => Kept(room, room', o)
  BY <1>0, <1>1, RoomGoes DEF Ordered
<1>3. /\ handler' = handler /\ link' = link /\ current' = current /\ joined' = joined /\ late' = late
  BY <1>2 DEF session
<1>4. /\ Sound(room', late, R)
      /\ \A o \in Object \ R : Stays(room, room', late, o)
      /\ room'.fault => R # {}
  BY <1>2 DEF Goes, GoesFor, Sound, Ordered
<1>5. Sound(room, late, raced)'
  BY <1>0, <1>3, <1>4 DEF Sound, SoundFor, Shot, Entered, Stands, Viewed
<1>6. ASSUME NEW o \in Reviving \ R PROVE Kept(room, room', o)
  <2>1. PICK p \in Players : Answers(p, o)
    BY DEF Reviving, Answers
  <2>2. o \in Actor \ raced
    BY <1>2, RevivingIs
  <2>3. ~Has(room.queue, o, "enter")
    BY <2>1, <2>2 DEF Ordered, Answering
  <2> QED BY <1>2, <2>3
<1>7. ASSUME NEW q \in Players PROVE InSession(q)'
  <2>1. Away(q)' <=> Away(q)
    BY <1>3 DEF Away
  <2>2. Away(q) => q \in Reviving
    BY DEF Away, Reviving, Anim
  <2>3. SameSession(q) /\ InSession(q)
    BY <1>3 DEF SameSession, Ordered
  <2>4. q \notin R => Stays(room, room', late, q) /\ (Away(q) => Kept(room, room', q))
    BY <1>4, <1>6, <2>2, ObjectIs
  <2> QED BY <1>0, <1>2, <2>1, <2>3, <2>4, SessionKeeps
<1>8. Answering'
  <2>1. \A o \in Reviving \ raced' : Still(room, room', o)
    BY <1>0, <1>6, KeptStill
  <2> QED BY <1>0, <1>2, <1>3, <2>1, AnsweringKeeps DEF Ordered
<1> QED BY <1>0, <1>4, <1>5, <1>7, <1>8 DEF Ordered

\* A step of the session of p, but for his answers.
LEMMA OwnOrdered ==
  ASSUME TypeOK, Ordered, NEW p \in Players, raced' = raced, Sound(room', late', raced),
         room'.fault => room.fault,
         \A o \in Object : o # p => Stays(room, room', late, o) /\ Kept(room, room', o),
         p \in Reviving \ raced => Still(room, room', p),
         \A q \in Players : q # p => SameSession(q) /\ handler'[q] = handler[q],
         handler[p].at \in Anim \/ handler'[p].at \in Anim => handler'[p] = handler[p],
         Away(p)' = Away(p) => InSession(p)'
  PROVE  Ordered'
<1>1. Sound(room, late, raced)'
  BY DEF Sound, SoundFor, Shot, Entered, Stands, Viewed
<1>2. \A x : Away(x)' = Away(x)
  <2>1. \A q \in Players : handler[q].at = "animEnter" \/ handler'[q].at = "animEnter" => handler'[q] = handler[q]
    BY DEF Anim
  <2> QED BY <2>1 DEF Away
<1>3. ASSUME NEW q \in Players PROVE InSession(q)'
  <2>1. CASE q = p
    BY <1>2, <2>1
  <2>2. CASE q # p
    BY <1>2, <2>2, SessionKeeps, ObjectIs DEF Ordered
  <2> QED BY <2>1, <2>2
<1>4. Answering'
  <2>1. \A q \in Players : handler'[q].at \in Anim => handler'[q] = handler[q]
    OBVIOUS
  <2>2. \A o \in Reviving \ raced' : Still(room, room', o)
    BY KeptStill, RevivingIs, ObjectIs
  <2> QED BY <2>1, <2>2, AnsweringKeeps DEF Ordered
<1>5. room'.fault => raced' # {}
  BY DEF Ordered
<1> QED BY <1>1, <1>3, <1>4, <1>5 DEF Ordered

\* Going to a place is nothing to the other sessions.
LEMMA GoToIs ==
  ASSUME TypeOK, NEW p \in Players, NEW place, GoTo(p, place)
  PROVE  /\ handler'[p].at = place /\ handler'[p].obj = None
         /\ \A q \in Players : q # p => handler'[q] = handler[q]
BY DEF TypeOK, GoTo

\* A step that changes only one session, and does not answer.
LEMMA AloneOrdered ==
  ASSUME TypeOK, Ordered, NEW p \in Players, UNCHANGED <<room, late, raced>>,
         \A q \in Players : q # p => handler'[q] = handler[q],
         handler[p].at \in Anim \/ handler'[p].at \in Anim => handler'[p] = handler[p],
         \A q \in Players : q # p =>
           link'[q] = link[q] /\ current'[q] = current[q] /\ joined'[q] = joined[q],
         Away(p)' = Away(p) => InSession(p)'
  PROVE  Ordered'
<1>1. Sound(room', late', raced) /\ (room'.fault => room.fault)
  BY DEF Ordered
<1>2. \A o : Stays(room, room', late, o) /\ Kept(room, room', o) /\ Still(room, room', o)
  BY SameStays
<1>3. \A q \in Players : q # p => SameSession(q)
  BY DEF SameSession
<1> QED BY <1>1, <1>2, <1>3, OwnOrdered

\* The handlers and the connection, when they do not touch the room.
LEMMA QuietOrdered ==
  ASSUME TypeOK, Ordered, NEW p \in Players, UNCHANGED raced,
         \/ BeginEnterGame(p) \/ FindRoom(p) \/ (\E packet \in Packets : BeginPacket(p, packet))
         \/ Drop(p) \/ ForgetPlayer(p)
  PROVE  Ordered'
<1>1. room' = room /\ late' = late
  BY DEF BeginEnterGame, FindRoom, BeginPacket, Drop, ForgetPlayer
<1>2. /\ handler \in [Players -> [at : Place \ Anim, obj : {None}] \cup [at : Anim, obj : Actor]]
      /\ link \in [Players -> {"open", "dropped", "left", "closed"}]
      /\ current \in [Players -> BOOLEAN] /\ joined \in [Players -> BOOLEAN]
  BY DEF TypeOK
<1>3. InSession(p)
  BY DEF Ordered
<1>4. /\ NotYet(room, p)' = NotYet(room, p) /\ Staying(room, p)' = Staying(room, p)
      /\ Departing(room, p)' = Departing(room, p) /\ OutStaying(room, p)' = OutStaying(room, p)
      /\ OutDeparting(room, p)' = OutDeparting(room, p)
  BY <1>1 DEF NotYet, Staying, Departing, OutStaying, OutDeparting, Out
<1>5. CASE BeginEnterGame(p)
  <2>1. /\ handler'[p].at = "entering" /\ \A q \in Players : q # p => handler'[q] = handler[q]
    BY <1>5, GoToIs DEF BeginEnterGame
  <2>2. /\ link' = link /\ joined' = joined /\ current' = [current EXCEPT ![p] = TRUE] /\ ~joined[p]
        /\ handler[p].at = "idle"
    BY <1>5 DEF BeginEnterGame, At
  <2>3. Away(p)' = Away(p) => InSession(p)'
    BY <1>1, <1>2, <1>3, <1>4, <2>1, <2>2, PacketsAre DEF InSession, Placed
  <2> QED BY <1>1, <1>2, <2>1, <2>2, <2>3, AloneOrdered, PacketsAre
<1>6. CASE FindRoom(p)
  <2>1. /\ handler'[p].at = "joined" /\ \A q \in Players : q # p => handler'[q] = handler[q]
    BY <1>6, GoToIs DEF FindRoom
  <2>2. /\ link' = link /\ current' = current /\ joined' = [joined EXCEPT ![p] = TRUE]
        /\ handler[p].at = "entering"
    BY <1>6 DEF FindRoom, At
  <2>3. Away(p)' = Away(p) => InSession(p)'
    BY <1>1, <1>2, <1>3, <1>4, <2>1, <2>2, PacketsAre DEF InSession, Placed
  <2> QED BY <1>1, <1>2, <2>1, <2>2, <2>3, AloneOrdered, PacketsAre
<1>7. ASSUME NEW packet \in Packets, BeginPacket(p, packet) PROVE Ordered'
  <2>1. /\ handler'[p].at = packet /\ \A q \in Players : q # p => handler'[q] = handler[q]
    BY <1>7, GoToIs DEF BeginPacket
  <2>2. /\ link' = link /\ current' = current /\ joined' = joined /\ joined[p] /\ current[p]
        /\ handler[p].at = "idle"
    BY <1>7 DEF BeginPacket, At
  <2>3. Away(p)' = Away(p) => InSession(p)'
    BY <1>1, <1>2, <1>3, <1>4, <1>7, <2>1, <2>2, PacketsAre DEF InSession, Placed
  <2> QED BY <1>1, <1>2, <1>7, <2>1, <2>2, <2>3, AloneOrdered, PacketsAre
<1>8. CASE Drop(p)
  <2>1. /\ handler' = handler /\ current' = current /\ joined' = joined
        /\ link' = [link EXCEPT ![p] = "dropped"] /\ link[p] = "open"
    BY <1>8 DEF Drop
  <2>2. Away(p)' = Away(p) => InSession(p)'
    BY <1>1, <1>2, <1>3, <1>4, <2>1 DEF InSession, Placed
  <2> QED BY <1>1, <1>2, <2>1, <2>2, AloneOrdered
<1>9. CASE ForgetPlayer(p)
  <2>1. /\ handler' = handler /\ current' = [current EXCEPT ![p] = FALSE] /\ joined' = joined
        /\ link' = [link EXCEPT ![p] = "closed"] /\ link[p] = "left"
    BY <1>9 DEF ForgetPlayer
  <2>2. Away(p)' = Away(p) => InSession(p)'
    BY <1>1, <1>2, <1>3, <1>4, <2>1 DEF InSession, Placed
  <2> QED BY <1>1, <1>2, <2>1, <2>2, AloneOrdered
<1> QED BY <1>5, <1>6, <1>7, <1>8, <1>9

\* A handler pushes the Enter of its player, or does so for nobody.
LEMMA PushEnterOrdered ==
  ASSUME TypeOK, Ordered, NEW p \in Players, PushEnter(p), UNCHANGED raced
  PROVE  Ordered'
<1>1. /\ handler'[p].at = "idle" /\ \A q \in Players : q # p => handler'[q] = handler[q]
  BY GoToIs DEF PushEnter
<1>2. /\ link' = link /\ current' = current /\ joined' = joined /\ handler[p].at = "joined"
      /\ IF current[p] THEN Push(p, "enter") ELSE UNCHANGED <<room, late>>
  BY DEF PushEnter, At
<1>3. /\ InSession(p) /\ Sound(room, late, raced) /\ room \in RoomType /\ p \in Object /\ p \in Actor
      /\ late \subseteq Players
      /\ link \in [Players -> {"open", "dropped", "left", "closed"}]
  BY ObjectIs DEF Ordered, TypeOK
<1>4. /\ joined[p] /\ (p \notin raced => NotYet(room, p))
      /\ handler[p].at \notin Anim /\ handler'[p].at \notin Anim
  BY <1>1, <1>2, <1>3, PacketsAre DEF InSession, Placed
<1>5. CASE ~current[p]
  <2>1. room' = room /\ late' = late
    BY <1>2, <1>5
  <2>2. /\ NotYet(room, p)' = NotYet(room, p) /\ Staying(room, p)' = Staying(room, p)
        /\ Departing(room, p)' = Departing(room, p) /\ OutStaying(room, p)' = OutStaying(room, p)
        /\ OutDeparting(room, p)' = OutDeparting(room, p)
    BY <2>1 DEF NotYet, Staying, Departing, OutStaying, OutDeparting, Out
  <2>3. Away(p)' = Away(p) => InSession(p)'
    BY <1>1, <1>2, <1>3, <1>4, <2>1, <2>2, PacketsAre DEF InSession, Placed
  <2> QED BY <1>1, <1>2, <1>4, <2>1, <2>3, AloneOrdered
<1>6. CASE current[p]
  <2>1. /\ room' = PushJob(room, NewJob("enter", p))
        /\ late' = IF link[p] \in {"left", "closed"} THEN late \cup {p} ELSE late
    BY <1>2, <1>6 DEF Push
  <2>2. late \subseteq late' /\ (p \in late' <=> p \in late \/ link[p] \in {"left", "closed"})
        /\ \A q \in Players : q # p => (q \in late' <=> q \in late)
    BY <2>1
  <2>3. /\ p \notin raced => p \notin room.inRoom /\ ~Has(room.queue, p, "enter")
        /\ "enter" \in Acts \cup {"leave"} /\ "enter" # "leave"
    BY <1>4 DEF NotYet, Only, Has, Acts
  <2>4. /\ Sound(room', late', raced) /\ room'.fault = room.fault
        /\ \A o \in Object : o # p => Stays(room, room', late, o) /\ Kept(room, room', o)
        /\ Staying(room, p) => Staying(room', p)
    <3>1. PICK s, M : s = room' /\ M = late'
      OBVIOUS
    <3>2. /\ Sound(s, M, raced) /\ s.fault = room.fault
          /\ \A o \in Object : o # p => Stays(room, s, late, o) /\ Kept(room, s, o)
          /\ Staying(room, p) => Staying(s, p)
      <4>1. PICK op : op = "enter"
        OBVIOUS
      <4>2. /\ room \in RoomType /\ late \subseteq M /\ Sound(room, late, raced) /\ op \in Acts \cup {"leave"}
            /\ s = PushJob(room, NewJob(op, p)) /\ op # "leave"
            /\ op = "enter" /\ p \notin raced => p \notin room.inRoom /\ ~Has(room.queue, p, "enter")
        BY <1>3, <2>1, <2>2, <2>3, <3>1, <4>1
      <4> QED BY <4>2, PushSound, ZenonT(40)
    <3> QED BY <3>1, <3>2
  <2>5. p \notin Reviving \ raced
    <3>1. ASSUME NEW q \in Players, Answers(q, p), p \notin raced PROVE p \in room.inRoom
      BY <1>3, <3>1 DEF Ordered, Answering
    <3> QED BY <2>3, <3>1 DEF Reviving, Answers
  <2>6. Staying(room, p)' = Staying(room', p)
    BY DEF Staying
  <2>7. ASSUME Away(p)' = Away(p) PROVE InSession(p)'
    <3>1. p \notin raced => ~Away(p)
      BY <2>5 DEF Away, Reviving, Anim
    <3>2. p \notin raced => Placed(p)'
      BY <1>1, <1>2, <1>3, <1>4, <2>2, <2>4, <2>6, <2>7, <3>1 DEF InSession, Placed
    <3> QED BY <1>1, <1>2, <1>3, <1>4, <1>6, <2>2, <3>2, PacketsAre DEF InSession
  <2>8. \A q \in Players : q # p => SameSession(q)
    BY <1>1, <1>2, <2>2 DEF SameSession
  <2> QED BY <1>1, <1>4, <2>4, <2>5, <2>7, <2>8, OwnOrdered
<1> QED BY <1>5, <1>6

\* The handler of a game packet pushes its job.
LEMMA PushPacketOrdered ==
  ASSUME TypeOK, Ordered, NEW p \in Players, PushPacket(p), UNCHANGED raced
  PROVE  Ordered'
<1>1. /\ handler'[p].at = "idle" /\ \A q \in Players : q # p => handler'[q] = handler[q]
  BY GoToIs DEF PushPacket
<1>2. PICK op \in Packets :
        /\ link' = link /\ current' = current /\ joined' = joined /\ handler[p].at = op
        /\ room' = PushJob(room, NewJob(op, p))
        /\ late' = IF link[p] \in {"left", "closed"} THEN late \cup {p} ELSE late
  BY DEF PushPacket, Push
<1>3. /\ InSession(p) /\ Sound(room, late, raced) /\ room \in RoomType /\ p \in Object /\ late \subseteq Players
      /\ link \in [Players -> {"open", "dropped", "left", "closed"}]
  BY ObjectIs DEF Ordered, TypeOK
<1>4. joined[p]
  BY <1>2, <1>3 DEF InSession
<1>5. /\ handler[p].at \notin Anim /\ handler'[p].at \notin Anim
      /\ op \in Acts \cup {"leave"} /\ op # "leave" /\ op # "enter"
  BY <1>1, <1>2, PacketsAre
<1>6. late \subseteq late' /\ (p \in late' <=> p \in late \/ link[p] \in {"left", "closed"})
      /\ \A q \in Players : q # p => (q \in late' <=> q \in late)
  BY <1>2
<1>7. /\ Sound(room', late', raced) /\ room'.fault = room.fault
      /\ \A o \in Object : o # p => Stays(room, room', late, o) /\ Kept(room, room', o)
      /\ Still(room, room', p)
      /\ Staying(room, p) => Staying(room', p)
      /\ OutStaying(room, p) => OutStaying(room', p)
  <2>1. PICK s, M : s = room' /\ M = late'
    OBVIOUS
  <2>2. /\ Sound(s, M, raced) /\ s.fault = room.fault
        /\ \A o \in Object : o # p => Stays(room, s, late, o) /\ Kept(room, s, o)
        /\ Still(room, s, p)
        /\ Staying(room, p) => Staying(s, p)
        /\ OutStaying(room, p) => OutStaying(s, p)
    <3>1. /\ room \in RoomType /\ late \subseteq M /\ Sound(room, late, raced) /\ op \in Acts \cup {"leave"}
          /\ s = PushJob(room, NewJob(op, p)) /\ op # "enter" /\ op # "leave"
          /\ op = "enter" /\ p \notin raced => p \notin room.inRoom /\ ~Has(room.queue, p, "enter")
      BY <1>2, <1>3, <1>5, <1>6, <2>1
    <3> QED BY <3>1, PushSound, ZenonT(40)
  <2> QED BY <2>1, <2>2
<1>8. Staying(room, p)' = Staying(room', p) /\ OutStaying(room, p)' = OutStaying(room', p)
  BY DEF Staying, OutStaying, Out
<1>9. Away(p)' = Away(p) => InSession(p)'
  BY <1>1, <1>2, <1>3, <1>4, <1>6, <1>7, <1>8, PacketsAre DEF InSession, Placed
<1>10. \A q \in Players : q # p => SameSession(q)
  BY <1>1, <1>2, <1>6 DEF SameSession
<1> QED BY <1>1, <1>5, <1>7, <1>9, <1>10, OwnOrdered

\* The session pushes Leave for a player who has joined.
LEMMA PushLeaveOrdered ==
  ASSUME TypeOK, Ordered, NEW p \in Players, PushLeave(p), UNCHANGED raced
  PROVE  Ordered'
<1>1. /\ handler' = handler /\ current' = current /\ joined' = joined /\ late' = late
      /\ link[p] = "dropped" /\ link' = [link EXCEPT ![p] = "left"]
      /\ room' = IF current[p] /\ joined[p] THEN PushJob(room, NewJob("leave", p)) ELSE room
  BY DEF PushLeave
<1>2. /\ InSession(p) /\ Sound(room, late, raced) /\ room \in RoomType /\ p \in Object /\ p \in Actor
      /\ link \in [Players -> {"open", "dropped", "left", "closed"}]
  BY ObjectIs DEF Ordered, TypeOK
<1>3. /\ p \notin late /\ (joined[p] => current[p])
      /\ p \notin raced => IF Away(p) THEN OutStaying(room, p) ELSE Staying(room, p)
  BY <1>1, <1>2 DEF InSession, Placed
<1>4. \A q \in Players : q # p => SameSession(q)
  BY <1>1, <1>2 DEF SameSession
<1>5. CASE joined[p]
  <2>1. room' = PushJob(room, NewJob("leave", p))
    BY <1>1, <1>3, <1>5
  <2>2. /\ Sound(room', late', raced) /\ room'.fault = room.fault
        /\ \A o \in Object : o # p => Stays(room, room', late, o) /\ Kept(room, room', o)
        /\ Still(room, room', p)
        /\ NotYet(room, p) => NotYet(room', p)
        /\ Staying(room, p) => Departing(room', p)
        /\ OutStaying(room, p) => OutDeparting(room', p)
    <3>1. PICK s, M, op : s = room' /\ M = late' /\ op = "leave"
      OBVIOUS
    <3>2. /\ Sound(s, M, raced) /\ s.fault = room.fault
          /\ \A o \in Object : o # p => Stays(room, s, late, o) /\ Kept(room, s, o)
          /\ Still(room, s, p)
          /\ NotYet(room, p) => NotYet(s, p)
          /\ Staying(room, p) => Departing(s, p)
          /\ OutStaying(room, p) => OutDeparting(s, p)
      <4>1. /\ room \in RoomType /\ late \subseteq M /\ Sound(room, late, raced) /\ op \in Acts \cup {"leave"}
            /\ s = PushJob(room, NewJob(op, p)) /\ op # "enter" /\ op = "leave"
            /\ op = "enter" /\ p \notin raced => p \notin room.inRoom /\ ~Has(room.queue, p, "enter")
        BY <1>1, <1>2, <2>1, <3>1
      <4> QED BY <4>1, PushSound, ZenonT(40)
    <3> QED BY <3>1, <3>2
  <2>3. /\ NotYet(room, p)' = NotYet(room', p) /\ Departing(room, p)' = Departing(room', p)
        /\ OutDeparting(room, p)' = OutDeparting(room', p)
    BY DEF NotYet, Departing, OutDeparting, Out
  <2>4. Away(p)' = Away(p) => InSession(p)'
    BY <1>1, <1>2, <1>3, <1>5, <2>2, <2>3 DEF InSession, Placed
  <2> QED BY <1>1, <1>4, <2>2, <2>4, OwnOrdered
<1>6. CASE ~joined[p]
  <2>1. room' = room
    BY <1>1, <1>6
  <2>2. p \notin raced => NotYet(room, p)
    BY <1>2, <1>6 DEF InSession, Placed
  <2>3. p \notin raced => ~Away(p)
    BY <1>3, <2>2 DEF OutStaying, Out, NotYet
  <2>4. ASSUME p \notin raced PROVE Departing(room, p)
    <3>1. LeaveLast(room.queue, p)
      BY <1>3, <2>3, <2>4 DEF Staying, Has, LeaveLast
    <3>2. \A op \in Acts : ~Has(room.queue, p, op)
      BY <2>2, <2>4 DEF NotYet, Only, Has, Acts
    <3>3. p \notin room.present
      BY <1>2, <2>2, <2>4, ObjectIs DEF NotYet, Sound, SoundFor, Entered
    <3> QED BY <2>2, <2>4, <3>1, <3>2, <3>3 DEF Departing, NotYet
  <2>5. /\ NotYet(room, p)' = NotYet(room, p) /\ Departing(room, p)' = Departing(room, p)
    BY <2>1 DEF NotYet, Departing
  <2>6. Away(p)' = Away(p) => InSession(p)'
    BY <1>1, <1>2, <1>3, <1>6, <2>2, <2>3, <2>4, <2>5 DEF InSession, Placed
  <2>7. \A q \in Players : q # p => link'[q] = link[q] /\ current'[q] = current[q] /\ joined'[q] = joined[q]
    BY <1>1, <1>2
  <2> QED BY <1>1, <2>1, <2>6, <2>7, AloneOrdered
<1> QED BY <1>5, <1>6

-----------------------------------------------------------------------------
(* OnDeadAnim on a network thread keeps it.                                *)

\* An answer takes its object out or brings it back in.
LEMMA AnswerOrdered ==
  ASSUME TypeOK, Ordered, NEW p \in Players, NEW m \in Actor, Answers(p, m), room' \in RoomType,
         UNCHANGED <<link, current, joined, late, raced>>, room'.fault => raced # {},
         \A q \in Players : q # p => handler'[q] = handler[q],
         \/ handler[p].at = "animLeave" /\ handler'[p].at = "animEnter" /\ handler'[p].obj = m
         \/ handler[p].at = "animEnter" /\ handler'[p].at = "idle",
         \A o \in Object : o # m => Untouched(room, room', o),
         m \notin raced =>
           /\ SoundFor(room', late, m) /\ Follows(room.queue, room'.queue, m)
           /\ m \in Players => m \in room'.inRoom
           /\ m \in room'.present <=> handler[p].at = "animEnter"
  PROVE  Ordered'
<1>0. room \in RoomType /\ m \in Object /\ p \in Object
  BY ObjectIs DEF TypeOK
<1>1. /\ Sound(room, late, raced) /\ Answering /\ (\A q \in Players : InSession(q))
  BY DEF Ordered
<1>2. ASSUME NEW o \in Object \ raced, o # m
      PROVE  SoundFor(room', late, o) /\ Stays(room, room', late, o) /\ Kept(room, room', o)
  BY <1>0, <1>1, <1>2, UntouchedSound DEF Sound
<1>3. Sound(room', late, raced)
  BY <1>2 DEF Sound
<1>4. Sound(room, late, raced)'
  BY <1>3 DEF Sound, SoundFor, Shot, Entered, Stands, Viewed
<1>5. \A q \in Players : SameSession(q)
  BY PacketsAre DEF SameSession
<1>6. ASSUME NEW o, o # m PROVE Away(o)' <=> Away(o)
  BY <1>6, PacketsAre DEF Away, Answers
<1>7. ASSUME m \notin raced
      PROVE  /\ ~Has(room.queue, m, "enter")
             /\ m \in Players => m \in room.inRoom
             /\ m \in room.present <=> handler[p].at = "animLeave"
             /\ \A q \in Players : Answers(q, m) => q = p
             /\ Away(m) <=> handler[p].at = "animEnter"
             /\ Away(m)' <=> handler[p].at = "animLeave"
  <2>1. /\ ~Has(room.queue, m, "enter")
        /\ m \in Players => m \in room.inRoom
        /\ m \in room.present <=> handler[p].at = "animLeave"
        /\ \A q \in Players : Answers(q, m) => q = p
    BY <1>1, <1>7 DEF Answering
  <2>2. \A q \in Players : handler[q].at = "animEnter" /\ handler[q].obj = m => q = p
    BY <2>1, PacketsAre DEF Answers
  <2>3. Away(m) <=> handler[p].at = "animEnter"
    BY <2>2 DEF Away, Answers
  <2>4. Away(m)' <=> handler[p].at = "animLeave"
    BY <2>2, PacketsAre DEF Away
  <2> QED BY <2>1, <2>3, <2>4
<1>8. ASSUME m \notin raced
      PROVE  /\ ~Has(room'.queue, m, "enter")
             /\ Has(room'.queue, m, "leave") <=> Has(room.queue, m, "leave")
             /\ LeaveLast(room.queue, m) => LeaveLast(room'.queue, m)
  <2>1. PICK q, t : q = room.queue /\ t = room'.queue
    OBVIOUS
  <2>2. /\ q \in Seq(Job) /\ t \in Seq(Job) /\ Fewer(q, t, m) /\ ~Has(q, m, "enter")
        /\ "enter" # "none" /\ "leave" # "none" /\ (Has(q, m, "leave") => Has(t, m, "leave"))
    BY <1>0, <1>7, <1>8, <2>1, QueueIs DEF Follows
  <2>3. /\ ~Has(t, m, "enter") /\ (Has(t, m, "leave") => Has(q, m, "leave"))
        /\ LeaveLast(q, m) => LeaveLast(t, m)
    BY <2>2, FewerKeeps
  <2> QED BY <2>1, <2>2, <2>3
<1>9. ASSUME NEW q \in Players PROVE InSession(q)'
  <2>1. CASE q # m \/ q \in raced
    <3>1. /\ q \notin raced' =>
               /\ Stays(room, room', late, q) /\ (Away(q) => Kept(room, room', q))
               /\ Away(q)' <=> Away(q)
      BY <1>2, <1>6, <2>1, ObjectIs
    <3> QED BY <1>1, <1>5, <3>1, SessionKeeps
  <2>2. CASE q = m /\ q \notin raced
    <3>1. InSession(q) /\ Placed(q) /\ SameSession(q)
      BY <1>1, <1>5, <2>2 DEF InSession
    <3>2. /\ handler'[q].at \in {"joined", "entering"} \cup Packets => handler'[q] = handler[q]
      BY <3>1, PacketsAre DEF SameSession
    <3>3. /\ q \in room.inRoom /\ q \in room'.inRoom
          /\ q \in room.present <=> handler[p].at = "animLeave"
          /\ q \in room'.present <=> handler[p].at = "animEnter"
          /\ handler[p].at = "animLeave" \/ handler[p].at = "animEnter"
          /\ Away(q) <=> handler[p].at = "animEnter"
          /\ Away(q)' <=> handler[p].at = "animLeave"
      BY <1>7, <2>2
    <3>4. ~NotYet(room, q)
      BY <3>3 DEF NotYet
    <3>5. ~joined[q] \/ handler[q].at = "joined" => FALSE
      BY <3>1, <3>4 DEF Placed
    <3>6. IF Away(q) THEN OutStaying(room, q) => Staying(room', q)
                     ELSE Staying(room, q) => OutStaying(room', q)
      BY <1>8, <2>2, <3>3, PacketsAre DEF Staying, OutStaying, Out
    <3>7. IF Away(q) THEN OutDeparting(room, q) => Departing(room', q)
                     ELSE Departing(room, q) => OutDeparting(room', q)
      BY <1>8, <2>2, <3>3, PacketsAre DEF Departing, OutDeparting, Out
    <3>8. /\ NotYet(room, q)' = NotYet(room', q) /\ Staying(room, q)' = Staying(room', q)
          /\ Departing(room, q)' = Departing(room', q)
          /\ OutStaying(room, q)' = OutStaying(room', q)
          /\ OutDeparting(room, q)' = OutDeparting(room', q)
      BY DEF NotYet, Staying, Departing, OutStaying, OutDeparting, Out
    <3>9. Away(q)' <=> ~Away(q)
      BY <3>3, PacketsAre
    <3>10. Placed(q)'
      BY <3>1, <3>2, <3>5, <3>6, <3>7, <3>8, <3>9 DEF Placed
    <3> QED BY <3>1, <3>2, <3>10 DEF InSession
  <2> QED BY <2>1, <2>2
<1>10. Answering'
  <2> SUFFICES ASSUME NEW q \in Players, NEW o \in Actor \ raced, Answers(q, o)'
               PROVE  /\ ~Has(room'.queue, o, "enter")
                      /\ o \in Players => o \in room'.inRoom
                      /\ o \in room'.present <=> handler'[q].at = "animLeave"
                      /\ \A x \in Players : Answers(x, o)' => x = q
    BY DEF Answering, Has
  <2>1. /\ Answers(q, o) /\ (q # p => handler'[q] = handler[q])
        /\ \A x \in Players : Answers(x, o)' => Answers(x, o)
    BY PacketsAre DEF Answers
  <2>2. /\ ~Has(room.queue, o, "enter")
        /\ o \in Players => o \in room.inRoom
        /\ o \in room.present <=> handler[q].at = "animLeave"
        /\ \A x \in Players : Answers(x, o) => x = q
    BY <1>1, <2>1 DEF Answering
  <2>3. CASE o = m
    <3>1. q = p
      BY <2>2, <2>3
    <3>2. handler[p].at = "animLeave" /\ handler'[p].at = "animEnter"
      BY <3>1, PacketsAre DEF Answers
    <3> QED BY <1>8, <2>1, <2>2, <2>3, <3>1, <3>2, PacketsAre
  <2>4. CASE o # m
    <3>1. q # p
      BY <2>1, <2>4 DEF Answers
    <3>2. Kept(room, room', o)
      BY <1>2, <2>4, ObjectIs
    <3> QED BY <2>1, <2>2, <3>1, <3>2 DEF Kept
  <2> QED BY <2>3, <2>4
<1> QED BY <1>4, <1>9, <1>10 DEF Ordered

\* C_AnimEnd finds an object in the room; another answer that has it is overtaken.
LEMMA BeginAnimOrdered ==
  ASSUME TypeOK, Ordered, NEW p \in Players, NEW o \in Actor, BeginAnimEnd(p, o)
  PROVE  Ordered'
<1>0. /\ room \in RoomType /\ o \in Object
      /\ handler \in [Players -> [at : Place \ Anim, obj : {None}] \cup [at : Anim, obj : Actor]]
  BY ObjectIs DEF TypeOK
<1>1. /\ handler' = [handler EXCEPT ![p] = [at |-> "animLeave", obj |-> o]]
      /\ UNCHANGED <<link, current, joined, late>>
      /\ o \in room.present /\ o \in room.inRoom /\ handler[p].at = "idle"
      /\ raced' = raced \cup ({o} \cap Reviving)
      /\ room' = Answered(room, p, o)
  BY DEF BeginAnimEnd, Answered, At
<1>2. Elsewhere(room, room')
  BY <1>0, <1>1, AnsweredDoes
<1>3. /\ room' \in RoomType /\ JobsOf(room') = JobsOf(room)
      /\ PlaceOf(room') = PlaceOf(room) /\ FlightOf(room') = FlightOf(room)
  BY <1>2 DEF Elsewhere
<1>4. /\ room'.queue = room.queue /\ room'.present = room.present /\ room'.inRoom = room.inRoom
      /\ room'.fault = room.fault
  BY <1>3 DEF JobsOf, PlaceOf, FlightOf
<1>5. \A x \in Object : Untouched(room, room', x)
  BY <1>0, <1>3, SameAside
<1>6. /\ \A x \in Object : Stays(room, room', late, x) /\ Kept(room, room', x)
      /\ \A x \in Object \ raced' : SoundFor(room', late, x)
  BY <1>0, <1>1, <1>3, <1>5, UntouchedSound DEF Ordered, Sound
<1>7. /\ handler'[p].at = "animLeave" /\ handler'[p].obj = o
      /\ \A q \in Players : q # p => handler'[q] = handler[q]
  BY <1>0, <1>1
<1>8. Sound(room, late, raced)'
  BY <1>1, <1>6 DEF Sound, SoundFor, Shot, Entered, Stands, Viewed
<1>9. ASSUME NEW q \in Players PROVE InSession(q)'
  <2>1. Away(q)' <=> Away(q)
    BY <1>1, <1>7, PacketsAre DEF Away
  <2>2. SameSession(q) /\ InSession(q)
    BY <1>1, <1>7, PacketsAre DEF SameSession, Ordered
  <2> QED BY <1>1, <1>6, <2>1, <2>2, SessionKeeps, ObjectIs
<1>10. Answering'
  <2> SUFFICES ASSUME NEW q \in Players, NEW x \in Actor \ raced', Answers(q, x)'
               PROVE  /\ ~Has(room'.queue, x, "enter")
                      /\ x \in Players => x \in room'.inRoom
                      /\ x \in room'.present <=> handler'[q].at = "animLeave"
                      /\ \A y \in Players : Answers(y, x)' => y = q
    BY DEF Answering, Has
  <2>1. x \notin raced /\ (x = o => x \notin Reviving)
    BY <1>1
  <2>2. \A y \in Players : y # p => (Answers(y, x)' <=> Answers(y, x))
    BY <1>7 DEF Answers
  <2>3. \A y \in Players : Answers(y, x) => x \in Reviving
    BY DEF Answers, Reviving
  <2>4. CASE q = p
    <3>1. x = o
      BY <1>7, <2>4 DEF Answers
    <3>2. ~Has(room.queue, o, "enter")
      BY <1>0, <1>1, <2>1, <3>1 DEF Ordered, Sound, SoundFor, Entered
    <3> QED BY <1>1, <1>4, <1>7, <2>1, <2>2, <2>3, <2>4, <3>1, <3>2
  <2>5. CASE q # p
    <3>1. Answers(q, x) /\ x # o
      BY <2>1, <2>2, <2>3, <2>5
    <3>2. ~Answers(p, x)'
      BY <1>7, <3>1 DEF Answers
    <3>3. /\ ~Has(room.queue, x, "enter")
          /\ x \in Players => x \in room.inRoom
          /\ x \in room.present <=> handler[q].at = "animLeave"
          /\ \A y \in Players : Answers(y, x) => y = q
      BY <2>1, <3>1 DEF Ordered, Answering
    <3> QED BY <1>4, <1>7, <2>2, <2>5, <3>2, <3>3
  <2> QED BY <2>4, <2>5
<1>11. room'.fault => raced' # {}
  BY <1>1, <1>4 DEF Ordered
<1> QED BY <1>8, <1>9, <1>10, <1>11 DEF Ordered

\* The object leaves; or it was overtaken and is gone: a null object may be used.
LEMMA AnimLeaveOrdered ==
  ASSUME TypeOK, HeldTicks(room), Ordered, NEW p \in Players, AnimLeave(p), UNCHANGED raced
  PROVE  Ordered'
<1>1. PICK m : m = handler[p].obj
  OBVIOUS
<1>2. /\ handler[p].at = "animLeave" /\ ~room.fault /\ room' = Leave(room, m)
      /\ handler' = [handler EXCEPT ![p].at = "animEnter"]
      /\ UNCHANGED <<link, current, joined, late, raced>>
  BY <1>1 DEF AnimLeave, At
<1>3. /\ room \in RoomType
      /\ handler \in [Players -> [at : Place \ Anim, obj : {None}] \cup [at : Anim, obj : Actor]]
  BY DEF TypeOK
<1>4. handler[p] \in [at : Anim, obj : Actor] /\ m \in Actor /\ m \in Object /\ Answers(p, m)
      /\ (m \in Players => m \notin Arrows) /\ (m \in Monsters => m \notin Arrows) /\ m \notin Arrows
  BY <1>1, <1>2, AtAnim, PacketsAre, ObjectIs DEF Answers
<1>5. /\ handler'[p].at = "animEnter" /\ handler'[p].obj = m
      /\ \A q \in Players : q # p => handler'[q] = handler[q]
  BY <1>1, <1>2, <1>3, <1>4
<1>6. m \notin raced => /\ m \in room.present /\ (m \in Players => m \in room.inRoom)
                        /\ SoundFor(room, late, m)
  BY <1>2, <1>4 DEF Ordered, Answering, Sound
<1>7. CASE m \in room.present
  <2>1. /\ room' \in RoomType /\ room'.fault = room.fault
        /\ \A o \in Object : o # m => Untouched(room, room', o)
        /\ m \notin room'.present /\ Follows(room.queue, room'.queue, m)
    BY <1>2, <1>3, <1>4, <1>7, LeaveAside
  <2>2. m \notin raced => SoundFor(room', late, m) /\ (m \in Players => room'.inRoom = room.inRoom)
    BY <1>2, <1>3, <1>4, <1>6, <1>7, LeaveSound
  <2> QED BY <1>2, <1>4, <1>5, <1>6, <2>1, <2>2, AnswerOrdered, PacketsAre
<1>8. CASE m \notin room.present /\ m \in Players
  <2>1. room' = room
    BY <1>2, <1>3, <1>4, <1>8, LeaveDoes
  <2>2. \A o \in Object : Untouched(room, room', o)
    BY <1>3, <2>1, SameAside
  <2>3. m \in raced
    BY <1>6, <1>8
  <2> QED BY <1>2, <1>3, <1>4, <1>5, <2>1, <2>2, <2>3, AnswerOrdered
<1>9. CASE m \notin room.present /\ m \notin Players
  <2>1. /\ room' \in RoomType /\ JobsOf(room') = JobsOf(room) /\ PlaceOf(room') = PlaceOf(room)
        /\ FlightOf(room') = <<room.owner, room.used, room.hits, TRUE>>
    BY <1>2, <1>3, <1>4, <1>9, LeaveDoes
  <2>2. room'.used = room.used
    BY <2>1 DEF FlightOf
  <2>3. \A o \in Object : Untouched(room, room', o)
    BY <1>3, <2>1, <2>2, SameAside DEF Untouched
  <2>4. m \in raced /\ raced # {}
    BY <1>6, <1>9
  <2> QED BY <1>2, <1>4, <1>5, <2>1, <2>3, <2>4, AnswerOrdered
<1> QED BY <1>7, <1>8, <1>9

\* The object that has left comes in again.
LEMMA AnimEnterOrdered ==
  ASSUME TypeOK, HeldTicks(room), Ordered, NEW p \in Players, AnimEnter(p), UNCHANGED raced
  PROVE  Ordered'
<1>1. PICK m : m = handler[p].obj
  OBVIOUS
<1>2. /\ handler[p].at = "animEnter" /\ ~room.fault /\ UNCHANGED <<link, current, joined, late, raced>>
  BY DEF AnimEnter, At
<1>3. PICK full : room' \in Revive(room, m, full)
  BY <1>1 DEF AnimEnter
<1>4. room \in RoomType
  BY DEF TypeOK
<1>5. handler'[p].at = "idle" /\ \A q \in Players : q # p => handler'[q] = handler[q]
  BY GoToIs DEF AnimEnter
<1>6. m \in Actor /\ m \in Object /\ Answers(p, m)
  BY <1>1, <1>2, AtAnim, PacketsAre, ObjectIs DEF Answers
<1>7. /\ room' \in RoomType /\ room'.fault = room.fault
      /\ \A o \in Object : o # m => Untouched(room, room', o)
  BY <1>3, <1>4, <1>6, ReviveAside
<1>8. ASSUME m \notin raced
      PROVE  /\ SoundFor(room', late, m) /\ m \in room'.present /\ m \in room'.inRoom
             /\ Follows(room.queue, room'.queue, m)
  <2>1. SoundFor(room, late, m) /\ m \notin room.present /\ ~Has(room.queue, m, "enter")
    BY <1>2, <1>6, <1>8, PacketsAre DEF Ordered, Answering, Sound
  <2> QED BY <1>3, <1>4, <1>6, <2>1, ReviveSound
<1> QED BY <1>2, <1>5, <1>6, <1>7, <1>8, AnswerOrdered

-----------------------------------------------------------------------------
(* Everybody has one place, is gone when his session is closed, and no job *)
(* or answer meets who is not there.                                       *)

\* At first nobody is anywhere, and each monster has its one Enter in the queue.
LEMMA InitOrdered == ASSUME Init PROVE Ordered
<1>1. PICK order \in [1 .. Cardinality(Monsters) -> Monsters] :
        /\ \A i, j \in DOMAIN order : order[i] = order[j] => i = j
        /\ room = EmptyRoom([i \in DOMAIN order |-> NewJob("enter", order[i])])
  BY InitIs
<1> DEFINE q == [i \in DOMAIN order |-> NewJob("enter", order[i])]
<1>2. ASSUME NEW i \in DOMAIN q
      PROVE /\ i \in DOMAIN order /\ q[i].op = "enter" /\ q[i].obj = order[i] /\ order[i] \in Monsters
            /\ q[i].held = FALSE
  <2>1. i \in DOMAIN order /\ q[i] = NewJob("enter", order[i]) /\ order[i] \in Monsters
    OBVIOUS
  <2>2. "enter" \in Op /\ order[i] \in Object
    BY <2>1, ObjectIs DEF Op
  <2> QED BY <2>1, <2>2, NewJobIs, ZenonT(40)
<1> HIDE DEF q
<1>3. room = EmptyRoom(q)
  BY <1>1 DEF q
<1>4. /\ room.queue = q /\ room.held = {} /\ room.present = {} /\ room.inRoom = {} /\ room.used = {}
      /\ room.stray = [o \in Object |-> 0] /\ room.grid = [c \in Cell |-> None]
      /\ room.zone = [z \in Zone |-> {}] /\ room.deaths = {} /\ ~room.fault
  BY <1>3 DEF EmptyRoom
<1>5. /\ handler = [p \in Players |-> Idle] /\ link = [p \in Players |-> "open"]
      /\ joined = [p \in Players |-> FALSE] /\ late = {} /\ raced = {}
  BY DEF Init
<1>6. ASSUME NEW i \in DOMAIN q, NEW j \in DOMAIN q, q[i].obj = q[j].obj PROVE i = j
  <2>1. i \in DOMAIN order /\ j \in DOMAIN order /\ order[i] = order[j]
    BY <1>2, <1>6
  <2> QED BY <1>1, <2>1
<1>7. \A o \in Object \ Monsters : \A i \in DOMAIN q : q[i].obj # o
  BY <1>2
<1>8. \A o \in Object : ~Named(q, o) /\ \A op : op # "enter" => ~Has(q, o, op)
  BY <1>2 DEF Named, Has
<1>9. None \notin Object
  BY KindsAssumption DEF Object, Actor
<1>10. ASSUME NEW o \in Object PROVE SoundFor(room, late, o)
  <2>1. \A c \in Cell : room.grid[c] # o
    BY <1>4, <1>9
  <2>2. o \in Arrows => Shot(room, o)
    BY <1>4, <1>8, <2>1 DEF Shot
  <2>3. Entered(room, o)
    <3>1. Once(q, o, "enter")
      BY <1>6 DEF Once
    <3>2. Only(q, o, {"enter", "tick"})
      BY <1>2 DEF Only
    <3> QED BY <1>4, <3>1, <3>2 DEF Entered
  <2>4. Stands(room, o)
    BY <1>4, <2>1 DEF Stands
  <2>5. ASSUME o \in Players PROVE Viewed(room, o)
    <3>1. OneView(q, o)
      BY <1>7, <2>5, ObjectIs DEF OneView
    <3> QED BY <1>4, <1>8, <3>1 DEF Viewed
  <2> QED BY <2>2, <2>3, <2>4, <2>5 DEF SoundFor
<1>11. "idle" \notin Anim /\ "idle" \notin Packets /\ "idle" # "joined" /\ "idle" # "entering"
  BY DEF Anim, Packets
<1>12. \A p \in Players : handler[p].at = "idle"
  BY <1>5 DEF Idle
<1>13. ASSUME NEW p \in Players PROVE InSession(p)
  <2>1. p \in Object /\ p \notin Monsters
    BY ObjectIs
  <2>2. NotYet(room, p)
    BY <1>4, <1>7, <2>1 DEF NotYet, Only
  <2>3. Staying(room, p)
    BY <1>4, <1>8, <2>1 DEF Staying
  <2>4. handler[p].at = "idle" /\ link[p] = "open" /\ ~joined[p] /\ p \notin late
    BY <1>5, <1>12
  <2>5. ~Away(p)
    BY <1>12 DEF Away
  <2>6. Placed(p)
    BY <2>2, <2>3, <2>4, <2>5 DEF Placed
  <2> QED BY <1>11, <2>4, <2>6 DEF InSession
<1>14. Answering
  BY <1>11, <1>12 DEF Answering, Answers
<1>15. Sound(room, late, raced)
  BY <1>10 DEF Sound
<1> QED BY <1>4, <1>13, <1>14, <1>15 DEF Ordered

\* The inductive invariant.
Settled == RoomInv /\ Ordered

\* It holds at first.
LEMMA InitSettled == Init => Settled
BY InitInv, InitOrdered DEF Settled

\* And every step keeps it.
LEMMA NextSettled == Settled /\ [Next]_vars => Settled'
<1> SUFFICES ASSUME Settled, [Next]_vars PROVE Settled'
  OBVIOUS
<1>0. RoomInv /\ TypeOK /\ RoomFine(room) /\ HeldTicks(room) /\ Ordered
  BY DEF Settled, RoomInv, Well, RoomFine
<1>1. RoomInv'
  BY <1>0, NextInv
<1>2. CASE UNCHANGED vars
  <2>1. room' = room /\ handler' = handler /\ UNCHANGED <<link, current, joined, late, raced>>
    BY <1>2 DEF vars, session
  <2>2. Sound(room, late, raced)'
    BY <1>0, <2>1 DEF Ordered, Sound, SoundFor, Shot, Entered, Stands, Viewed
  <2>3. ASSUME NEW q \in Players PROVE InSession(q)'
    <3>1. InSession(q)
      BY <1>0 DEF Ordered
    <3> QED BY <2>1, <3>1 DEF InSession, Placed, Away, NotYet, Staying, Departing, OutStaying,
                              OutDeparting, Out
  <2>4. Answering'
    BY <1>0, <2>1 DEF Ordered, Answering, Answers
  <2>5. Ordered'
    BY <1>0, <2>1, <2>2, <2>3, <2>4 DEF Ordered
  <2> QED BY <1>1, <2>5 DEF Settled
<1>3. CASE RunJob \/ \E o \in Object : FireHeld(o) \/ FireStray(o)
  <2>1. Ordered'
    BY <1>0, <1>3, RoomOrdered
  <2> QED BY <1>1, <2>1 DEF Settled
<1>4. ASSUME NEW p \in Players, SessionStep(p) PROVE Settled'
  <2>1. CASE \E o \in Actor : BeginAnimEnd(p, o)
    <3>1. Ordered'
      BY <1>0, <2>1, BeginAnimOrdered
    <3> QED BY <1>1, <3>1 DEF Settled
  <2>2. CASE /\ UNCHANGED raced
             /\ \/ BeginEnterGame(p) \/ FindRoom(p) \/ (\E packet \in Packets : BeginPacket(p, packet))
                \/ Drop(p) \/ ForgetPlayer(p)
    <3>1. Ordered'
      BY <1>0, <2>2, QuietOrdered
    <3> QED BY <1>1, <3>1 DEF Settled
  <2>3. CASE UNCHANGED raced /\ (PushEnter(p) \/ PushPacket(p) \/ PushLeave(p))
    <3>1. Ordered'
      BY <1>0, <2>3, PushEnterOrdered, PushPacketOrdered, PushLeaveOrdered
    <3> QED BY <1>1, <3>1 DEF Settled
  <2>4. CASE UNCHANGED raced /\ (AnimLeave(p) \/ AnimEnter(p))
    <3>1. Ordered'
      BY <1>0, <2>4, AnimLeaveOrdered, AnimEnterOrdered
    <3> QED BY <1>1, <3>1 DEF Settled
  <2> QED BY <1>4, <2>1, <2>2, <2>3, <2>4 DEF SessionStep
<1> QED BY <1>2, <1>3, <1>4 DEF Next

\* Who is in order is in one place.
LEMMA OrderedOnePlace == ASSUME TypeOK, Ordered PROVE OnePlace
<1>1. /\ \A o \in Object \ raced : SoundFor(room, late, o)
      /\ room.cell \in [Object -> Cell] /\ room.grid \in [Cell -> Object \cup {None}]
  BY DEF Ordered, Sound, TypeOK, RoomType
<1>2. ASSUME NEW c \in Cell, room.grid[c] \notin late \cup raced \cup {None} PROVE room.cell[room.grid[c]] = c
  <2>1. PICK o \in Object : o = room.grid[c]
    BY <1>1, <1>2
  <2>2. SoundFor(room, late, o) /\ o \notin late
    BY <1>1, <1>2, <2>1
  <2>3. CASE o \in Arrows
    BY <2>1, <2>2, <2>3 DEF SoundFor, Shot
  <2>4. CASE o \in Actor
    BY <2>1, <2>2, <2>4 DEF SoundFor, Stands
  <2> QED BY <2>1, <2>3, <2>4, ObjectIs
<1>3. ASSUME NEW o \in (room.present \cap Actor) \ (late \cup raced)
      PROVE  /\ room.grid[room.cell[o]] = o
             /\ o \in Players => {z \in Zone : o \in room.zone[z]} = {ZoneOf(room.cell[o])}
  <2>1. o \in Object /\ room.cell[o] \in Cell
    BY <1>1, <1>3, ObjectIs
  <2>2. Stands(room, o)
    BY <1>1, <1>3, <2>1 DEF SoundFor
  <2>3. room.grid[room.cell[o]] = o
    BY <2>1, <2>2, <1>3 DEF Stands
  <2>4. ASSUME o \in Players PROVE {z \in Zone : o \in room.zone[z]} = {ZoneOf(room.cell[o])}
    <3>1. \A z \in Zone : o \in room.zone[z] <=> z = ZoneOf(room.cell[o])
      BY <1>3, <2>2, <2>4 DEF Stands
    <3>2. ZoneOf(room.cell[o]) \in Zone
      BY <2>1, CellsAreZoned
    <3> QED BY <3>1, <3>2
  <2> QED BY <2>3, <2>4
<1> QED BY <1>2, <1>3 DEF OnePlace

\* Who is in order is gone when his session is closed and his jobs have run: one who is
\* out for an answer then still has his Leave in the queue.
LEMMA OrderedIsGone == ASSUME TypeOK, Ordered PROVE ClosedIsGone
<1>1. ASSUME NEW p \in Players \ (late \cup raced), link[p] = "closed", ~Waiting(p)
      PROVE  /\ p \notin room.present \cup room.held /\ room.stray[p] = 0
             /\ \A c \in Cell : room.grid[c] # p
             /\ \A z \in Zone : p \notin room.zone[z]
  <2>1. p \in Object /\ p \in Actor /\ p \in Players
    BY <1>1, ObjectIs
  <2>2. Stands(room, p) /\ Viewed(room, p) /\ Placed(p)
    BY <1>1, <2>1 DEF Ordered, Sound, SoundFor, InSession
  <2>3. ~Has(room.queue, p, "leave")
    BY <1>1 DEF Waiting, Has
  <2>4. Departing(room, p)
    BY <1>1, <2>2, <2>3 DEF Placed, OutDeparting
  <2>5. p \notin room.present
    BY <2>3, <2>4 DEF Departing
  <2> QED BY <2>1, <2>2, <2>5 DEF Stands, Viewed
<1>2. NoFault
  BY DEF Ordered, NoFault
<1> QED BY <1>1, <1>2 DEF ClosedIsGone

\* The grid, the positions and the Zones agree about everybody, whatever moves, jumps,
\* shots, logins, broken connections and answers to deaths meet, and whatever the clients
\* send; but for players with a job pushed after their Leave, and for whom a job or
\* another answer overtook in OnDeadAnim (Map.cpp:58-103, 126-163, Room.cpp:90-91,
\* GameObject.cpp:170-184).
THEOREM EverybodyHasOnePlace == Spec => []OnePlace
<1>1. Settled => OnePlace
  BY OrderedOnePlace DEF Settled, RoomInv, Well
<1> QED BY <1>1, InitSettled, NextSettled, PTL DEF Spec

\* An update of a view meets a ViewCube that was released, or a Leave an object that is
\* not there, only where an OnDeadAnim was overtaken: by another answer to the death of
\* the same object, or by a job that moves it.  Nothing else that clients send, and no
\* broken connection, leads there (ViewCube.cpp:64, Room.cpp:150-151, 159-176,
\* ClientPacketHandler.cpp:109-126).
THEOREM NothingFaults == Spec => []NoFault
<1>1. Settled => NoFault
  BY DEF Settled, Ordered, NoFault
<1> QED BY <1>1, InitSettled, NextSettled, PTL DEF Spec

\* When a session is closed and its jobs have run, its player is nowhere in the room and
\* has no update of his view to come, also when he died and somebody's client brings him
\* back meanwhile; unless a handler pushed a job after his Leave, or his OnDeadAnim was
\* overtaken: from whichever point of whichever handler the connection broke
\* (GameSession.cpp:31-50, ViewCube.cpp:64).
THEOREM TheClosedAreGone == Spec => []ClosedIsGone
<1>1. Settled => ClosedIsGone
  BY OrderedIsGone DEF Settled, RoomInv, Well
<1> QED BY <1>1, InitSettled, NextSettled, PTL DEF Spec

=============================================================================
