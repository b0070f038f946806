------------------------------ MODULE WorldMap ------------------------------
(***************************************************************************)
(* The geometry of a room: the cells of its Map, the walls, and the square *)
(* Zones the cells are grouped in.  Positions are <<x, y>>; a Zone is      *)
(* <<column, row>> with the rows counted from the top, as in Room::_zones. *)
(***************************************************************************)
EXTENDS Integers

CONSTANTS
  MinX, MaxX, MinY, MaxY,   \* Map::_minx .. Map::_maxy
  Walls,                    \* the cells with _collisions set
  ZoneSize,                 \* Room::_zone_cell_size (RoomManager::Add: 10)
  ViewRange                     \* Room::kRange and ViewCube::kViewRange (both 10)

Cell == (MinX .. MaxX) \X (MinY .. MaxY)

ASSUME BoundsAssumption ==
  MinX \in Int /\ MaxX \in Int /\ MinY \in Int /\ MaxY \in Int
ASSUME WallsAssumption == Walls \subseteq Cell
ASSUME ZoneSizeAssumption == ZoneSize \in Nat \ {0}
ASSUME RangeAssumption == ViewRange \in Nat

Abs(n) == IF n < 0 THEN -n ELSE n

\* Division by _zone_cell_size rounds toward zero, as in C++.
ZoneQuotient(n) == IF n < 0 THEN -((-n) \div ZoneSize) ELSE n \div ZoneSize

Column(x) == ZoneQuotient(x - MinX)
Row(y) == ZoneQuotient(MaxY - y)

\* Room::GetZone(cell_pos), as an index.
ZoneOf(c) == <<Column(c[1]), Row(c[2])>>

\* The Zones Room::Init makes; GetZone returns nullptr for any other index.
Zone == (0 .. ZoneQuotient(MaxX - MinX + ZoneSize) - 1)
          \X (0 .. ZoneQuotient(MaxY - MinY + ZoneSize) - 1)

\* Room::GetAdjacentZones: the Zones that the square around c touches.
AdjacentZones(c) ==
  {z \in Zone : /\ z[1] \in Column(c[1] - ViewRange) .. Column(c[1] + ViewRange)
                /\ z[2] \in Row(c[2] + ViewRange) .. Row(c[2] - ViewRange)}

\* The distance test of Room::Broadcast and ViewCube::GetObjects.
Near(a, b) == Abs(a[1] - b[1]) <= ViewRange /\ Abs(a[2] - b[2]) <= ViewRange

Dir == {"UP", "DOWN", "LEFT", "RIGHT"}

\* GameObject::GetFrontCellPosition: y grows upward.
FrontCell(c, dir) ==
  CASE dir = "UP"    -> <<c[1], c[2] + 1>>
    [] dir = "DOWN"  -> <<c[1], c[2] - 1>>
    [] dir = "LEFT"  -> <<c[1] - 1, c[2]>>
    [] dir = "RIGHT" -> <<c[1] + 1, c[2]>>

\* Vector2Int::SimpleDistance of a difference.
Distance(a, b) == Abs(a[1] - b[1]) + Abs(a[2] - b[2])
=============================================================================
