\* An archer whose connection may break, a monster that chases the players, and an
\* onlooker, with one hp each, in a corridor of three cells; both clients answer the
\* monster's deaths.
SPECIFICATION Spec
CONSTANTS
  p1 = p1
  p2 = p2
  MinX = 0
  MaxX = 2
  MinY = 0
  MaxY = 4
  Walls <- Corridor
  ZoneSize = 2
  ViewRange = 4
  Players = {p1, p2}
  Monsters = {m1}
  Arrows = {a1}
  None = None
  Droppers = {p1}
  Reports <- BothAnswer
  Sends <- Archer
  Dirs = {"DOWN"}
  States = {"IDLE"}
  MaxHp = 1
  Damage <- OneHp
  MaxQueue = 2
VIEW Fight
INVARIANTS
  NoFault
  ArrowHitsOnce
  NobodyForgotten
CHECK_DEADLOCK FALSE
