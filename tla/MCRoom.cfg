\* A walker whose connection may break and an archer who shoots at him, with one hp
\* each, in a corridor of three cells and three Zones; one arrow, at most two jobs.
SPECIFICATION Spec
CONSTANTS
  p1 = p1
  p2 = p2
  MinX = 0
  MaxX = 2
  MinY = 0
  MaxY = 4
  Walls <- Corridor
  ZoneSize = 2
  ViewRange = 1
  Players = {p1, p2}
  Monsters = {}
  Arrows = {a1}
  None = None
  Droppers = {p1}
  Reports <- ArcherAnswers
  Sends <- WalkerAndArcher
  Dirs = {"DOWN"}
  States = {"IDLE"}
  MaxHp = 1
  Damage <- OneHp
  MaxQueue = 2
VIEW Walk
INVARIANTS
  OnePlace
  ShownIsKnown
  ClosedIsGone
CHECK_DEADLOCK FALSE
