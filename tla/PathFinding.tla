----------------------------- MODULE PathFinding -----------------------------
(***************************************************************************)
(* Map::FindPath, the search that monsters and skills use to get to their  *)
(* target: always the open cell nearest to Dest is expanded next, with no  *)
(* regard to how far it is from Start (Node::calc returns h only), so the  *)
(* path is a path and not always a shortest one.                           *)
(*                                                                         *)
(* A step is one node of the open list with its four neighbours, or one    *)
(* step of CalculatePath back from the destination.  The map does not      *)
(* change meanwhile: a search runs inside one job of the room.             *)
(* Which of several nearest cells comes first is open, as it is with       *)
(* priority_queue and in the hash map that is asked for the second best.   *)
(***************************************************************************)
EXTENDS WorldMap, Sequences

CONSTANTS
  Start, Dest,  \* where the search starts, and where it shall lead
  Free,         \* the cells for which CanGo is true
  MaxDistance   \* max_distance: cells farther from Dest are not looked at

VARIABLES
  phase,   \* the loop of FindPath, that of CalculatePath, or returned
  open,    \* the cells in open_list
  closed,  \* close_list
  seen,    \* the keys of h_list; the value of a key is Heuristic of it
  parent,  \* parent
  cur,     \* dest of CalculatePath
  path,    \* _cell_path, already in the order that reverse gives it
  round,   \* history: how many nodes were expanded
  rank     \* history: the round in which a cell got its parent

searchVars == <<phase, open, closed, seen, parent, cur, path, round, rank>>

Places == Free \cup {Start, Dest}

SearchTypeOK ==
  /\ phase \in {"search", "walk", "done"}
  /\ open \subseteq Places /\ closed \subseteq Places /\ seen \subseteq Places
  /\ DOMAIN parent \subseteq Places
  /\ parent \in [DOMAIN parent -> Places]
  /\ cur \in Places
  /\ path \in Seq(Places)
  /\ round \in Nat
  /\ rank \in [DOMAIN parent -> Nat]

SearchInit ==
  /\ phase = "search"
  /\ open = {Start} /\ closed = {} /\ seen = {}
  /\ parent = [c \in {Start} |-> Start]
  /\ cur = Start /\ path = <<>>
  /\ round = 0 /\ rank = [c \in {Start} |-> 0]

-----------------------------------------------------------------------------
Heuristic(c) == Distance(c, Dest)

Neighbours(c) ==
  {<<c[1] + 1, c[2]>>, <<c[1], c[2] - 1>>, <<c[1] - 1, c[2]>>, <<c[1], c[2] + 1>>}

\* The destination need not be free: the target stands there.
Usable(n) == Heuristic(n) <= MaxDistance /\ (n = Dest \/ n \in Free)

\* The neighbours that get a node when c is expanded; the heuristic of a cell never
\* changes, so a key of h_list is never improved.
New(c) == {n \in Neighbours(c) : Usable(n) /\ n \notin seen \cup closed \cup {c}}

\* The top of the priority queue.
Top(c) == c \in open /\ \A o \in open : Heuristic(c) <= Heuristic(o)

Expand(c) ==
  /\ phase = "search"
  /\ Top(c)
  /\ c # Dest
  /\ open' = (open \ {c}) \cup New(c)
  /\ closed' = closed \cup {c}
  /\ seen' = seen \cup New(c)
  /\ parent' = [n \in DOMAIN parent \cup New(c) |-> IF n \in New(c) THEN c ELSE parent[n]]
  /\ round' = round + 1
  /\ rank' = [n \in DOMAIN parent \cup New(c) |-> IF n \in New(c) THEN round' ELSE rank[n]]
  /\ UNCHANGED <<phase, cur, path>>

\* The destination, or a cell nearest to it if it was not found.
Goal(c) ==
  IF Dest \in DOMAIN parent
    THEN c = Dest
    ELSE \A o \in DOMAIN parent : Heuristic(c) <= Heuristic(o)

\* Dest is the top, or nothing is open.
StartWalk ==
  /\ phase = "search"
  /\ open = {} \/ Top(Dest)
  /\ \E c \in DOMAIN parent : Goal(c) /\ cur' = c
  /\ phase' = "walk"
  /\ UNCHANGED <<open, closed, seen, parent, path, round, rank>>

Walk ==
  /\ phase = "walk"
  /\ parent[cur] # cur
  /\ path' = <<cur>> \o path
  /\ cur' = parent[cur]
  /\ UNCHANGED <<phase, open, closed, seen, parent, round, rank>>

Return ==
  /\ phase = "walk"
  /\ parent[cur] = cur
  /\ phase' = "done"
  /\ UNCHANGED <<open, closed, seen, parent, cur, path, round, rank>>

SearchNext == (\E c \in Places : Expand(c)) \/ StartWalk \/ Walk \/ Return

SearchSpec == SearchInit /\ [][SearchNext]_searchVars

-----------------------------------------------------------------------------
(* Properties                                                              *)

\* What is returned can be walked: it begins next to Start and goes from a cell to
\* a neighbour, never to one cell twice nor to Start, and only over cells that are
\* free, but for the destination itself; so a monster's step to path[0] is one of
\* the steps that Room lets it take (Map.cpp:214-222, 246-286, Monster.cpp:132-151).
PathWalkable ==
  phase = "done" =>
    /\ path # <<>> => path[1] \in Neighbours(Start)
    /\ \A i \in 1 .. Len(path) - 1 : path[i + 1] \in Neighbours(path[i])
    /\ \A i \in 1 .. Len(path) : path[i] # Start /\ Usable(path[i])
    /\ \A i, j \in 1 .. Len(path) : path[i] = path[j] => i = j

\* A path that does not lead to the destination is returned only if there is none:
\* some set of cells holds Start and not Dest, and no step leads out of it.  The
\* short cuts of the loop (cells seen or closed before) lose nothing (Map.cpp:266-285).
Enclosed(S) ==
  /\ Start \in S /\ Dest \notin S
  /\ \A c \in S : \A n \in Neighbours(c) : Usable(n) => n \in S

LeadsToDest == Start # Dest => path # <<>> /\ path[Len(path)] = Dest
FoundIfReachable ==
  phase = "done" => LeadsToDest \/ \E S \in SUBSET Places : Enclosed(S)

\* Neither loop goes on for ever: a step closes one more of finitely many cells, or
\* goes to a cell that was found earlier; it is the cells' order of discovery that
\* keeps CalculatePath from going round in a circle (Map.cpp:214-218, 254-284).
Progress ==
  [][ \/ phase' # phase
      \/ \E c \in Places \ closed : closed' = closed \cup {c}
      \/ rank[cur'] < rank[cur] ]_searchVars
=============================================================================
