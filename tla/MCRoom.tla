------------------------------- MODULE MCRoom -------------------------------
(* Instances of Room for TLC: two clients in a corridor between two walls. *)
EXTENDS Room

CONSTANTS p1, p2

\* Everything but the column x = 1, and the two ends of it.
Corridor == {c \in Cell : c[1] # 1 \/ c[2] \in {MinY, MaxY}}

\* One walks and jumps, the other shoots; or one shoots and the other looks on.
WalkerAndArcher == {<<p1, "move">>, <<p1, "random">>, <<p2, "skill">>}
Archer == {<<p1, "skill">>}

\* The archer's client answers the death of the walker; both clients those of monsters.
ArcherAnswers == {<<p2, p1>>}
BothAnswer == Players \X Monsters

OneHp == [o \in Actor |-> 1]

\* Arrows that are gone and players of whom nothing more will come: where they were
\* does not matter.
Over ==
  {a \in Arrows : room.owner[a] = None} \cup
  {p \in Players : /\ link[p] = "closed" /\ handler[p].at = "idle"
                   /\ p \notin room.present \cup room.held
                   /\ ~Waiting(p) /\ room.stray[p] = 0
                   /\ \A c \in Cell : room.grid[c] # p}
Standing(r) ==
  [r EXCEPT !.cell = [o \in Object \ Over |-> @[o]],
            !.dir = [o \in (Players \cup Arrows) \ Over |-> @[o]]]

\* What the fight depends on: not what the clients are shown, nor a target or a
\* cool-down nobody will read.  (TLC has to evaluate the whole state: room = room.)
Fight ==
  <<[Standing(room) EXCEPT
       !.known = {}, !.prev = {}, !.gone = {},
       !.target = [m \in Monsters |-> IF room.fsm[m] = "IDLE" THEN None ELSE @[m]],
       !.ready = {m \in @ : room.fsm[m] = "SKILL"}],
    session, raced, room = room>>

\* What the walks depend on: of the views only what ShownIsKnown is about.
Walk ==
  <<[Standing(room) EXCEPT
       !.prev = [p \in Players |-> @[p] \ room.gone],
       !.known = [p \in Players |-> @[p] \ room.gone]],
    session, raced, room = room>>
=============================================================================
