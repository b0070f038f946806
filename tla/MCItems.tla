------------------------------ MODULE MCItems -------------------------------
(* Instances of Items for TLC. *)
EXTENDS Items, TLC

Symmetry == Permutations(Lives)

\* An item that is neither held nor waits to be saved may be worn or not, and
\* when lives have overlapped nothing more is said of them.
Future ==
  LET saved == {dbQueue[i].id : i \in {j \in DOMAIN dbQueue : dbQueue[j].op = "equip"}}
  IN  <<life, last, inventory, [l \in Lives |-> equipped[l] \cap (Held(l) \cup saved)],
        made, rows, worn, roomQueue, dbQueue, shadow, collided, torn, overlap>>
NoOverlap == ~overlap
=============================================================================
