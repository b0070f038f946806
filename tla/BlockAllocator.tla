---------------------------- MODULE BlockAllocator ----------------------------
(***************************************************************************)
(* What the users of tls_pool_alloc and tls_pool_free take the slabs for:  *)
(* a block belongs to one user from its allocation to its release.         *)
(***************************************************************************)
EXTENDS Naturals

CONSTANT Block      \* the addresses of payloads

VARIABLE users      \* how many users a block has

Init == users = [b \in Block |-> 0]

\* The address was nobody's.
Alloc(b) == users[b] = 0 /\ users' = [users EXCEPT ![b] = 1]

Free(b) == users[b] = 1 /\ users' = [users EXCEPT ![b] = 0]

Next == \E b \in Block : Alloc(b) \/ Free(b)

Spec == Init /\ [][Next]_users
=============================================================================
