---------------------------- MODULE MCStorageGate ---------------------------
(* A warehouse of three places that can be enlarged to four.                *)
EXTENDS StorageGate

MCCapacities == {3, 4}

Everything == Behaviour

\* Any count, also of a warehouse that is larger than this one ever is.
AnyCount == {c \in [used : 0 .. 5, capacity : {3, 4, 5}] : c.used <= c.capacity}

\* Only this: the player clears by hand, a few items at a time if he likes.
Clearing == {"clears"}
=============================================================================
