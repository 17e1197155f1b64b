--------------------------- MODULE MCPoserThreads ---------------------------
(* Two trackers, of which the first sends two syncs, and the other only motion. *)
EXTENDS PoserThreads

CONSTANTS d1, d2

MCDevices == {d1, d2}
MCMaxSyncs == [d \in MCDevices |-> IF d = d1 THEN 2 ELSE 0]
=============================================================================
