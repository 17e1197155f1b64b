--------------------------- MODULE MCListenerRestart ---------------------------
(* Three processes: one that runs, and two that are started to replace it.   *)
EXTENDS ListenerRestart, TLC

CONSTANTS first, second, third
ProcessSymmetry == Permutations(Procs)
=============================================================================
