--------------------------- MODULE MCDriveListener ---------------------------
(* Small instances of DriveListener.  Full = 3 and DeadZone = 2 stand for    *)
(* 100 and 10: 1 lies in the dead zone, 3 and -3 outside of it.  One tick is *)
(* a whole timeout, which is all the code distinguishes.                     *)
EXTENDS DriveListener

MCVelocities == {-3, 0, 1, 3}
MCDirections == {0, -2}

Msg(v, d) == [velocity |-> v, direction |-> d]

\* Forward with a turn, a crawl in the dead zone, backward without a direction,
\* and a message without a velocity.
MCMessages == {Msg(3, -2), Msg(1, -2), Msg(-3, Missing), Msg(Missing, 0)}

\* A client that sends a string for the direction.
MCTextMessages == {Msg(3, 0), Msg(0, NotANumber)}
=============================================================================
