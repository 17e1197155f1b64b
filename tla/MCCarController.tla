--------------------------- MODULE MCCarController ---------------------------
(* Velocities and directions on both sides of every branch of Car.drive:    *)
(* zero, both signs, the clamp bound and beyond it, with Full = 2.          *)
EXTENDS CarController

MCVelocities == -3 .. 3
MCDirections == -3 .. 3
=============================================================================
