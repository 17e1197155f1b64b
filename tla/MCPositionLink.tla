--------------------------- MODULE MCPositionLink ----------------------------
(* Three poses, so that one comes between the two looks of the recorder and   *)
(* another after them; two failures of the connection.                        *)
EXTENDS PositionLink
=============================================================================
