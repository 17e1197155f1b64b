---------------------------- MODULE MCSimpleApi ----------------------------
(* A tracker that appears, a lighthouse that is known or appears, and an     *)
(* external pose; a ring of two, for three events.                           *)
EXTENDS SimpleApi

McKnown == {<<>>, <<"LH0">>}
McEvents == {"added", "button", "config"} \X {"T20", "LH0", "ext"} \X (1 .. MaxInserted)
=============================================================================
