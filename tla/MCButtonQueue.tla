--------------------------- MODULE MCButtonQueue ----------------------------
(* Three entries: the ring wraps after three events and is full with two.    *)
EXTENDS ButtonQueue

\* One button, which is looked at first, and one axis.
McInputs == <<"trigger", "pad">>
McButtons == {"trigger"}
=============================================================================
