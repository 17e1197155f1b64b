--------------------------- MODULE MCLighthouses ----------------------------
(* Two lighthouses; words of 4 bits, packets of one word.  One payload is all *)
(* zeros, one more of which would make a preamble.                            *)
EXTENDS Lighthouses

CONSTANTS t1, t2

MCChannels == {1, 2}
MCSteady == {1}
MCTrackers == {t1, t2}
MCPacketOf == [c \in MCChannels |->
                  IF c = 1 THEN <<1, 0, 0, 0, 0, 0, 0, 0, 1, 1, 0, 0>>
                  ELSE <<1, 0, 0, 0, 1, 1, 0, 1, 0, 1, 1, 0>>]
MCPackets == {MCPacketOf[c] : c \in MCChannels}
=============================================================================
