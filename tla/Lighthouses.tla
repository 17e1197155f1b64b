---------------------------- MODULE Lighthouses -----------------------------
(***************************************************************************)
(* The lighthouses (repos/libsurvive/src/survive.c and                     *)
(* survive_process_gen2.c): one bit of a lighthouse's frame comes with     *)
(* each sync that a tracker sees; the channel of the sync is looked up in  *)
(* the table of lighthouses, where a decoder collects the bits that the    *)
(* tracker which saw it first goes on to see.  Everything runs with the    *)
(* lock of the context.  The frames go on for ever, one after the other.   *)
(***************************************************************************)
EXTENDS OotxDecoder, FiniteSets

CONSTANTS Channels, Slots, Trackers, None,
          PacketOf,   \* what the lighthouse of each channel sends
          Steady,     \* the channels that are heard for long enough
          MaxTurns,   \* bound: turns of a lighthouse that is out of sight then
          MaxMissed   \* bound: syncs that the tracker of a decoder does not see

ASSUME LighthouseAssumption ==
    /\ PacketOf \in [Channels -> Packets] /\ \A p \in Packets : \E c \in Channels : PacketOf[c] = p
    /\ Slots \in Nat /\ Slots >= Cardinality(Channels)
    /\ Steady \subseteq Channels /\ MaxTurns \in Nat
    /\ None \notin Channels \cup Trackers \cup (0 .. Slots - 1)
    /\ MaxMissed \in Nat

VARIABLES version,  \* lh_version: "unknown" or "known"
          kept,     \* the table was not reset then
          map,      \* bsd_map
          mode,     \* bsd[].mode, None for 0xFF
          learnt,   \* OOTXSet, and the packet it is from
          user, decoder,
          plugged,  \* the trackers there are; one that comes later sees nothing before
          sent,     \* the bit of the frame that each lighthouse sends next
          whole,    \* the frame was seen from its start by the decoder
          missed

table == <<version, kept, map, mode>>
vars == <<table, learnt, user, decoder, plugged, sent, whole, missed>>

SlotIds == 0 .. Slots - 1

\* The bits of a lighthouse's frame: the preamble, and a one after each word.
FrameOf == [c \in Channels |->
    LET p == PacketOf[c] IN
    [i \in 1 .. Word + 2 + Len(p) + Len(p) \div Word |->
        LET k == i - (Word + 2) IN
        IF k < 1 THEN IF i = Word + 2 THEN 1 ELSE 0
        ELSE IF k % (Word + 1) = 0 THEN 1
        ELSE p[k - (k - 1) \div (Word + 1)]]]

TypeOK ==
    /\ version \in {"unknown", "known"} /\ kept \in BOOLEAN
    /\ map \in [Channels -> SlotIds \cup {None}]
    /\ mode \in [SlotIds -> Channels \cup {None}]
    /\ learnt \in [SlotIds -> Packets \cup {None}]
    /\ user \in [SlotIds -> Trackers \cup {None}]
    /\ decoder \in [SlotIds -> Decoder]
    /\ plugged \subseteq Trackers
    /\ DOMAIN sent = Channels /\ \A c \in Channels : sent[c] \in 1 .. Len(FrameOf[c])
    /\ whole \in [Channels -> BOOLEAN]
    /\ missed \in 0 .. MaxMissed

\* survive_init: what the configuration kept of the lighthouses it knew.
Init ==
    /\ version = "unknown" /\ kept = TRUE
    /\ mode \in [SlotIds -> Channels \cup {None}]
    /\ \A i, j \in SlotIds : i # j /\ mode[i] # None => mode[i] # mode[j]
    /\ map = [c \in Channels |-> IF \E i \in SlotIds : mode[i] = c
                                 THEN CHOOSE i \in SlotIds : mode[i] = c ELSE None]
    /\ learnt = [i \in SlotIds |-> None]
    /\ user = [i \in SlotIds |-> None]
    /\ decoder = [i \in SlotIds |-> New]
    /\ plugged = Trackers /\ missed = 0
    /\ sent = [c \in Channels |-> 1]
    /\ whole = [c \in Channels |-> FALSE]

----------------------------------------------------------------------------
\* The generation is seen to be the configured one, or the table is reset:
\* the modes, but not the map.
Detect ==
    /\ version = "unknown" /\ version' = "known"
    /\ \/ UNCHANGED <<kept, mode, learnt>>
       \/ /\ \E i \in SlotIds : mode[i] # None
          /\ kept' = FALSE
          /\ mode' = [i \in SlotIds |-> None] /\ learnt' = [i \in SlotIds |-> None]
    /\ UNCHANGED <<map, user, decoder, plugged, sent, whole, missed>>

\* A decoder goes on naming a tracker that is destroyed.  Another tracker that
\* is pulled out is as one that sees nothing from then on.
Unplug(t) ==
    /\ t \in plugged /\ \E i \in SlotIds : user[i] = t
    /\ plugged' = plugged \ {t}
    /\ UNCHANGED <<table, learnt, user, decoder, sent, whole, missed>>

\* Mutant: the slot is taken whether or not it is free.
LookUpMutant(c, i) ==
    IF map[c] # None THEN i = map[c] /\ UNCHANGED map
    ELSE (\A j \in 0 .. i - 1 : mode[j] # None) /\ map' = [map EXCEPT ![c] = i]

\* survive_get_bsd_idx: slot i is the one of channel c, or the first free one.
LookUp(c, i) ==
    IF map[c] # None THEN i = map[c] /\ UNCHANGED map
    ELSE /\ mode[i] = None /\ \A j \in 0 .. i - 1 : mode[j] # None
         /\ map' = [map EXCEPT ![c] = i]

Advance(c) ==
    /\ c \in Steady \/ sent[c] <= MaxTurns
    /\ sent' = [sent EXCEPT ![c] = IF @ = Len(FrameOf[c]) THEN 1 ELSE @ + 1]

(***************************************************************************)
(* A turn of the lighthouse of channel c as the tracker of its decoder has *)
(* it, or the first tracker to see it: survive_default_sync_process with   *)
(* survive_ootx_behavior.  A sync that was missed is made up for with a    *)
(* skipped bit at the next one, which comes to the same as at once.        *)
(***************************************************************************)
Turn(c, t, seen) ==
    /\ version = "known" /\ t \in plugged
    /\ \E i \in SlotIds :
          /\ LookUp(c, i)
          /\ LET wiped == map[c] = None
                 new == wiped \/ user[i] = None
                 to == Pump(IF new THEN New ELSE decoder[i],
                            IF seen THEN FrameOf[c][sent[c]] ELSE Skipped)
             IN  /\ IF new THEN seen ELSE user[i] = t
                 /\ user' = [user EXCEPT ![i] = t]
                 /\ decoder' = [decoder EXCEPT ![i] = to[1]]
                 /\ learnt' = [learnt EXCEPT ![i] = IF to[2] # {} THEN CHOOSE p \in to[2] : TRUE
                                                    ELSE IF wiped THEN None ELSE @]
                 /\ mode' = [mode EXCEPT ![i] =
                        IF to[2] \ {learnt[i]} # {} THEN CHOOSE d \in Channels : PacketOf[d] \in to[2]
                        ELSE IF wiped THEN c ELSE @]
    /\ whole' = [whole EXCEPT ![c] = seen /\ (@ \/ sent[c] = 1)]
    /\ missed' = IF seen THEN missed ELSE missed + 1
    /\ missed' <= MaxMissed
    /\ Advance(c)
    /\ UNCHANGED <<version, kept, plugged>>

\* Nothing is made of a sync: the trackers that are there are not the decoder's,
\* or the time since the last one is so long that it starts anew.
Unheard(c) ==
    /\ version = "known"
    /\ Advance(c)
    /\ whole' = [whole EXCEPT ![c] = FALSE]
    /\ IF map[c] # None /\ user[map[c]] \in plugged
       THEN missed < MaxMissed /\ missed' = missed + 1 ELSE UNCHANGED missed
    /\ UNCHANGED <<table, learnt, user, decoder, plugged>>

Next ==
    \/ Detect
    \/ \E t \in Trackers : Unplug(t)
    \/ \E c \in Channels : Unheard(c) \/ \E t \in Trackers, seen \in BOOLEAN : Turn(c, t, seen)

Spec == Init /\ [][Next]_vars /\ \A c \in Steady : WF_vars(\E t \in Trackers : Turn(c, t, TRUE))

----------------------------------------------------------------------------
Shared(c) == \E d \in Channels \ {c} : map[d] = map[c]

\* A frame of which the decoder got every bit has been taken by its last data
\* bit, whatever came before it: garbage, half a frame, skipped bits.
WholeFrameIsTaken ==
    \A c \in Channels : whole[c] /\ sent[c] = Len(FrameOf[c]) /\ ~Shared(c) =>
        learnt[map[c]] = PacketOf[c]

\* A lighthouse is never taken for another one, with the same exception.
LearntIsOwn ==
    kept => \A c \in Channels : map[c] # None => learnt[map[c]] \in {None, PacketOf[c]}

Heard(c) == map[c] # None /\ user[map[c]] # None

\* A lighthouse that is heard of is learnt in the end, unless the tracker of its
\* decoder is pulled out, which no other one makes up for.
HeardIsLearnt ==
    \A c \in Steady : Heard(c) ~>
        Heard(c) /\ (learnt[map[c]] # None \/ Shared(c) \/ user[map[c]] \notin plugged)
=============================================================================
