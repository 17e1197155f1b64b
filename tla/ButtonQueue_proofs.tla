-------------------------- MODULE ButtonQueue_proofs --------------------------
(***************************************************************************)
(* Proofs about the button events of libsurvive, for every length of the   *)
(* ring and every set of inputs and values.                                *)
(***************************************************************************)
EXTENDS ButtonQueue, SequenceTheorems, TLAPS

Places == 0 .. QueueLen - 1
Entry == [populated : BOOLEAN, event : Events \cup {Empty}]

(* The ring without %.  While the read index is outside of the ring it stands *)
(* for 0.                                                                     *)
Read == IF nextRead = QueueLen THEN 0 ELSE nextRead
Held == IF nextWrite >= Read THEN nextWrite - Read ELSE nextWrite - Read + QueueLen
Place(k) == IF Read + k < QueueLen THEN Read + k ELSE Read + k - QueueLen

(* The inductive invariant: PopulatedWhenWoken and PostsMatchEntries need to   *)
(* know who may be where while somebody else holds the lock.                   *)

\* The lock, where the threads are, and what survive_close has done.
LockInv ==
    /\ lock = "main" <=> main \in {"polling", "usb", "post", "join", "drivers", "closed"}
    /\ lock = "driver" <=> driver = "packet"
    /\ state = "running" <=> main \in {"polling", "window", "usb"}
    /\ driver = "ended" => main \in {"joinDriver", "closed"}
    /\ Registering => main = "usb" \/ driver = "packet"
    /\ sem = Deleted <=> main \in {"drivers", "joinDriver", "closed"}
    /\ sem = Deleted => servicer \in {"ended", "gaveUp"}
    /\ servicer = "ended" => state = "closing"

\* Where registerButtonEvent is with an input.
AtInv ==
    /\ Registering <=> at.step # "idle"
    /\ Registering <=> at.input # 0
    /\ at.step \in {"full", "publish", "post"} =>
           sem # Deleted /\ writable /\ reported[Input] = packet[Input]
    /\ at.step \in {"full", "publish"} => entries[nextWrite].event = <<Input, packet[Input]>>

\* The posts that can still come: one per input of the packet, one to close.
Left == IF Registering THEN Len(Inputs) - at.input + 1 ELSE 0
ToClose == IF main \in {"polling", "window", "usb", "post"} THEN 1 ELSE 0
SemBound == sem # Deleted => sem + Left + ToClose <= QueueLen + Len(Inputs) + 1

\* The read index is outside of the ring only before it wraps.
IndexInv == nextRead = QueueLen <=> servicer = "wrap"

\* What the semaphore counts, as PostsMatchEntries says.
Working == IF servicer \in {"waiting", "wrap"} THEN 0 ELSE 1
Posting == IF at.step = "post" THEN 1 ELSE 0
Joining == IF main = "join" THEN 1 ELSE 0
PostsCounted ==
    ~torn /\ sem # Deleted /\ servicer # "ended" => sem + Working + Posting = Held + Joining

\* The post of survive_close is not taken by a servicer that will read an entry.
JoinPosted == ~torn /\ main = "join" /\ servicer \notin {"woken", "ended"} => sem >= 1

\* A ring that was not full stays so until the entry is published.
RoomToPublish == ~torn /\ at.step = "publish" => Held < QueueLen - 1

\* The entries between the indices are published events.
HeldFilled ==
    ~torn => \A k \in 0 .. Held - 1 :
                 entries[Place(k)].populated /\ entries[Place(k)].event \in Events

NeverGivesUp == ~torn => servicer # "gaveUp"

RingInv == PostsCounted /\ JoinPosted /\ RoomToPublish /\ HeldFilled /\ NeverGivesUp
QueueInv == TypeOK /\ LockInv /\ AtInv /\ SemBound /\ IndexInv /\ RingInv
-----------------------------------------------------------------------------
\* What % is for less than twice its divisor.
LEMMA ModOnce ==
    ASSUME NEW m \in Nat \ {0}, NEW a \in Nat, a < 2 * m
    PROVE  a % m = IF a < m THEN a ELSE a - m
<1>1. CASE a < m
  BY <1>1
<1>2. CASE a >= m
  <2>1. (a - m) \in 0 .. m - 1
    BY <1>2
  <2>2. a = m * 1 + (a - m)
    OBVIOUS
  <2> QED
    BY <1>2, <2>1, <2>2
<1> QED
  BY <1>1, <1>2

\* The ring has two entries and a packet has one input at least.
LEMMA Sizes ==
    /\ QueueLen \in Nat /\ QueueLen > 1
    /\ Len(Inputs) \in Nat /\ Len(Inputs) > 0
    /\ \A i \in 1 .. Len(Inputs) : Inputs[i] \in Names
<1>1. Inputs \in Seq(STRING) /\ Inputs # <<>> /\ QueueLen \in Nat /\ QueueLen > 1
  BY QueueAssumption
<1>2. Len(Inputs) \in Nat /\ Len(Inputs) > 0 /\ DOMAIN Inputs = 1 .. Len(Inputs)
  BY <1>1
<1> QED
  BY <1>1, <1>2 DEF Names

LEMMA AfterIs ==
    ASSUME NEW i \in Places
    PROVE  After(i) = (IF i + 1 = QueueLen THEN 0 ELSE i + 1) /\ After(i) \in Places
<1>1. QueueLen \in Nat \ {0} /\ QueueLen > 1 /\ i \in 0 .. QueueLen - 1
  BY Sizes DEF Places
<1> DEFINE a == i + 1
<1>2. a \in Nat /\ a < 2 * QueueLen
  BY <1>1
<1>3. a % QueueLen = IF a < QueueLen THEN a ELSE a - QueueLen
  <2> HIDE DEF a
  <2> QED BY <1>1, <1>2, ModOnce
<1> QED
  BY <1>1, <1>3 DEF After, Places

LEMMA CountIsHeld ==
    ASSUME nextRead \in 0 .. QueueLen, nextWrite \in Places
    PROVE  Count = Held /\ Held \in Places
<1>1. QueueLen \in Nat \ {0} /\ QueueLen > 1 /\ nextWrite \in 0 .. QueueLen - 1
  BY Sizes DEF Places
<1> DEFINE a == nextWrite - nextRead + QueueLen
<1>2. a \in Nat /\ a < 2 * QueueLen
  BY <1>1
<1>3. a % QueueLen = IF a < QueueLen THEN a ELSE a - QueueLen
  <2> HIDE DEF a
  <2> QED BY <1>1, <1>2, ModOnce
<1> QED
  BY <1>1, <1>3 DEF Count, Held, Read, Places

LEMMA PlaceIs ==
    ASSUME nextRead \in 0 .. QueueLen, NEW k \in Places
    PROVE  (nextRead + k) % QueueLen = Place(k) /\ Place(k) \in Places
<1>1. QueueLen \in Nat \ {0} /\ QueueLen > 1 /\ k \in 0 .. QueueLen - 1
  BY Sizes DEF Places
<1> DEFINE a == nextRead + k
<1>2. a \in Nat /\ a < 2 * QueueLen
  BY <1>1
<1>3. a % QueueLen = IF a < QueueLen THEN a ELSE a - QueueLen
  <2> HIDE DEF a
  <2> QED BY <1>1, <1>2, ModOnce
<1> QED
  BY <1>1, <1>3 DEF Place, Read, Places

\* The entry that is written next is behind the ones that are held.
LEMMA WriteIsBehind ==
    ASSUME nextRead \in 0 .. QueueLen, nextWrite \in Places, NEW k \in Places
    PROVE  Place(k) = nextWrite <=> k = Held
BY Sizes DEF Place, Held, Read, Places
-----------------------------------------------------------------------------
\* What the steps of registerButtonEvent do to the entry that is written next.
LEMMA EntryBlanked ==
    ASSUME TypeOK, entries' = [entries EXCEPT ![nextWrite] = Blank]
    PROVE  /\ entries' \in [Places -> Entry]
           /\ \A i \in Places : i # nextWrite => entries'[i] = entries[i]
<1>1. Blank \in Entry
  BY DEF Blank, Entry
<1> QED
  BY <1>1 DEF TypeOK, Places, Entry

LEMMA EntryFilled ==
    ASSUME TypeOK, NEW e \in Events, entries' = [entries EXCEPT ![nextWrite].event = e]
    PROVE  /\ entries' \in [Places -> Entry]
           /\ \A i \in Places : i # nextWrite => entries'[i] = entries[i]
           /\ entries'[nextWrite].event = e
<1>1. entries \in [Places -> Entry] /\ nextWrite \in Places
  BY DEF TypeOK, Places, Entry
<1>2. [entries[nextWrite] EXCEPT !.event = e] \in Entry
  BY <1>1 DEF Entry
<1> QED
  BY <1>1, <1>2 DEF Entry

LEMMA EntryPublished ==
    ASSUME TypeOK, entries' = [entries EXCEPT ![nextWrite].populated = TRUE]
    PROVE  /\ entries' \in [Places -> Entry]
           /\ \A i \in Places : i # nextWrite => entries'[i] = entries[i]
           /\ entries'[nextWrite].populated
           /\ entries'[nextWrite].event = entries[nextWrite].event
<1>1. entries \in [Places -> Entry] /\ nextWrite \in Places
  BY DEF TypeOK, Places, Entry
<1>2. [entries[nextWrite] EXCEPT !.populated = TRUE] \in Entry
  BY <1>1 DEF Entry
<1> QED
  BY <1>1, <1>2 DEF Entry

\* The input that is looked at is one of the packet's.
LEMMA InputIs ==
    ASSUME QueueInv, at.step # "idle"
    PROVE  /\ at.input \in 1 .. Len(Inputs) /\ Input \in Names
           /\ packet[Input] \in Values /\ <<Input, packet[Input]>> \in Events
<1>1. at.input \in 1 .. Len(Inputs) /\ Input \in Names
  BY Sizes DEF QueueInv, TypeOK, AtInv, Input
<1> QED
  BY <1>1 DEF QueueInv, TypeOK, Packets, Events

\* On to the next input.
LEMMA OnToTheNext ==
    ASSUME QueueInv, at.step # "idle", Continue
    PROVE  /\ at' \in [input : 0 .. Len(Inputs), step : {"idle", "next", "full", "publish", "post"}]
           /\ at'.step \in {"idle", "next"}
           /\ Registering' <=> at'.step # "idle"
           /\ Registering' <=> at'.input # 0
           /\ Registering
           /\ Left' = Left - 1 /\ Left \in Nat
<1>1. at.input \in 1 .. Len(Inputs) /\ Len(Inputs) \in Nat /\ Registering
  BY InputIs, Sizes DEF QueueInv, AtInv
<1>2. CASE at.input < Len(Inputs)
  <2>1. at' = [input |-> at.input + 1, step |-> "next"]
    BY <1>2 DEF Continue
  <2> QED
    BY <1>1, <1>2, <2>1 DEF Registering, Idle, Left
<1>3. CASE at.input = Len(Inputs)
  <2>1. at' = Idle
    BY <1>3 DEF Continue
  <2> QED
    BY <1>1, <1>3, <2>1 DEF Registering, Idle, Left
<1> QED
  BY <1>1, <1>2, <1>3

\* What depends on the ring only through its indices, and what it holds.
LEMMA SameIndices ==
    ASSUME UNCHANGED <<nextRead, nextWrite>>
    PROVE  Held' = Held /\ Read' = Read /\ \A k : Place(k)' = Place(k)
BY DEF Held, Read, Place

\* The entry that is written next is none of those that are held.
LEMMA StaysFilled ==
    ASSUME TypeOK, HeldFilled, UNCHANGED <<nextRead, nextWrite>>, torn' = torn,
           \A i \in Places : i # nextWrite => entries'[i] = entries[i]
    PROVE  HeldFilled'
<1> SUFFICES ASSUME ~torn, NEW k \in 0 .. Held - 1
             PROVE  entries'[Place(k)].populated /\ entries'[Place(k)].event \in Events
  BY SameIndices DEF HeldFilled
<1>1. nextRead \in 0 .. QueueLen /\ nextWrite \in Places /\ Held \in Places
  BY CountIsHeld DEF TypeOK, Places
<1>2. k \in Places /\ k # Held
  BY <1>1, Sizes DEF Places
<1>3. Place(k) \in Places /\ Place(k) # nextWrite
  BY <1>1, <1>2, PlaceIs, WriteIsBehind
<1> QED
  BY <1>3 DEF HeldFilled
-----------------------------------------------------------------------------
(* The steps of registerButtonEvent. *)

\* What every one of them leaves alone.
LEMMA RegisteringKeeps ==
    ASSUME QueueInv, UNCHANGED <<state, lock, main, driver, servicer, nextRead>>,
           sem # Deleted <=> sem' # Deleted, Registering' => Registering
    PROVE  LockInv' /\ IndexInv'
BY DEF QueueInv, LockInv, IndexInv

LEMMA InitInv == Init => QueueInv
<1> SUFFICES ASSUME Init PROVE QueueInv
  OBVIOUS
<1>1. QueueLen \in Nat /\ QueueLen > 1 /\ Len(Inputs) \in Nat /\ Len(Inputs) > 0 /\ Initial \in Values
  BY Sizes, QueueAssumption
<1>2. AllInitial \in Packets
  BY <1>1 DEF AllInitial, Packets
<1>3. TypeOK
  <2>1. sem \in Deleted .. QueueLen + Len(Inputs) + 1 /\ nextRead \in 0 .. QueueLen
        /\ nextWrite \in 0 .. QueueLen - 1
    BY <1>1 DEF Init, Deleted
  <2>2. at \in [input : 0 .. Len(Inputs), step : {"idle", "next", "full", "publish", "post"}]
    BY <1>1 DEF Init, Idle
  <2>3. entries \in [0 .. QueueLen - 1 -> [populated : BOOLEAN, event : Events \cup {Empty}]]
    BY DEF Init, Blank
  <2> QED
    BY <1>2, <2>1, <2>2, <2>3 DEF Init, TypeOK
<1>4. LockInv /\ AtInv /\ IndexInv
  BY <1>1 DEF Init, LockInv, AtInv, IndexInv, Registering, Idle, Deleted
<1>5. Held = 0
  BY <1>1 DEF Init, Held, Read
<1>6. SemBound
  BY <1>1 DEF Init, SemBound, Left, ToClose, Registering
<1>7. RingInv
  <2>1. PostsCounted /\ JoinPosted /\ RoomToPublish /\ NeverGivesUp
    BY <1>1, <1>5 DEF Init, PostsCounted, JoinPosted, RoomToPublish, NeverGivesUp,
                      Working, Posting, Joining, Idle
  <2>2. HeldFilled
    BY <1>5 DEF HeldFilled
  <2> QED
    BY <2>1, <2>2 DEF RingInv
<1> QED
  BY <1>3, <1>4, <1>6, <1>7 DEF QueueInv

LEMMA SkipKeeps ==
    ASSUME QueueInv, Skip
    PROVE  QueueInv'
<1>1. /\ at.step = "next" /\ Continue
      /\ UNCHANGED <<entries, nextRead, nextWrite, sem, reported, packet, writable, crashed,
                     state, lock, main, driver, servicer, seen, delivered, refused, torn>>
  BY DEF Skip, Unregistered, ringVars, historyVars
<1>2. /\ at' \in [input : 0 .. Len(Inputs), step : {"idle", "next", "full", "publish", "post"}]
      /\ at'.step \in {"idle", "next"}
      /\ Registering' <=> at'.step # "idle"
      /\ Registering' <=> at'.input # 0
      /\ Registering
      /\ Left' = Left - 1 /\ Left \in Nat
  BY <1>1, OnToTheNext
<1>3. TypeOK'
  BY <1>1, <1>2 DEF QueueInv, TypeOK
<1>4. LockInv' /\ IndexInv'
  BY <1>1, <1>2, RegisteringKeeps
<1>5. AtInv'
  BY <1>2 DEF AtInv
<1>6. SemBound'
  BY <1>1, <1>2, Sizes DEF QueueInv, TypeOK, SemBound, ToClose, Deleted
<1>7. Held' = Held
  BY <1>1, SameIndices
<1>8. HeldFilled'
  BY <1>1, StaysFilled DEF QueueInv, RingInv
<1>9. RingInv'
  BY <1>1, <1>2, <1>7, <1>8 DEF QueueInv, RingInv, PostsCounted, JoinPosted, RoomToPublish,
     NeverGivesUp, Working, Posting, Joining
<1> QED
  BY <1>3, <1>4, <1>5, <1>6, <1>9 DEF QueueInv

LEMMA WriteToNullKeeps ==
    ASSUME QueueInv, WriteToNull
    PROVE  QueueInv'
<1>1. /\ crashed' \in {"no", "full", "closed"}
      /\ UNCHANGED <<entries, nextRead, nextWrite, sem, reported, packet, at, writable,
                     state, lock, main, driver, servicer, seen, delivered, refused, torn>>
  BY DEF WriteToNull, Unregistered, ringVars, producerVars, historyVars
<1>2. TypeOK'
  BY <1>1 DEF QueueInv, TypeOK
<1>3. LockInv' /\ IndexInv' /\ AtInv' /\ SemBound'
  BY <1>1 DEF QueueInv, LockInv, IndexInv, AtInv, SemBound, Registering, Input, Left, ToClose
<1>4. Held' = Held
  BY <1>1, SameIndices
<1>5. HeldFilled'
  BY <1>1, StaysFilled DEF QueueInv, RingInv
<1>6. RingInv'
  BY <1>1, <1>4, <1>5 DEF QueueInv, RingInv, PostsCounted, JoinPosted, RoomToPublish,
     NeverGivesUp, Working, Posting, Joining
<1> QED
  BY <1>2, <1>3, <1>6 DEF QueueInv

LEMMA ComposeKeeps ==
    ASSUME QueueInv, Compose
    PROVE  QueueInv'
<1>1. /\ at.step = "next" /\ writable
      /\ entries' = [entries EXCEPT ![nextWrite].event = <<Input, packet[Input]>>]
      /\ UNCHANGED <<nextRead, nextWrite, sem, packet, crashed,
                     state, lock, main, driver, servicer, seen, delivered, refused, torn>>
  BY DEF Compose, Unregistered, historyVars
<1>2. /\ at.input \in 1 .. Len(Inputs) /\ Input \in Names
      /\ packet[Input] \in Values /\ <<Input, packet[Input]>> \in Events
  BY <1>1, InputIs
<1>3. /\ entries' \in [Places -> Entry]
      /\ \A i \in Places : i # nextWrite => entries'[i] = entries[i]
      /\ entries'[nextWrite].event = <<Input, packet[Input]>>
  BY <1>1, <1>2, EntryFilled DEF QueueInv
<1>4. Held' = Held
  BY <1>1, SameIndices
<1>5. HeldFilled'
  BY <1>1, <1>3, StaysFilled DEF QueueInv, RingInv
<1>6. CASE sem = Deleted
  <2>1. Continue /\ writable' = FALSE /\ reported' = reported
    BY <1>6 DEF Compose
  <2>2. /\ at' \in [input : 0 .. Len(Inputs), step : {"idle", "next", "full", "publish", "post"}]
        /\ at'.step \in {"idle", "next"}
        /\ Registering' <=> at'.step # "idle"
        /\ Registering' <=> at'.input # 0
        /\ Registering
    BY <1>1, <2>1, OnToTheNext
  <2>3. TypeOK'
    <3>1. entries' \in [0 .. QueueLen - 1 -> [populated : BOOLEAN, event : Events \cup {Empty}]]
      BY <1>3 DEF Places, Entry
    <3>2. reported' \in Packets /\ writable' \in BOOLEAN
      BY <2>1 DEF QueueInv, TypeOK
    <3> QED
      BY <1>1, <2>2, <3>1, <3>2 DEF QueueInv, TypeOK
  <2>4. LockInv' /\ IndexInv'
    BY <1>1, <2>2, RegisteringKeeps
  <2>5. AtInv' /\ SemBound'
    BY <1>1, <1>6, <2>2 DEF AtInv, SemBound
  <2>6. RingInv'
    BY <1>1, <1>4, <1>5, <1>6, <2>2 DEF QueueInv, RingInv, PostsCounted, JoinPosted, RoomToPublish,
       NeverGivesUp, Working, Posting, Joining
  <2> QED
    BY <2>3, <2>4, <2>5, <2>6 DEF QueueInv
<1>7. CASE sem # Deleted
  <2>1. /\ at' = [at EXCEPT !.step = "full"]
        /\ reported' = [reported EXCEPT ![Input] = packet[Input]] /\ writable' = writable
    BY <1>7 DEF Compose, GoTo
  <2>2. /\ at' \in [input : 0 .. Len(Inputs), step : {"idle", "next", "full", "publish", "post"}]
        /\ at'.step = "full" /\ at'.input = at.input
        /\ Registering /\ Registering'
    BY <1>1, <1>2, <2>1 DEF QueueInv, TypeOK, Registering, Idle
  <2>3. reported' \in Packets /\ reported'[Input] = packet[Input]
    BY <1>2, <2>1 DEF QueueInv, TypeOK, Packets
  <2>4. TypeOK'
    BY <1>1, <1>3, <2>1, <2>2, <2>3 DEF QueueInv, TypeOK, Places, Entry
  <2>5. LockInv' /\ IndexInv'
    BY <1>1, <2>2, RegisteringKeeps
  <2>6. Input' = Input
    BY <2>2 DEF Input
  <2>7. AtInv'
    BY <1>1, <1>2, <1>3, <1>7, <2>1, <2>2, <2>3, <2>6, Sizes DEF AtInv
  <2>8. SemBound'
    BY <1>1, <2>2 DEF QueueInv, SemBound, Left, ToClose
  <2>9. RingInv'
    BY <1>1, <1>4, <1>5, <2>2 DEF QueueInv, RingInv, PostsCounted, JoinPosted, RoomToPublish,
       NeverGivesUp, Working, Posting, Joining
  <2> QED
    BY <2>4, <2>5, <2>7, <2>8, <2>9 DEF QueueInv
<1> QED
  BY <1>6, <1>7

LEMMA CheckFullKeeps ==
    ASSUME QueueInv, CheckFull
    PROVE  QueueInv'
<1>1. /\ at.step = "full" /\ torn' = (torn \/ nextRead = QueueLen)
      /\ UNCHANGED <<nextRead, nextWrite, sem, reported, packet, crashed,
                     state, lock, main, driver, servicer, seen, delivered>>
  BY DEF CheckFull
<1>2. /\ at.input \in 1 .. Len(Inputs) /\ Len(Inputs) \in Nat /\ QueueLen \in Nat /\ QueueLen > 1
      /\ nextRead \in 0 .. QueueLen /\ nextWrite \in Places /\ Held \in Places
  BY <1>1, InputIs, Sizes, CountIsHeld DEF QueueInv, TypeOK, Places
<1>3. Held' = Held /\ \A k : Place(k)' = Place(k)
  BY <1>1, SameIndices
<1>4. torn \in BOOLEAN /\ torn' \in BOOLEAN /\ (torn => torn')
  BY <1>1 DEF QueueInv, TypeOK
<1>5. CASE After(nextWrite) = nextRead
  <2>1. /\ entries' = [entries EXCEPT ![nextWrite] = Blank] /\ writable' = FALSE /\ refused' = TRUE
        /\ Continue
    BY <1>5 DEF CheckFull
  <2>2. /\ entries' \in [Places -> Entry]
        /\ \A i \in Places : i # nextWrite => entries'[i] = entries[i]
    BY <2>1, EntryBlanked DEF QueueInv
  <2>3. /\ at' \in [input : 0 .. Len(Inputs), step : {"idle", "next", "full", "publish", "post"}]
        /\ at'.step \in {"idle", "next"}
        /\ Registering' <=> at'.step # "idle"
        /\ Registering' <=> at'.input # 0
        /\ Registering
        /\ Left' = Left - 1 /\ Left \in Nat
    BY <1>1, <2>1, OnToTheNext
  <2>4. TypeOK'
    <3>1. entries' \in [0 .. QueueLen - 1 -> [populated : BOOLEAN, event : Events \cup {Empty}]]
      BY <2>2 DEF Places, Entry
    <3>2. writable' \in BOOLEAN /\ refused' \in BOOLEAN
      BY <2>1
    <3> QED
      BY <1>1, <1>4, <2>3, <3>1, <3>2 DEF QueueInv, TypeOK
  <2>5. LockInv' /\ IndexInv'
    BY <1>1, <2>3, RegisteringKeeps
  <2>6. AtInv'
    BY <2>3 DEF AtInv
  <2>7. SemBound'
    BY <1>1, <1>2, <2>3 DEF QueueInv, TypeOK, SemBound, ToClose, Deleted
  <2>8. HeldFilled'
    <3>1. CASE torn'
      BY <3>1 DEF HeldFilled
    <3>2. CASE ~torn'
      BY <1>1, <1>4, <2>2, <3>2, StaysFilled DEF QueueInv, RingInv
    <3> QED
      BY <3>1, <3>2
  <2>9. RingInv'
    BY <1>1, <1>3, <1>4, <2>3, <2>8 DEF QueueInv, RingInv, PostsCounted, JoinPosted, RoomToPublish,
       NeverGivesUp, Working, Posting, Joining
  <2> QED
    BY <2>4, <2>5, <2>6, <2>7, <2>9 DEF QueueInv
<1>6. CASE After(nextWrite) # nextRead
  <2>1. at' = [at EXCEPT !.step = "publish"] /\ UNCHANGED <<entries, writable, refused>>
    BY <1>6 DEF CheckFull, GoTo
  <2>2. /\ at' \in [input : 0 .. Len(Inputs), step : {"idle", "next", "full", "publish", "post"}]
        /\ at'.step = "publish" /\ at'.input = at.input
        /\ Registering /\ Registering'
    <3>1. at \in [input : 0 .. Len(Inputs), step : {"idle", "next", "full", "publish", "post"}]
      BY DEF QueueInv, TypeOK
    <3>2. at'.step = "publish" /\ at'.input = at.input
      BY <2>1, <3>1
    <3>3. at' \in [input : 0 .. Len(Inputs), step : {"idle", "next", "full", "publish", "post"}]
      BY <2>1, <3>1
    <3> QED
      BY <1>1, <3>2, <3>3 DEF Registering, Idle
  <2>3. TypeOK'
    BY <1>1, <1>4, <2>1, <2>2 DEF QueueInv, TypeOK
  <2>4. LockInv' /\ IndexInv'
    BY <1>1, <2>2, RegisteringKeeps
  <2>5. Input' = Input
    BY <2>2 DEF Input
  <2>6. AtInv'
    BY <1>1, <1>2, <2>1, <2>2, <2>5 DEF QueueInv, AtInv
  <2>7. SemBound'
    BY <1>1, <2>2 DEF QueueInv, SemBound, Left, ToClose
\* The ring was tested for room: one entry at least is free.
  <2>8. RoomToPublish'
    <3> SUFFICES ASSUME ~torn' PROVE Held < QueueLen - 1
      BY <1>3 DEF RoomToPublish
    <3>1. nextRead # QueueLen
      BY <1>1
    <3>2. After(nextWrite) = IF nextWrite + 1 = QueueLen THEN 0 ELSE nextWrite + 1
      BY <1>2, AfterIs
    <3>3. (IF nextWrite + 1 = QueueLen THEN 0 ELSE nextWrite + 1) # nextRead
      BY <1>6, <3>2
    <3> QED
      BY <1>2, <3>1, <3>3 DEF Held, Read, Places
  <2>9. HeldFilled'
    <3>1. CASE torn'
      BY <3>1 DEF HeldFilled
    <3>2. CASE ~torn'
      BY <1>1, <1>4, <2>1, <3>2, StaysFilled DEF QueueInv, RingInv
    <3> QED
      BY <3>1, <3>2
  <2>10. RingInv'
    BY <1>1, <1>3, <1>4, <2>2, <2>8, <2>9 DEF QueueInv, RingInv, PostsCounted, JoinPosted,
       NeverGivesUp, Working, Posting, Joining
  <2> QED
    BY <2>3, <2>4, <2>6, <2>7, <2>10 DEF QueueInv
<1> QED
  BY <1>5, <1>6

LEMMA PublishKeeps ==
    ASSUME QueueInv, Publish
    PROVE  QueueInv'
<1>1. /\ at.step = "publish"
      /\ entries' = [entries EXCEPT ![nextWrite].populated = TRUE]
      /\ nextWrite' = After(nextWrite) /\ at' = [at EXCEPT !.step = "post"]
      /\ UNCHANGED <<nextRead, sem, reported, packet, writable, crashed,
                     state, lock, main, driver, servicer, seen, delivered, refused, torn>>
  BY DEF Publish, Unregistered, historyVars, GoTo
<1>2. /\ at.input \in 1 .. Len(Inputs) /\ Len(Inputs) \in Nat /\ QueueLen \in Nat /\ QueueLen > 1
      /\ nextRead \in 0 .. QueueLen /\ nextWrite \in Places /\ Held \in Places
      /\ <<Input, packet[Input]>> \in Events
  BY <1>1, InputIs, Sizes, CountIsHeld DEF QueueInv, TypeOK, Places
<1>3. /\ nextWrite' = IF nextWrite + 1 = QueueLen THEN 0 ELSE nextWrite + 1
      /\ nextWrite' \in Places
  BY <1>1, <1>2, AfterIs
<1>4. /\ entries' \in [Places -> Entry]
      /\ \A i \in Places : i # nextWrite => entries'[i] = entries[i]
      /\ entries'[nextWrite].populated
      /\ entries'[nextWrite].event = entries[nextWrite].event
  BY <1>1, EntryPublished DEF QueueInv
<1>5. /\ at' \in [input : 0 .. Len(Inputs), step : {"idle", "next", "full", "publish", "post"}]
      /\ at'.step = "post" /\ at'.input = at.input
      /\ Registering /\ Registering'
  <2>1. at \in [input : 0 .. Len(Inputs), step : {"idle", "next", "full", "publish", "post"}]
    BY DEF QueueInv, TypeOK
  <2>2. at'.step = "post" /\ at'.input = at.input
    BY <1>1, <2>1
  <2>3. at' \in [input : 0 .. Len(Inputs), step : {"idle", "next", "full", "publish", "post"}]
    BY <1>1, <2>1
  <2> QED
    BY <1>1, <2>2, <2>3 DEF Registering, Idle
<1>6. TypeOK'
  <2>1. entries' \in [0 .. QueueLen - 1 -> [populated : BOOLEAN, event : Events \cup {Empty}]]
    BY <1>4 DEF Places, Entry
  <2>2. nextWrite' \in 0 .. QueueLen - 1
    BY <1>3 DEF Places
  <2> QED
    BY <1>1, <1>5, <2>1, <2>2 DEF QueueInv, TypeOK
<1>7. LockInv' /\ IndexInv'
  BY <1>1, <1>5, RegisteringKeeps
<1>8. Input' = Input
  BY <1>5 DEF Input
<1>9. AtInv'
  BY <1>1, <1>2, <1>5, <1>8 DEF QueueInv, AtInv
<1>10. SemBound'
  BY <1>1, <1>5 DEF QueueInv, SemBound, Left, ToClose
\* One entry more is held, unless the test for room was torn.
<1>11. ~torn => Held < QueueLen - 1 /\ Held' = Held + 1
  <2>1. Read \in Places /\ Read' = Read
    BY <1>1, <1>2 DEF Read, Places
  <2>2. ~torn => Held < QueueLen - 1
    BY <1>1 DEF QueueInv, RingInv, RoomToPublish
  <2> QED
    BY <1>1, <1>2, <1>3, <2>1, <2>2, SMTT(30) DEF Held, Places
<1>12. HeldFilled'
  <2> SUFFICES ASSUME ~torn, NEW k \in 0 .. Held
               PROVE  entries'[Place(k)].populated /\ entries'[Place(k)].event \in Events
    <3>1. \A k : Place(k)' = Place(k)
      BY <1>1 DEF Place, Read
    <3>2. ~torn' => 0 .. Held' - 1 = 0 .. Held
      BY <1>1, <1>2, <1>11 DEF Places
    <3> QED
      BY <1>1, <3>1, <3>2 DEF HeldFilled
  <2>1. k \in Places
    BY <1>2 DEF Places
  <2>2. Place(k) \in Places /\ (Place(k) = nextWrite <=> k = Held)
    BY <1>2, <2>1, PlaceIs, WriteIsBehind
  <2>3. CASE k = Held
    BY <1>1, <1>2, <1>4, <2>2, <2>3 DEF QueueInv, AtInv
  <2>4. CASE k # Held
    <3>1. k \in 0 .. Held - 1
      BY <1>2, <2>4 DEF Places
    <3>2. entries'[Place(k)] = entries[Place(k)]
      BY <1>4, <2>2, <2>4
    <3> QED
      BY <3>1, <3>2 DEF QueueInv, RingInv, HeldFilled
  <2> QED
    BY <2>3, <2>4
<1>13. RingInv'
  <2>1. PostsCounted'
    BY <1>1, <1>2, <1>5, <1>11 DEF QueueInv, TypeOK, RingInv, PostsCounted, Working, Posting, Joining,
                                 Places, Deleted
  <2> QED
    BY <1>1, <1>5, <1>12, <2>1 DEF QueueInv, RingInv, JoinPosted, RoomToPublish, NeverGivesUp
<1> QED
  BY <1>6, <1>7, <1>9, <1>10, <1>13 DEF QueueInv

LEMMA PostKeeps ==
    ASSUME QueueInv, Post
    PROVE  QueueInv'
<1>1. /\ at.step = "post" /\ sem' = sem + 1
      /\ entries' = [entries EXCEPT ![nextWrite] = Blank]
      /\ Continue
      /\ UNCHANGED <<nextRead, nextWrite, reported, packet, writable, crashed,
                     state, lock, main, driver, servicer, seen, delivered, refused, torn>>
  BY DEF Post, Unregistered, historyVars
<1>2. /\ at' \in [input : 0 .. Len(Inputs), step : {"idle", "next", "full", "publish", "post"}]
      /\ at'.step \in {"idle", "next"}
      /\ Registering' <=> at'.step # "idle"
      /\ Registering' <=> at'.input # 0
      /\ Registering
      /\ Left' = Left - 1 /\ Left \in Nat
  BY <1>1, OnToTheNext
<1>3. /\ entries' \in [Places -> Entry]
      /\ \A i \in Places : i # nextWrite => entries'[i] = entries[i]
  BY <1>1, EntryBlanked DEF QueueInv
<1>4. /\ sem \in 0 .. QueueLen + Len(Inputs) + 1 /\ sem' # Deleted /\ sem # Deleted
      /\ QueueLen + Len(Inputs) + 1 \in Nat
  BY <1>1, Sizes DEF QueueInv, TypeOK, AtInv, Deleted
<1>5. SemBound' /\ sem' \in Deleted .. QueueLen + Len(Inputs) + 1
  <2>1. Left' \in Nat
    <3>1. CASE Registering'
      BY <1>2, <3>1, Sizes DEF Left
    <3>2. CASE ~Registering'
      BY <3>2 DEF Left
    <3> QED
      BY <3>1, <3>2
  <2>2. ToClose' = ToClose /\ ToClose \in Nat
    BY <1>1 DEF ToClose
  <2>3. sem + Left + ToClose <= QueueLen + Len(Inputs) + 1
    BY <1>4 DEF QueueInv, SemBound
  <2> QED
    BY <1>1, <1>2, <1>4, <2>1, <2>2, <2>3 DEF SemBound, Deleted
<1>6. TypeOK'
  <2>1. entries' \in [0 .. QueueLen - 1 -> [populated : BOOLEAN, event : Events \cup {Empty}]]
    BY <1>3 DEF Places, Entry
  <2> QED
    BY <1>1, <1>2, <1>5, <2>1 DEF QueueInv, TypeOK
<1>7. LockInv' /\ IndexInv'
  BY <1>1, <1>2, <1>4, RegisteringKeeps
<1>8. AtInv'
  BY <1>2 DEF AtInv
<1>9. Held' = Held
  BY <1>1, SameIndices
<1>10. HeldFilled'
  BY <1>1, <1>3, StaysFilled DEF QueueInv, RingInv
<1>11. RingInv'
  <2>1. Held \in Places
    BY CountIsHeld DEF QueueInv, TypeOK, Places
  <2>2. PostsCounted'
    BY <1>1, <1>2, <1>4, <1>9, <2>1 DEF QueueInv, RingInv, PostsCounted, Working, Posting, Joining, Places
  <2> QED
    BY <1>1, <1>2, <1>4, <1>9, <1>10, <2>2 DEF QueueInv, RingInv, JoinPosted, RoomToPublish, NeverGivesUp
<1> QED
  BY <1>5, <1>6, <1>7, <1>8, <1>11 DEF QueueInv
-----------------------------------------------------------------------------
(* The steps of button_servicer. *)

\* What they leave alone.
LEMMA ServicingKeeps ==
    ASSUME QueueInv, ServicerOnly,
           sem' = sem \/ (sem > 0 /\ sem' = sem - 1),
           servicer \notin {"ended", "gaveUp"}, servicer' = "ended" => state = "closing"
    PROVE  /\ LockInv' /\ AtInv' /\ SemBound'
           /\ sem # Deleted /\ sem' \in 0 .. QueueLen + Len(Inputs) + 1
<1>1. UNCHANGED <<state, lock, main, driver, entries, nextWrite, reported, packet, at, writable>>
  BY DEF ServicerOnly, producerVars
<1>2. /\ sem \in 0 .. QueueLen + Len(Inputs) + 1 /\ sem # Deleted /\ sem' # Deleted
      /\ sem' \in 0 .. QueueLen + Len(Inputs) + 1 /\ sem' <= sem
  BY Sizes DEF QueueInv, TypeOK, LockInv, Deleted
<1>3. LockInv'
  BY <1>1, <1>2 DEF QueueInv, LockInv, Registering
<1>4. AtInv'
  <2>1. Registering' = Registering /\ Input' = Input
    BY <1>1 DEF Registering, Input
  <2> QED
    BY <1>1, <1>2, <2>1 DEF QueueInv, AtInv
<1>5. SemBound'
  <2>1. Left' = Left /\ ToClose' = ToClose
    BY <1>1 DEF Left, ToClose, Registering
  <2>2. Left \in Int /\ ToClose \in Int
    BY Sizes DEF Left, ToClose, QueueInv, TypeOK
  <2> QED
    BY <1>2, <2>1, <2>2, Sizes DEF QueueInv, SemBound
<1> QED
  BY <1>2, <1>3, <1>4, <1>5

\* The servicer that works on an entry has one.
LEMMA WorksOnAnEntry ==
    ASSUME QueueInv, ~torn, servicer \in {"entry", "lock", "advance"}
    PROVE  /\ Held \in Places /\ Held > 0 /\ nextRead \in Places /\ Place(0) = nextRead
           /\ entries[nextRead].populated /\ entries[nextRead].event \in Events
<1>1. /\ nextRead \in 0 .. QueueLen /\ nextRead # QueueLen /\ nextWrite \in Places
      /\ QueueLen \in Nat /\ QueueLen > 1
      /\ sem \in 0 .. QueueLen + Len(Inputs) + 1 /\ sem # Deleted
  BY Sizes DEF QueueInv, TypeOK, LockInv, IndexInv, Places, Deleted
<1>2. Held \in Places
  BY <1>1, CountIsHeld
<1>3. Held > 0
  BY <1>1, <1>2 DEF QueueInv, RingInv, PostsCounted, JoinPosted, Working, Posting, Joining, Places
<1>4. Place(0) = nextRead /\ nextRead \in Places
  BY <1>1 DEF Place, Read, Places
<1>5. 0 \in 0 .. Held - 1
  BY <1>2, <1>3 DEF Places
<1> QED
  BY <1>2, <1>3, <1>4, <1>5 DEF QueueInv, RingInv, HeldFilled

LEMMA WakeKeeps ==
    ASSUME QueueInv, Wake
    PROVE  QueueInv'
<1>1. /\ servicer = "waiting" /\ servicer' = "woken" /\ sem > 0 /\ sem' = sem - 1
      /\ ServicerOnly
      /\ UNCHANGED <<state, lock, main, driver, entries, nextWrite, reported, packet, at, writable,
                     crashed, refused, torn, nextRead, seen, delivered>>
  BY DEF Wake, ServicerGoes, ServicerOnly, producerVars
<1>2. /\ LockInv' /\ AtInv' /\ SemBound'
      /\ sem # Deleted /\ sem' \in 0 .. QueueLen + Len(Inputs) + 1
  BY <1>1, ServicingKeeps
<1>3. sem' \in Deleted .. QueueLen + Len(Inputs) + 1
  BY <1>2, Sizes DEF Deleted
<1>4. TypeOK'
  BY <1>1, <1>3 DEF QueueInv, TypeOK
<1>5. IndexInv'
  BY <1>1 DEF QueueInv, IndexInv
<1>6. Held' = Held /\ Held \in Places
  BY <1>1, SameIndices, CountIsHeld DEF QueueInv, TypeOK, Places
<1>7. HeldFilled'
  BY <1>1, StaysFilled DEF QueueInv, RingInv
<1>8. PostsCounted'
  <2>1. sem \in Nat
    BY <1>1, <1>2, Sizes DEF QueueInv, TypeOK, Deleted
  <2> QED
    BY <1>1, <1>2, <1>6, <2>1 DEF QueueInv, RingInv, PostsCounted, Working, Posting, Joining, Places
<1>9. RingInv'
  BY <1>1, <1>6, <1>7, <1>8 DEF QueueInv, RingInv, JoinPosted, RoomToPublish, NeverGivesUp
<1> QED
  BY <1>2, <1>4, <1>5, <1>9 DEF QueueInv

\* The steps that change nothing but where the servicer is, and what it tells.
LEMMA LookingKeeps ==
    ASSUME QueueInv, CheckState \/ CheckPopulated \/ InvokeHook
    PROVE  QueueInv'
<1>1. /\ ServicerOnly
      /\ UNCHANGED <<state, lock, main, driver, entries, nextWrite, reported, packet, at, writable,
                     crashed, refused, torn, nextRead, sem>>
  BY DEF CheckState, CheckPopulated, InvokeHook, ServicerOnly, producerVars
<1>2. /\ servicer \in {"woken", "entry", "lock"}
      /\ servicer' \in {"entry", "ended", "gaveUp", "lock", "advance"}
      /\ servicer' = "ended" => state = "closing"
      /\ servicer = "woken" => servicer' = "ended" \/ (servicer' = "entry" /\ state = "running")
      /\ servicer' = "gaveUp" => servicer = "entry" /\ ~entries[nextRead].populated
      /\ servicer' = "ended" => servicer = "woken"
  <2>1. state \in {"running", "closing"}
    BY DEF QueueInv, TypeOK
  <2>2. CASE CheckState
    BY <2>1, <2>2 DEF CheckState, ServicerGoes
  <2>3. CASE CheckPopulated
    BY <2>3 DEF CheckPopulated, ServicerGoes
  <2>4. CASE InvokeHook
    BY <2>4 DEF InvokeHook, ServicerGoes
  <2> QED
    BY <2>2, <2>3, <2>4
<1>3. seen' \in Packets /\ delivered' \in Events \cup {Empty}
  <2>1. CASE CheckState \/ CheckPopulated
    BY <2>1 DEF CheckState, CheckPopulated, QueueInv, TypeOK
  <2>2. CASE InvokeHook
    <3> DEFINE event == entries[nextRead].event
    <3>1. nextRead \in Places
      BY <1>2, <2>2, Sizes DEF InvokeHook, ServicerGoes, QueueInv, TypeOK, IndexInv, Places
    <3>2. event \in Events \cup {Empty}
      BY <3>1 DEF QueueInv, TypeOK, Places
    <3>3. event \in Events => event[1] \in Names /\ event[2] \in Values
      BY DEF Events
    <3>4. /\ delivered' = event
          /\ seen' = IF event = Empty THEN seen ELSE [seen EXCEPT ![event[1]] = event[2]]
      BY <2>2 DEF InvokeHook
    <3> HIDE DEF event
    <3> QED
      BY <3>2, <3>3, <3>4 DEF QueueInv, TypeOK, Packets
  <2> QED
    BY <2>1, <2>2
<1>4. /\ LockInv' /\ AtInv' /\ SemBound' /\ sem # Deleted
  BY <1>1, <1>2, ServicingKeeps
<1>5. TypeOK'
  BY <1>1, <1>2, <1>3 DEF QueueInv, TypeOK
<1>6. IndexInv'
  BY <1>1, <1>2 DEF QueueInv, IndexInv
<1>7. Held' = Held
  BY <1>1, SameIndices
<1>8. HeldFilled'
  BY <1>1, StaysFilled DEF QueueInv, RingInv
<1>9. NeverGivesUp'
  BY <1>1, <1>2, WorksOnAnEntry DEF NeverGivesUp
<1>10. RingInv'
  <2>1. PostsCounted'
    BY <1>1, <1>2, <1>7 DEF QueueInv, RingInv, PostsCounted, Working, Posting, Joining
  <2>2. JoinPosted'
    BY <1>1, <1>2 DEF QueueInv, LockInv, RingInv, JoinPosted
  <2> QED
    BY <1>1, <1>7, <1>8, <1>9, <2>1, <2>2 DEF QueueInv, RingInv, RoomToPublish
<1> QED
  BY <1>4, <1>5, <1>6, <1>10 DEF QueueInv

\* The read index moves on: over the end of the ring it stands for its start.
LEMMA ReadMovesOn ==
    ASSUME QueueInv, nextRead \in Places, nextRead' = nextRead + 1, nextWrite' = nextWrite, Held > 0
    PROVE  /\ nextRead' \in 0 .. QueueLen
           /\ Held' = Held - 1
           /\ \A k \in 0 .. Held - 2 : Place(k)' = Place(k + 1)
<1>1. /\ QueueLen \in Nat /\ QueueLen > 1 /\ nextWrite \in 0 .. QueueLen - 1
      /\ nextRead \in 0 .. QueueLen - 1
  BY Sizes DEF QueueInv, TypeOK, Places
<1>2. Read = nextRead /\ Read' = IF nextRead + 1 = QueueLen THEN 0 ELSE nextRead + 1
  BY <1>1 DEF Read
<1>3. Held \in 0 .. QueueLen - 1
  BY <1>1, CountIsHeld DEF Places
<1> QED
  BY <1>1, <1>2, <1>3 DEF Held, Place

LEMMA AdvanceKeeps ==
    ASSUME QueueInv, Advance
    PROVE  QueueInv'
<1>1. /\ servicer = "advance" /\ nextRead' = nextRead + 1 /\ ServicerOnly
      /\ servicer' = IF nextRead = QueueLen - 1 THEN "wrap" ELSE "waiting"
      /\ UNCHANGED <<state, lock, main, driver, entries, nextWrite, reported, packet, at, writable,
                     crashed, refused, torn, sem, seen, delivered>>
  BY DEF Advance, ServicerGoes, ServicerOnly, producerVars
<1>2. /\ LockInv' /\ AtInv' /\ SemBound' /\ sem # Deleted
  BY <1>1, ServicingKeeps
<1>3. nextRead \in 0 .. QueueLen - 1 /\ QueueLen \in Nat /\ QueueLen > 1
  BY <1>1, Sizes DEF QueueInv, TypeOK, IndexInv
<1>4. TypeOK'
  <2>1. nextRead' \in 0 .. QueueLen
    BY <1>1, <1>3
  <2>2. servicer' \in {"waiting", "woken", "entry", "lock", "advance", "wrap", "ended", "gaveUp"}
    BY <1>1
  <2> QED
    BY <1>1, <2>1, <2>2 DEF QueueInv, TypeOK
<1>5. IndexInv'
  BY <1>1, <1>3 DEF IndexInv
<1>6. ASSUME ~torn
      PROVE  Held \in Places /\ Held > 0 /\ Held' = Held - 1
             /\ \A k \in 0 .. Held - 2 : Place(k)' = Place(k + 1)
  BY <1>1, <1>3, <1>6, WorksOnAnEntry, ReadMovesOn DEF Places
<1>7. HeldFilled'
  <2> SUFFICES ASSUME ~torn, NEW k \in 0 .. Held - 2
               PROVE  entries[Place(k + 1)].populated /\ entries[Place(k + 1)].event \in Events
    <3>1. ~torn => \A k \in 0 .. Held' - 1 : k \in 0 .. Held - 2
      BY <1>6 DEF Places
    <3> QED
      BY <1>1, <1>6, <3>1 DEF HeldFilled
  <2>1. k + 1 \in 0 .. Held - 1
    BY <1>6 DEF Places
  <2> QED
    BY <2>1 DEF QueueInv, RingInv, HeldFilled
<1>8. RingInv'
  <2>1. PostsCounted'
    <3>1. sem \in 0 .. QueueLen + Len(Inputs) + 1
      BY <1>2, Sizes DEF QueueInv, TypeOK, Deleted
    <3> QED
      BY <1>1, <1>2, <1>6, <3>1, Sizes, SMTT(30)
      DEF QueueInv, RingInv, PostsCounted, Working, Posting, Joining, Places
  <2>2. RoomToPublish'
    BY <1>1, <1>3, <1>6 DEF QueueInv, RingInv, RoomToPublish, Places
  <2>3. JoinPosted' /\ NeverGivesUp'
    BY <1>1 DEF QueueInv, RingInv, JoinPosted, NeverGivesUp
  <2> QED
    BY <1>7, <2>1, <2>2, <2>3 DEF RingInv
<1> QED
  BY <1>2, <1>4, <1>5, <1>8 DEF QueueInv

LEMMA WrapKeeps ==
    ASSUME QueueInv, Wrap
    PROVE  QueueInv'
<1>1. /\ servicer = "wrap" /\ servicer' = "waiting" /\ nextRead' = 0 /\ ServicerOnly
      /\ UNCHANGED <<state, lock, main, driver, entries, nextWrite, reported, packet, at, writable,
                     crashed, refused, torn, sem, seen, delivered>>
  BY DEF Wrap, ServicerGoes, ServicerOnly, producerVars
<1>2. /\ LockInv' /\ AtInv' /\ SemBound' /\ sem # Deleted
  BY <1>1, ServicingKeeps
<1>3. nextRead = QueueLen /\ QueueLen \in Nat /\ QueueLen > 1
  BY <1>1, Sizes DEF QueueInv, IndexInv
<1>4. TypeOK'
  <2>1. nextRead' \in 0 .. QueueLen
    BY <1>1, <1>3
  <2> QED
    BY <1>1, <2>1 DEF QueueInv, TypeOK
<1>5. IndexInv'
  BY <1>1, <1>3 DEF IndexInv
<1>6. Read' = Read
  BY <1>1, <1>3 DEF Read
<1>7. Held' = Held /\ \A k : Place(k)' = Place(k)
  BY <1>1, <1>6 DEF Held, Place
<1>8. RingInv'
  BY <1>1, <1>7 DEF QueueInv, RingInv, PostsCounted, JoinPosted, RoomToPublish, HeldFilled,
     NeverGivesUp, Working, Posting, Joining
<1> QED
  BY <1>2, <1>4, <1>5, <1>8 DEF QueueInv
-----------------------------------------------------------------------------
(* The threads that hold the lock. *)

\* A step of theirs that leaves the ring and the packet alone.
LEMMA LockingKeeps ==
    ASSUME QueueInv, OnlyLockMoves,
           main' \in {"polling", "window", "usb", "post", "join", "drivers", "joinDriver", "closed"},
           driver' \in {"waiting", "packet", "ended"}, lock' \in {"free", "main", "driver"},
           state' \in {"running", "closing"}, ToClose' = ToClose, Joining' = Joining,
           main' = "join" => main = "join"
    PROVE  TypeOK' /\ AtInv' /\ SemBound' /\ IndexInv' /\ RingInv'
<1>1. UNCHANGED <<servicer, entries, nextRead, nextWrite, sem, reported, packet, at, writable,
                  crashed, seen, delivered, refused, torn>>
  BY DEF OnlyLockMoves, ringVars, producerVars, historyVars
<1>2. TypeOK'
  BY <1>1 DEF QueueInv, TypeOK
<1>3. AtInv'
  <2>1. Registering' = Registering /\ Input' = Input
    BY <1>1 DEF Registering, Input
  <2> QED
    BY <1>1, <2>1 DEF QueueInv, AtInv
<1>4. SemBound' /\ IndexInv'
  BY <1>1 DEF QueueInv, SemBound, IndexInv, Left, Registering
<1>5. Held' = Held /\ \A k : Place(k)' = Place(k)
  BY <1>1, SameIndices
<1>6. RingInv'
  BY <1>1, <1>5 DEF QueueInv, RingInv, PostsCounted, JoinPosted, RoomToPublish, HeldFilled,
     NeverGivesUp, Working, Posting
<1> QED
  BY <1>2, <1>3, <1>4, <1>6

LEMMA PollingKeeps ==
    ASSUME QueueInv, Polling
    PROVE  QueueInv'
<1>1. /\ OnlyLockMoves /\ UNCHANGED <<state, driver>>
      /\ main \in {"polling", "window", "usb"} /\ main' \in {"polling", "window"}
      /\ \/ lock = "main" /\ lock' = "free" /\ main' = "window" /\ ~Registering
         \/ lock = "main" /\ lock' = "free" /\ main' = "window" /\ main = "polling"
         \/ lock = "free" /\ lock' = "main" /\ main' = "polling" /\ main = "window"
  BY DEF Polling, OpenWindow, CloseWindow, UsbDone, MainGoes, LockFrom
<1>2. TypeOK' /\ AtInv' /\ SemBound' /\ IndexInv' /\ RingInv'
  <2>1. ToClose' = ToClose /\ Joining' = Joining
    BY <1>1 DEF ToClose, Joining
  <2>2. /\ lock' \in {"free", "main", "driver"} /\ driver' \in {"waiting", "packet", "ended"}
        /\ state' \in {"running", "closing"}
    BY <1>1 DEF QueueInv, TypeOK
  <2> QED
    BY <1>1, <2>1, <2>2, LockingKeeps
<1>3. LockInv'
  <2>1. UNCHANGED <<servicer, sem, at>> /\ Registering' = Registering
    BY <1>1 DEF OnlyLockMoves, ringVars, producerVars, Registering
  <2> QED
    BY <1>1, <2>1 DEF QueueInv, LockInv
<1> QED
  BY <1>2, <1>3 DEF QueueInv

LEMMA DriverThreadKeeps ==
    ASSUME QueueInv, DriverThread
    PROVE  QueueInv'
<1>1. /\ OnlyLockMoves /\ UNCHANGED <<state, main>>
      /\ \/ /\ driver = "packet" /\ lock = "driver" /\ lock' = "free" /\ ~Registering
            /\ driver' = IF main = "joinDriver" THEN "ended" ELSE "waiting"
         \/ driver = "waiting" /\ main = "joinDriver" /\ driver' = "ended" /\ lock' = lock
  BY DEF DriverThread, DriverDone, DriverStops, LockFrom
<1>2. TypeOK' /\ AtInv' /\ SemBound' /\ IndexInv' /\ RingInv'
  <2>1. ToClose' = ToClose /\ Joining' = Joining
    BY <1>1 DEF ToClose, Joining
  <2>2. /\ lock' \in {"free", "main", "driver"} /\ driver' \in {"waiting", "packet", "ended"}
        /\ state' \in {"running", "closing"}
        /\ main' \in {"polling", "window", "usb", "post", "join", "drivers", "joinDriver", "closed"}
    BY <1>1 DEF QueueInv, TypeOK
  <2> QED
    BY <1>1, <2>1, <2>2, LockingKeeps
<1>3. LockInv'
  <2>1. UNCHANGED <<servicer, sem, at>> /\ Registering' = Registering
    BY <1>1 DEF OnlyLockMoves, ringVars, producerVars, Registering
  <2> QED
    BY <1>1, <2>1 DEF QueueInv, LockInv
<1> QED
  BY <1>2, <1>3 DEF QueueInv

\* A packet begins only where the other thread has none, and the servicer lives.
LEMMA BeginKeeps ==
    ASSUME QueueInv, NEW p \in Packets, UsbPacket(p) \/ DriverPacket(p)
    PROVE  QueueInv'
<1>1. /\ packet' = p /\ entries' = [entries EXCEPT ![nextWrite] = Blank] /\ writable' = TRUE
      /\ at' = [input |-> 1, step |-> "next"] /\ ~torn
      /\ UNCHANGED <<reported, nextRead, nextWrite, sem, state, servicer, crashed,
                     seen, delivered, refused, torn>>
  BY DEF UsbPacket, DriverPacket, Begin, Bounded, historyVars
<1>2. /\ lock = "free"
      /\ \/ main = "window" /\ main' = "usb" /\ lock' = "main" /\ driver' = driver
         \/ driver = "waiting" /\ driver' = "packet" /\ lock' = "driver" /\ main' = main
  BY DEF UsbPacket, DriverPacket, MainGoes, LockFrom
<1>3. main \in {"window", "joinDriver"} /\ driver # "packet"
  BY <1>2 DEF QueueInv, TypeOK, LockInv
<1>4. /\ entries' \in [Places -> Entry]
      /\ \A i \in Places : i # nextWrite => entries'[i] = entries[i]
  BY <1>1, EntryBlanked DEF QueueInv
<1>5. /\ at' \in [input : 0 .. Len(Inputs), step : {"idle", "next", "full", "publish", "post"}]
      /\ at'.step = "next" /\ at'.input = 1 /\ Registering'
  <2>1. 1 \in 0 .. Len(Inputs)
    BY Sizes
  <2> QED
    BY <1>1, <2>1 DEF Registering, Idle
<1>6. TypeOK'
  <2>1. entries' \in [0 .. QueueLen - 1 -> [populated : BOOLEAN, event : Events \cup {Empty}]]
    BY <1>4 DEF Places, Entry
  <2>2. writable' \in BOOLEAN /\ packet' \in Packets
    BY <1>1
  <2>3. /\ main' \in {"polling", "window", "usb", "post", "join", "drivers", "joinDriver", "closed"}
        /\ driver' \in {"waiting", "packet", "ended"} /\ lock' \in {"free", "main", "driver"}
    BY <1>2 DEF QueueInv, TypeOK
  <2> QED
    BY <1>1, <1>5, <2>1, <2>2, <2>3 DEF QueueInv, TypeOK
<1>7. LockInv'
  BY <1>1, <1>2, <1>3, <1>5 DEF QueueInv, LockInv
<1>8. AtInv'
  BY <1>5 DEF AtInv
<1>9. IndexInv'
  BY <1>1 DEF QueueInv, IndexInv
<1>10. Held' = Held /\ Held \in Places
  BY <1>1, SameIndices, CountIsHeld DEF QueueInv, TypeOK, Places
<1>11. at.step # "post"
  BY <1>2, <1>3 DEF QueueInv, LockInv, AtInv
<1>12. SemBound'
  <2> SUFFICES ASSUME sem # Deleted
               PROVE  sem + Left' + ToClose' <= QueueLen + Len(Inputs) + 1
    BY <1>1 DEF SemBound
  <2>1. main = "window" /\ servicer # "ended"
    BY <1>3 DEF QueueInv, LockInv
  <2>2. sem + Working = Held
    BY <1>1, <1>10, <1>11, <2>1, Sizes DEF QueueInv, TypeOK, RingInv, PostsCounted, Working, Posting,
                                           Joining, Places, Deleted
  <2>3. Left' = Len(Inputs)
    BY <1>5, Sizes DEF Left
  <2>4. ToClose' = 1
    BY <1>2, <2>1 DEF ToClose
  <2>5. sem \in Int /\ sem <= QueueLen - 1
    BY <1>10, <2>2, Sizes DEF QueueInv, TypeOK, Working, Places, Deleted
  <2> QED
    BY <2>3, <2>4, <2>5, Sizes
<1>13. HeldFilled'
  BY <1>1, <1>4, StaysFilled DEF QueueInv, RingInv
<1>14. RingInv'
  <2>1. main \notin {"join"} /\ main' \notin {"join"}
    BY <1>2, <1>3
  <2> QED
    BY <1>1, <1>5, <1>10, <1>11, <1>13, <2>1 DEF QueueInv, RingInv, PostsCounted, JoinPosted,
       RoomToPublish, NeverGivesUp, Working, Posting, Joining
<1> QED
  BY <1>6, <1>7, <1>8, <1>9, <1>12, <1>14 DEF QueueInv

LEMMA CloseKeeps ==
    ASSUME QueueInv, Close
    PROVE  QueueInv'
<1>1. /\ main = "polling" /\ main' = "post" /\ state' = "closing"
      /\ OnlyLockMoves /\ UNCHANGED <<lock, driver>>
  BY DEF Close, MainGoes
<1>2. TypeOK' /\ AtInv' /\ SemBound' /\ IndexInv' /\ RingInv'
  <2>1. ToClose' = ToClose /\ Joining' = Joining
    BY <1>1 DEF ToClose, Joining
  <2>2. lock' \in {"free", "main", "driver"} /\ driver' \in {"waiting", "packet", "ended"}
    BY <1>1 DEF QueueInv, TypeOK
  <2> QED
    BY <1>1, <2>1, <2>2, LockingKeeps
<1>3. LockInv'
  <2>1. UNCHANGED <<servicer, sem, at>> /\ Registering' = Registering
    BY <1>1 DEF OnlyLockMoves, ringVars, producerVars, Registering
  <2> QED
    BY <1>1, <2>1 DEF QueueInv, LockInv
<1> QED
  BY <1>2, <1>3 DEF QueueInv

\* What survive_close does to the semaphore.
LEMMA ClosePostKeeps ==
    ASSUME QueueInv, ClosePost
    PROVE  QueueInv'
<1>1. /\ main = "post" /\ main' = "join" /\ sem' = sem + 1
      /\ UNCHANGED <<state, lock, driver, servicer, entries, nextRead, nextWrite, reported, packet,
                     at, writable, crashed, seen, delivered, refused, torn>>
  BY DEF ClosePost, MainGoes, producerVars, historyVars
<1>2. /\ sem # Deleted /\ sem \in 0 .. QueueLen + Len(Inputs) + 1 /\ sem' # Deleted
      /\ lock = "main" /\ driver # "packet" /\ ~Registering /\ state = "closing"
  BY <1>1, Sizes DEF QueueInv, TypeOK, LockInv, Deleted
<1>3. sem' <= QueueLen + Len(Inputs) + 1 /\ SemBound'
  <2>1. Left = 0 /\ Left' = 0 /\ ToClose = 1 /\ ToClose' = 0
    BY <1>1, <1>2 DEF Left, ToClose, Registering
  <2> QED
    BY <1>1, <1>2, <2>1, Sizes DEF QueueInv, SemBound
<1>4. TypeOK'
  <2>1. sem' \in Deleted .. QueueLen + Len(Inputs) + 1
    BY <1>1, <1>2, <1>3, Sizes DEF Deleted
  <2> QED
    BY <1>1, <2>1 DEF QueueInv, TypeOK
<1>5. LockInv'
  BY <1>1, <1>2 DEF QueueInv, LockInv, Registering
<1>6. AtInv'
  <2>1. at.step = "idle" /\ (Registering' <=> Registering)
    BY <1>1, <1>2 DEF QueueInv, AtInv, Registering
  <2> QED
    BY <1>1, <2>1 DEF QueueInv, AtInv
<1>7. IndexInv'
  BY <1>1 DEF QueueInv, IndexInv
<1>8. Held' = Held /\ Held \in Places
  BY <1>1, SameIndices, CountIsHeld DEF QueueInv, TypeOK, Places
<1>9. HeldFilled'
  BY <1>1, StaysFilled DEF QueueInv, RingInv
<1>10. RingInv'
  <2>1. PostsCounted'
    BY <1>1, <1>2, <1>8 DEF QueueInv, RingInv, PostsCounted, Working, Posting, Joining, Places
  <2>2. JoinPosted'
    BY <1>1, <1>2 DEF JoinPosted
  <2> QED
    BY <1>1, <1>8, <1>9, <2>1, <2>2 DEF QueueInv, RingInv, RoomToPublish, NeverGivesUp
<1> QED
  BY <1>3, <1>4, <1>5, <1>6, <1>7, <1>10 DEF QueueInv

LEMMA JoinServicerKeeps ==
    ASSUME QueueInv, JoinServicer
    PROVE  QueueInv'
<1>1. /\ main = "join" /\ main' = "drivers" /\ sem' = Deleted /\ servicer \in {"ended", "gaveUp"}
      /\ UNCHANGED <<state, lock, driver, servicer, entries, nextRead, nextWrite, reported, packet,
                     at, writable, crashed, seen, delivered, refused, torn>>
  BY DEF JoinServicer, MainGoes, producerVars, historyVars
<1>2. lock = "main" /\ driver # "packet" /\ ~Registering /\ state = "closing"
  BY <1>1 DEF QueueInv, TypeOK, LockInv
<1>3. TypeOK'
  <2>1. sem' \in Deleted .. QueueLen + Len(Inputs) + 1
    BY <1>1, Sizes DEF Deleted
  <2> QED
    BY <1>1, <2>1 DEF QueueInv, TypeOK
<1>4. LockInv'
  BY <1>1, <1>2 DEF QueueInv, LockInv, Registering
<1>5. AtInv'
  <2>1. at.step = "idle" /\ (Registering' <=> Registering)
    BY <1>1, <1>2 DEF QueueInv, AtInv, Registering
  <2> QED
    BY <1>1, <2>1 DEF QueueInv, AtInv
<1>6. IndexInv' /\ SemBound'
  BY <1>1 DEF QueueInv, IndexInv, SemBound
<1>7. HeldFilled'
  BY <1>1, StaysFilled DEF QueueInv, RingInv
<1>8. RingInv'
  <2>1. RoomToPublish'
    BY <1>1, SameIndices DEF QueueInv, RingInv, RoomToPublish
  <2> QED
    BY <1>1, <1>7, <2>1 DEF QueueInv, RingInv, PostsCounted, JoinPosted, NeverGivesUp
<1> QED
  BY <1>3, <1>4, <1>5, <1>6, <1>8 DEF QueueInv

\* threaded_driver_close.
LEMMA DriverCloseKeeps ==
    ASSUME QueueInv, CloseDriver \/ JoinDriver
    PROVE  QueueInv'
<1>1. /\ OnlyLockMoves /\ UNCHANGED <<state, driver>>
      /\ \/ main = "drivers" /\ main' = "joinDriver" /\ lock = "main" /\ lock' = "free"
         \/ /\ main = "joinDriver" /\ main' = "closed" /\ lock = "free" /\ lock' = "main"
            /\ driver = "ended"
  BY DEF CloseDriver, JoinDriver, MainGoes, LockFrom
<1>2. TypeOK' /\ AtInv' /\ SemBound' /\ IndexInv' /\ RingInv'
  <2>1. ToClose' = ToClose /\ Joining' = Joining
    BY <1>1 DEF ToClose, Joining
  <2>2. /\ lock' \in {"free", "main", "driver"} /\ driver' \in {"waiting", "packet", "ended"}
        /\ state' \in {"running", "closing"}
    BY <1>1 DEF QueueInv, TypeOK
  <2> QED
    BY <1>1, <2>1, <2>2, LockingKeeps
<1>3. LockInv'
  <2>1. UNCHANGED <<servicer, sem, at>> /\ Registering' = Registering
    BY <1>1 DEF OnlyLockMoves, ringVars, producerVars, Registering
  <2> QED
    BY <1>1, <2>1 DEF QueueInv, LockInv
<1> QED
  BY <1>2, <1>3 DEF QueueInv
-----------------------------------------------------------------------------
LEMMA StepKeeps ==
    ASSUME QueueInv, [Next]_vars
    PROVE  QueueInv'
<1>1. CASE UNCHANGED vars
  <2>1. UNCHANGED <<state, lock, main, driver, servicer, entries, nextRead, nextWrite, sem, reported,
                    packet, at, writable, crashed, seen, delivered, refused, torn>>
    BY <1>1 DEF vars, ringVars, producerVars, historyVars
  <2>2. OnlyLockMoves
    BY <2>1 DEF OnlyLockMoves, ringVars, producerVars, historyVars
  <2>3. TypeOK' /\ AtInv' /\ SemBound' /\ IndexInv' /\ RingInv'
    <3>1. ToClose' = ToClose /\ Joining' = Joining
      BY <2>1 DEF ToClose, Joining
    <3>2. /\ lock' \in {"free", "main", "driver"} /\ driver' \in {"waiting", "packet", "ended"}
          /\ state' \in {"running", "closing"}
          /\ main' \in {"polling", "window", "usb", "post", "join", "drivers", "joinDriver", "closed"}
      BY <2>1 DEF QueueInv, TypeOK
    <3> QED
      BY <2>1, <2>2, <3>1, <3>2, LockingKeeps
  <2>4. LockInv'
    BY <2>1 DEF QueueInv, LockInv, Registering
  <2> QED
    BY <2>3, <2>4 DEF QueueInv
<1>2. CASE Next
  <2>1. CASE RegisterButtonEvent
    BY <2>1, SkipKeeps, ComposeKeeps, WriteToNullKeeps, CheckFullKeeps, PublishKeeps, PostKeeps
       DEF RegisterButtonEvent
  <2>2. CASE Servicer
    BY <2>2, WakeKeeps, LookingKeeps, AdvanceKeeps, WrapKeeps DEF Servicer
  <2>3. CASE Polling \/ DriverThread
    BY <2>3, PollingKeeps, DriverThreadKeeps
  <2>4. CASE \E p \in Packets : UsbPacket(p) \/ DriverPacket(p)
    BY <2>4, BeginKeeps
  <2>5. CASE Close \/ Closing
    BY <2>5, CloseKeeps, ClosePostKeeps, JoinServicerKeeps, DriverCloseKeeps DEF Closing
  <2> QED
    BY <1>2, <2>1, <2>2, <2>3, <2>4, <2>5 DEF Next
<1> QED
  BY <1>1, <1>2

LEMMA QueueAlwaysInv == Spec => []QueueInv
<1>1. Init => QueueInv
  BY InitInv
<1>2. QueueInv /\ [Next]_vars => QueueInv'
  BY StepKeeps
<1> QED
  BY <1>1, <1>2, PTL DEF Spec

\* For a ring of any length and any inputs, everything about the button events
\* stays in its type: the read index is at most one past the ring, and the
\* semaphore counts no more than the ring, one packet and the closing post.
THEOREM QueueTypeCorrect == Spec => []TypeOK
<1>1. QueueInv => TypeOK
  BY DEF QueueInv
<1> QED
  BY <1>1, QueueAlwaysInv, PTL

\* "should never happen" (survive.c) does not, for a ring of any length: an entry
\* that the servicer was woken for is there, unless the ring was tested for room
\* while the read index was outside of it.
THEOREM PopulatedAlwaysWhenWoken == Spec => []PopulatedWhenWoken
<1>1. QueueInv => PopulatedWhenWoken
  BY WorksOnAnEntry DEF PopulatedWhenWoken
<1> QED
  BY <1>1, QueueAlwaysInv, PTL

\* The posts of buttonservicesem are those of the unread entries and of
\* survive_close, for a ring of any length.
THEOREM PostsAlwaysMatchEntries == Spec => []PostsMatchEntries
<1>1. QueueInv => PostsMatchEntries
  <2> SUFFICES ASSUME QueueInv, sem # Deleted, servicer \notin {"ended", "gaveUp"}, ~torn
               PROVE  sem + Working + Posting = Count + Joining
    BY DEF PostsMatchEntries, Working, Posting, Joining
  <2>1. Count = Held
    BY CountIsHeld DEF QueueInv, TypeOK, Places
  <2> QED
    BY <2>1 DEF QueueInv, RingInv, PostsCounted
<1> QED
  BY <1>1, QueueAlwaysInv, PTL
-----------------------------------------------------------------------------
(* The ring as a sequence. *)

\* What a sequence is that has lost its head, or gained a last element.
LEMMA IsTail ==
    ASSUME NEW S, NEW s \in Seq(S), NEW t \in Seq(S), s # <<>>,
           Len(t) = Len(s) - 1, \A i \in 1 .. Len(t) : t[i] = s[i + 1]
    PROVE  t = Tail(s)
BY HeadTailProperties, SeqEqual

LEMMA IsAppend ==
    ASSUME NEW S, NEW s \in Seq(S), NEW t \in Seq(S), NEW e \in S,
           Len(t) = Len(s) + 1, \A i \in 1 .. Len(s) : t[i] = s[i], t[Len(t)] = e
    PROVE  t = Append(s, e)
<1>1. /\ Append(s, e) \in Seq(S)
      /\ Len(Append(s, e)) = Len(s) + 1
      /\ \A i \in 1 .. Len(s) + 1 : Append(s, e)[i] = IF i <= Len(s) THEN s[i] ELSE e
  BY AppendProperties
<1>2. Len(s) \in Nat
  BY LenProperties
<1>3. \A i \in 1 .. Len(t) : t[i] = Append(s, e)[i]
  BY <1>1, <1>2
<1> QED
  BY <1>1, <1>3, SeqEqual

\* A queue that loses its head and gains a last element, in either order.
LEMMA TailOfAppend ==
    ASSUME NEW S, NEW s \in Seq(S), NEW e \in S, s # <<>>
    PROVE  Tail(Append(s, e)) = Append(Tail(s), e)
<1>1. /\ Tail(s) \in Seq(S) /\ Len(Tail(s)) = Len(s) - 1
      /\ \A i \in 1 .. Len(s) - 1 : Tail(s)[i] = s[i + 1]
      /\ Len(s) \in Nat /\ Len(s) > 0
  BY HeadTailProperties, LenProperties, EmptySeq
<1>2. /\ Append(s, e) \in Seq(S) /\ Len(Append(s, e)) = Len(s) + 1
      /\ \A i \in 1 .. Len(s) + 1 : Append(s, e)[i] = IF i <= Len(s) THEN s[i] ELSE e
  BY AppendProperties
<1>3. Append(s, e) # <<>>
  BY <1>1, <1>2
<1>4. /\ Tail(Append(s, e)) \in Seq(S) /\ Len(Tail(Append(s, e))) = Len(s)
      /\ \A i \in 1 .. Len(s) : Tail(Append(s, e))[i] = Append(s, e)[i + 1]
  BY <1>1, <1>2, <1>3, HeadTailProperties
<1>5. ASSUME NEW i \in 1 .. Len(Tail(s))
      PROVE  Tail(Append(s, e))[i] = Tail(s)[i]
  BY <1>1, <1>2, <1>4
<1>6. Tail(Append(s, e))[Len(Tail(Append(s, e)))] = e
  BY <1>1, <1>2, <1>4
<1> QED
  BY <1>1, <1>4, <1>5, <1>6, IsAppend

Contents == Events \cup {Empty}

UnreadByPlace ==
    /\ Unread \in Seq(Contents) /\ Len(Unread) = Held
    /\ \A k \in 0 .. Held - 1 : Place(k) \in Places /\ Unread[k + 1] = entries[Place(k)].event

LEMMA UnreadIs == TypeOK => UnreadByPlace
<1> SUFFICES ASSUME TypeOK PROVE UnreadByPlace
  OBVIOUS
<1>1. /\ nextRead \in 0 .. QueueLen /\ nextWrite \in Places /\ entries \in [Places -> Entry]
      /\ QueueLen \in Nat /\ QueueLen > 1
  BY Sizes DEF TypeOK, Places, Entry
<1>2. Count = Held /\ Held \in Places
  BY <1>1, CountIsHeld
<1>3. ASSUME NEW k \in 0 .. Held - 1
      PROVE  (nextRead + k) % QueueLen = Place(k) /\ Place(k) \in Places
  <2>1. k \in Places
    BY <1>1, <1>2 DEF Places
  <2> QED
    BY <1>1, <2>1, PlaceIs
<1>4. ASSUME NEW k \in 1 .. Count
      PROVE  (nextRead + k - 1) % QueueLen = Place(k - 1) /\ Place(k - 1) \in Places
  <2>1. k - 1 \in 0 .. Held - 1 /\ nextRead + k - 1 = nextRead + (k - 1)
    BY <1>1, <1>2, <1>4 DEF Places
  <2> QED
    BY <1>3, <2>1
<1>5. Unread \in [1 .. Count -> Contents]
  <2>1. \A k \in 1 .. Count : entries[(nextRead + k - 1) % QueueLen].event \in Contents
    BY <1>1, <1>4 DEF Entry, Contents
  <2> QED
    BY <2>1 DEF Unread
<1>6. Unread \in Seq(Contents) /\ Len(Unread) = Held
  <2>1. Held \in Nat /\ Count = Held
    BY <1>1, <1>2 DEF Places
  <2> HIDE DEF Unread
  <2> QED
    BY <1>5, <2>1
<1>7. ASSUME NEW k \in 0 .. Held - 1
      PROVE  Unread[k + 1] = entries[Place(k)].event
  <2>1. k + 1 \in 1 .. Count /\ (k + 1) - 1 = k
    BY <1>1, <1>2 DEF Places
  <2>2. Unread[k + 1] = entries[(nextRead + (k + 1) - 1) % QueueLen].event
    BY <2>1 DEF Unread
  <2>3. nextRead + (k + 1) - 1 = nextRead + k
    BY <1>1
  <2> QED
    BY <1>3, <2>2, <2>3
<1> QED
  BY <1>3, <1>6, <1>7 DEF UnreadByPlace

LEMMA UnreadIsNext == TypeOK' => UnreadByPlace'
<1>1. (TypeOK => UnreadByPlace)'
  BY UnreadIs, PTL
<1> QED
  BY <1>1

\* A step that leaves the indices and the events that are held alone.
LEMMA UnreadStays ==
    ASSUME TypeOK, TypeOK', Held' = Held, \A k : Place(k)' = Place(k),
           \A i \in Places : i # nextWrite => entries'[i] = entries[i]
    PROVE  Unread' = Unread
<1>1. /\ nextRead \in 0 .. QueueLen /\ nextWrite \in Places /\ Held \in Places
      /\ QueueLen \in Nat /\ QueueLen > 1
  BY CountIsHeld, Sizes DEF TypeOK, Places
<1>2. UnreadByPlace /\ UnreadByPlace'
  BY UnreadIs, UnreadIsNext
<1>3. /\ Unread \in Seq(Contents) /\ Len(Unread) = Held
      /\ Unread' \in Seq(Contents) /\ Len(Unread') = Held
  BY <1>2 DEF UnreadByPlace
<1>4. ASSUME NEW i \in 1 .. Held
      PROVE  Unread'[i] = Unread[i]
  <2>1. i - 1 \in 0 .. Held - 1 /\ i - 1 \in Places /\ i - 1 # Held /\ (i - 1) + 1 = i
    BY <1>1 DEF Places
  <2>2. Place(i - 1) \in Places /\ Place(i - 1) # nextWrite
    BY <1>1, <2>1, PlaceIs, WriteIsBehind
  <2>3. Unread[i] = entries[Place(i - 1)].event
    BY <1>2, <2>1 DEF UnreadByPlace
  <2>4. Unread'[i] = entries'[Place(i - 1)].event
    <3>1. Unread'[(i - 1) + 1] = entries'[Place(i - 1)'].event
      BY <1>2, <2>1 DEF UnreadByPlace
    <3> QED
      BY <2>1, <3>1
  <2> QED
    BY <2>2, <2>3, <2>4
<1> QED
  BY <1>3, <1>4, SeqEqual

\* An entry that is published is put behind the others.
LEMMA PublishAppends ==
    ASSUME QueueInv, Publish, ~torn
    PROVE  /\ Unread' = Append(Unread, <<Input, packet[Input]>>)
           /\ Len(Unread) < QueueLen - 1
<1>1. /\ at.step = "publish"
      /\ entries' = [entries EXCEPT ![nextWrite].populated = TRUE]
      /\ nextWrite' = After(nextWrite) /\ nextRead' = nextRead
  BY DEF Publish
<1>2. /\ <<Input, packet[Input]>> \in Contents
      /\ entries[nextWrite].event = <<Input, packet[Input]>>
  BY <1>1, InputIs DEF QueueInv, AtInv, Contents
<1>3. /\ nextRead \in 0 .. QueueLen /\ nextWrite \in Places /\ Held \in Places
      /\ QueueLen \in Nat /\ QueueLen > 1 /\ Held < QueueLen - 1
  BY <1>1, CountIsHeld, Sizes DEF QueueInv, TypeOK, RingInv, RoomToPublish, Places
<1>4. Held' = Held + 1 /\ \A k : Place(k)' = Place(k)
  <2>1. nextWrite' = IF nextWrite + 1 = QueueLen THEN 0 ELSE nextWrite + 1
    BY <1>1, <1>3, AfterIs
  <2>2. Read \in Places /\ Read' = Read
    BY <1>1, <1>3 DEF Read, Places
  <2> QED
    BY <1>3, <2>1, <2>2 DEF Held, Place, Places
<1>5. /\ \A i \in Places : i # nextWrite => entries'[i] = entries[i]
      /\ entries'[nextWrite].event = entries[nextWrite].event
  BY <1>1, EntryPublished DEF QueueInv
<1>6. UnreadByPlace /\ UnreadByPlace'
  BY UnreadIs, UnreadIsNext, PublishKeeps DEF QueueInv
<1>7. /\ Unread \in Seq(Contents) /\ Len(Unread) = Held
      /\ Unread' \in Seq(Contents) /\ Len(Unread') = Held + 1
  BY <1>4, <1>6 DEF UnreadByPlace
<1>8. ASSUME NEW k \in 0 .. Held
      PROVE  Unread'[k + 1] = entries[Place(k)].event
  <2>1. k \in Places /\ k \in 0 .. Held' - 1
    BY <1>3, <1>4 DEF Places
  <2>2. Place(k) \in Places
    BY <1>3, <2>1, PlaceIs
  <2>3. Unread'[k + 1] = entries'[Place(k)'].event
    BY <1>6, <2>1 DEF UnreadByPlace
  <2> QED
    BY <1>4, <1>5, <2>2, <2>3
<1>9. ASSUME NEW i \in 1 .. Len(Unread)
      PROVE  Unread'[i] = Unread[i]
  <2>1. i - 1 \in 0 .. Held /\ i - 1 \in 0 .. Held - 1 /\ (i - 1) + 1 = i
    BY <1>3, <1>7 DEF Places
  <2>2. Unread'[(i - 1) + 1] = entries[Place(i - 1)].event
    BY <1>8, <2>1
  <2>3. Unread[(i - 1) + 1] = entries[Place(i - 1)].event
    BY <1>6, <2>1 DEF UnreadByPlace
  <2> QED
    BY <2>1, <2>2, <2>3
<1>10. Unread'[Len(Unread')] = <<Input, packet[Input]>>
  <2>1. Held \in 0 .. Held /\ Place(Held) = nextWrite
    BY <1>3, WriteIsBehind DEF Places
  <2>2. Unread'[Held + 1] = entries[Place(Held)].event
    BY <1>8, <2>1
  <2> QED
    BY <1>2, <1>7, <2>1, <2>2
<1> QED
  BY <1>2, <1>3, <1>7, <1>9, <1>10, IsAppend

\* The servicer that moves on leaves the head of the ring behind.
LEMMA AdvanceDrops ==
    ASSUME QueueInv, Advance, ~torn
    PROVE  Unread # <<>> /\ Unread' = Tail(Unread)
<1>1. /\ servicer = "advance" /\ nextRead' = nextRead + 1
      /\ UNCHANGED <<entries, nextWrite>>
  BY DEF Advance, ServicerGoes, ServicerOnly
<1>2. nextRead \in Places /\ Held \in Places /\ Held > 0 /\ QueueLen \in Nat /\ QueueLen > 1
  BY <1>1, WorksOnAnEntry, Sizes
<1>3. Held' = Held - 1 /\ \A k \in 0 .. Held - 2 : Place(k)' = Place(k + 1)
  BY <1>1, <1>2, ReadMovesOn
<1>4. UnreadByPlace /\ UnreadByPlace'
  BY UnreadIs, UnreadIsNext, AdvanceKeeps DEF QueueInv
<1>5. /\ Unread \in Seq(Contents) /\ Len(Unread) = Held
      /\ Unread' \in Seq(Contents) /\ Len(Unread') = Len(Unread) - 1 /\ Unread # <<>>
  BY <1>2, <1>3, <1>4 DEF UnreadByPlace, Places
<1>6. ASSUME NEW i \in 1 .. Len(Unread')
      PROVE  Unread'[i] = Unread[i + 1]
  <2>1. i - 1 \in 0 .. Held - 2 /\ i - 1 \in 0 .. Held' - 1 /\ i \in 0 .. Held - 1 /\ (i - 1) + 1 = i
    BY <1>2, <1>3, <1>5 DEF Places
  <2>2. Unread'[(i - 1) + 1] = entries'[Place(i - 1)'].event
    BY <1>4, <2>1 DEF UnreadByPlace
  <2>3. Unread[i + 1] = entries[Place(i)].event
    BY <1>4, <2>1 DEF UnreadByPlace
  <2>4. Place(i - 1)' = Place(i)
    BY <1>3, <2>1
  <2> QED
    BY <1>1, <2>1, <2>2, <2>3, <2>4
<1> QED
  BY <1>5, <1>6, IsTail

\* Every other step leaves what is unread as it is.
LEMMA OthersKeepUnread ==
    ASSUME QueueInv, [Next]_vars, ~Publish, ~Advance
    PROVE  Unread' = Unread
<1>1. TypeOK /\ TypeOK'
  BY StepKeeps DEF QueueInv
<1>2. CASE UNCHANGED vars
  BY <1>2, <1>1, SameIndices, UnreadStays DEF vars, ringVars
<1>3. CASE Next
  <2>1. CASE UNCHANGED <<nextRead, nextWrite>> /\
             \A i \in Places : i # nextWrite => entries'[i] = entries[i]
    BY <1>1, <2>1, SameIndices, UnreadStays
  <2>2. CASE Skip \/ WriteToNull
    BY <2>1, <2>2 DEF Skip, WriteToNull, ringVars
  <2>3. CASE Compose
    <3>1. <<Input, packet[Input]>> \in Events
      BY <2>3, InputIs DEF Compose
    <3>2. \A i \in Places : i # nextWrite => entries'[i] = entries[i]
      BY <1>1, <2>3, <3>1, EntryFilled DEF Compose
    <3> QED
      BY <2>1, <2>3, <3>2 DEF Compose
  <2>4. CASE CheckFull
    <3>1. UNCHANGED <<nextRead, nextWrite>>
      BY <2>4 DEF CheckFull
    <3>2. entries' = [entries EXCEPT ![nextWrite] = Blank] \/ entries' = entries
      BY <2>4 DEF CheckFull
    <3> QED
      BY <1>1, <2>1, <3>1, <3>2, EntryBlanked
  <2>5. CASE Post
    BY <1>1, <2>1, <2>5, EntryBlanked DEF Post
  <2>6. CASE Wake \/ CheckState \/ CheckPopulated \/ InvokeHook
    BY <2>1, <2>6 DEF Wake, CheckState, CheckPopulated, InvokeHook, ServicerOnly
  <2>7. CASE Wrap
    <3>1. /\ servicer = "wrap" /\ nextRead' = 0 /\ UNCHANGED <<entries, nextWrite>>
      BY <2>7 DEF Wrap, ServicerGoes, ServicerOnly
    <3>2. nextRead = QueueLen /\ QueueLen > 1 /\ QueueLen \in Nat
      BY <3>1, Sizes DEF QueueInv, IndexInv
    <3>3. Read' = Read
      BY <3>1, <3>2 DEF Read
    <3>4. Held' = Held /\ \A k : Place(k)' = Place(k)
      BY <3>1, <3>3 DEF Held, Place
    <3> QED
      BY <1>1, <3>1, <3>4, UnreadStays
  <2>8. CASE Polling \/ DriverThread \/ Close
    BY <2>1, <2>8 DEF Polling, OpenWindow, CloseWindow, UsbDone, DriverThread, DriverDone,
       DriverStops, Close, OnlyLockMoves, ringVars
  <2>9. CASE Closing
    BY <2>1, <2>9 DEF Closing, ClosePost, JoinServicer, CloseDriver, JoinDriver, OnlyLockMoves, ringVars
  <2>10. CASE \E p \in Packets : UsbPacket(p) \/ DriverPacket(p)
    BY <1>1, <2>1, <2>10, EntryBlanked DEF UsbPacket, DriverPacket, Begin
  <2> QED
    BY <1>3, <2>2, <2>3, <2>4, <2>5, <2>6, <2>7, <2>8, <2>9, <2>10 DEF Next, RegisterButtonEvent, Servicer
<1> QED
  BY <1>2, <1>3

\* The steps that leave the servicer where it is, but for its own, and what it is
\* to deliver.
LEMMA OthersKeepServicer ==
    ASSUME [Next]_vars, ~Servicer
    PROVE  UNCHANGED <<servicer, delivered, seen>>
<1>1. CASE UNCHANGED vars
  BY <1>1 DEF vars, historyVars
<1>2. CASE RegisterButtonEvent
  BY <1>2 DEF RegisterButtonEvent, Skip, Compose, WriteToNull, CheckFull, Publish, Post,
     Unregistered, historyVars
<1>3. CASE Polling \/ DriverThread \/ Close
  BY <1>3 DEF Polling, OpenWindow, CloseWindow, UsbDone, DriverThread, DriverDone,
     DriverStops, Close, OnlyLockMoves, historyVars
<1>4. CASE Closing
  BY <1>4 DEF Closing, ClosePost, JoinServicer, CloseDriver, JoinDriver, OnlyLockMoves, historyVars
<1>5. CASE \E p \in Packets : UsbPacket(p) \/ DriverPacket(p)
  BY <1>5 DEF UsbPacket, DriverPacket, historyVars
<1> QED
  BY <1>1, <1>2, <1>3, <1>4, <1>5 DEF Next

\* The test of the ring at the wrong moment is remembered.
LEMMA TornStays == ASSUME QueueInv, [Next]_vars, torn PROVE torn'
<1>1. CASE CheckFull
  BY <1>1 DEF CheckFull
<1>2. CASE Servicer
  BY <1>2 DEF Servicer, Wake, CheckState, CheckPopulated, InvokeHook, Advance, Wrap, ServicerOnly
<1>3. CASE ~Servicer /\ ~CheckFull
  <2>1. CASE UNCHANGED vars
    BY <2>1 DEF vars, historyVars
  <2>2. CASE RegisterButtonEvent
    BY <1>3, <2>2 DEF RegisterButtonEvent, Skip, Compose, WriteToNull, Publish, Post,
       Unregistered, historyVars
  <2>3. CASE Polling \/ DriverThread \/ Close
    BY <2>3 DEF Polling, OpenWindow, CloseWindow, UsbDone, DriverThread, DriverDone,
       DriverStops, Close, OnlyLockMoves, historyVars
  <2>4. CASE Closing
    BY <2>4 DEF Closing, ClosePost, JoinServicer, CloseDriver, JoinDriver, OnlyLockMoves, historyVars
  <2>5. CASE \E p \in Packets : UsbPacket(p) \/ DriverPacket(p)
    BY <2>5 DEF UsbPacket, DriverPacket, historyVars
  <2> QED
    BY <1>3, <2>1, <2>2, <2>3, <2>4, <2>5 DEF Next
<1> QED
  BY <1>1, <1>2, <1>3

\* The head of the ring is what the servicer looks at.
LEMMA HeadIs ==
    ASSUME QueueInv, ~torn, servicer \in {"entry", "lock", "advance"}
    PROVE  /\ Unread \in Seq(Contents) /\ Unread # <<>>
           /\ Head(Unread) = entries[nextRead].event /\ Head(Unread) = Unread[1]
           /\ Head(Unread) \in Events
<1>1. /\ Held \in Places /\ Held > 0 /\ Place(0) = nextRead
      /\ entries[nextRead].event \in Events
  BY WorksOnAnEntry
<1>2. /\ Unread \in Seq(Contents) /\ Len(Unread) = Held
      /\ Unread[0 + 1] = entries[Place(0)].event
  <2>1. 0 \in 0 .. Held - 1
    BY <1>1, Sizes DEF Places
  <2> QED
    BY <2>1, UnreadIs DEF QueueInv, UnreadByPlace
<1>3. Unread # <<>> /\ Head(Unread) = Unread[1]
  BY <1>1, <1>2
<1> QED
  BY <1>1, <1>2, <1>3

LEMMA StepOfQueue ==
    ASSUME QueueInv, [Next]_vars, ~torn'
    PROVE  [Queue!Next]_(Queue!fifoVars)
<1>1. ~torn
  BY TornStays
<1> DEFINE q == IF servicer = "advance" THEN Tail(Unread) ELSE Unread
<1>2. CASE Publish
  <2>1. /\ Unread' = Append(Unread, <<Input, packet[Input]>>) /\ Len(Unread) < QueueLen - 1
    BY <1>1, <1>2, PublishAppends
  <2>2. <<Input, packet[Input]>> \in Events /\ <<Input, packet[Input]>> \in Contents
    BY <1>2, InputIs DEF Publish, Contents
  <2>3. servicer' = servicer /\ delivered' = delivered
    BY <1>2 DEF Publish, Unregistered, historyVars
  <2>4. Unread \in Seq(Contents) /\ QueueLen \in Nat /\ Len(Unread) \in Nat
    BY Sizes, UnreadIs, LenProperties DEF QueueInv, UnreadByPlace
  <2>5. q' = Append(q, <<Input, packet[Input]>>) /\ Len(q) < QueueLen - 1
    <3>1. CASE servicer = "advance"
      <4>1. Unread # <<>>
        BY <1>1, <3>1, HeadIs
      <4>2. Len(Tail(Unread)) = Len(Unread) - 1
        BY <2>4, <4>1, HeadTailProperties
      <4> QED
        BY <2>1, <2>2, <2>3, <2>4, <3>1, <4>1, <4>2, TailOfAppend
    <3>2. CASE servicer # "advance"
      BY <2>1, <2>3, <3>2
    <3> QED
      BY <3>1, <3>2
  <2>6. Queue!Put(<<Input, packet[Input]>>)
    BY <2>3, <2>5 DEF Queue!Put
  <2> QED
    BY <2>2, <2>6 DEF Queue!Next
<1>3. CASE Advance
  <2>1. Unread' = Tail(Unread)
    BY <1>1, <1>3, AdvanceDrops
  <2>2. servicer = "advance" /\ servicer' # "advance" /\ delivered' = delivered
    BY <1>3 DEF Advance, ServicerGoes
  <2> QED
    BY <2>1, <2>2 DEF Queue!fifoVars
<1>4. CASE InvokeHook
  <2>1. Unread' = Unread
    <3>1. ~Publish /\ ~Advance
      BY <1>4 DEF InvokeHook, ServicerGoes, Advance, Publish, Unregistered
    <3> QED
      BY <3>1, OthersKeepUnread
  <2>2. servicer = "lock" /\ servicer' = "advance" /\ delivered' = entries[nextRead].event
    BY <1>4 DEF InvokeHook, ServicerGoes
  <2>3. Unread # <<>> /\ Head(Unread) = entries[nextRead].event
    BY <1>1, <2>2, HeadIs
  <2>4. Queue!Take
    BY <2>1, <2>2, <2>3 DEF Queue!Take
  <2> QED
    BY <2>4 DEF Queue!Next
<1>5. CASE ~Publish /\ ~Advance /\ ~InvokeHook
  <2>1. Unread' = Unread
    BY <1>5, OthersKeepUnread
  <2>2. delivered' = delivered /\ (servicer' = "advance" <=> servicer = "advance")
    <3>1. CASE Servicer
      BY <1>5, <3>1 DEF Servicer, Wake, CheckState, CheckPopulated, Wrap, ServicerGoes
    <3>2. CASE ~Servicer
      BY <3>2, OthersKeepServicer
    <3> QED
      BY <3>1, <3>2
  <2> QED
    BY <2>1, <2>2 DEF Queue!fifoVars
<1> QED
  BY <1>2, <1>3, <1>4, <1>5

LEMMA InitUnread == Init => Unread = <<>>
<1> SUFFICES ASSUME Init PROVE Unread = <<>>
  OBVIOUS
<1>1. Held = 0
  BY Sizes DEF Init, Held, Read
<1>2. Unread \in Seq(Contents) /\ Len(Unread) = 0
  BY <1>1, InitInv, UnreadIs DEF QueueInv, UnreadByPlace
<1> QED
  BY <1>2, EmptySeq

\* The ring of button events, of any length, is a queue of one entry less, for any
\* interleaving of a packet, the servicer and survive_close: the application is
\* given every event that was published once, whole, and in order.  The steps are
\* those of Fifo until the ring was tested for room while the read index was
\* outside of it.
THEOREM ButtonsAreAQueue == Spec => IsAQueue
<1>1. Init => Queue!Init
  BY InitUnread DEF Init, Queue!Init, Empty
<1>2. QueueInv /\ [Next]_vars => [torn' \/ [Queue!Next]_(Queue!fifoVars)]_vars
  BY StepOfQueue
<1>3. IsAQueue <=> Queue!Init /\ [][torn' \/ [Queue!Next]_(Queue!fifoVars)]_vars
  BY DEF IsAQueue
<1> QED
  BY <1>1, <1>2, <1>3, QueueAlwaysInv, PTL DEF Spec
-----------------------------------------------------------------------------
(* What the application was told.  The invariant that ApplicationIsCurrent     *)
(* needs says of every input where its value is to be found.                   *)

\* The last unread event of an input has its value; if there is none, the
\* application was told.
ToldOrUnread(n) ==
    \/ \E k \in 1 .. Len(Unread) :
          /\ Unread[k] = <<n, reported[n]>>
          /\ \A j \in k + 1 .. Len(Unread) : Unread[j][1] # n
    \/ (\A k \in 1 .. Len(Unread) : Unread[k][1] # n) /\ seen[n] = reported[n]

\* But for the input whose event is on its way into the ring.
OnItsWay(n) == at.step \in {"full", "publish"} /\ Input = n
AllToldOrUnread == ~torn /\ ~refused => \A n \in Names : ~OnItsWay(n) => ToldOrUnread(n)

\* The event that the servicer has delivered, and not yet left behind.
HeadIsTold ==
    ~torn /\ servicer = "advance" => seen[Unread[1][1]] = Unread[1][2]

ToldInv == QueueInv /\ AllToldOrUnread /\ HeadIsTold

\* A refusal is remembered.
LEMMA RefusedStays == ASSUME QueueInv, [Next]_vars, refused PROVE refused'
<1>1. CASE CheckFull
  BY <1>1 DEF CheckFull
<1>2. CASE Servicer
  BY <1>2 DEF Servicer, Wake, CheckState, CheckPopulated, InvokeHook, Advance, Wrap, ServicerOnly
<1>3. CASE ~Servicer /\ ~CheckFull
  <2>1. CASE UNCHANGED vars
    BY <2>1 DEF vars, historyVars
  <2>2. CASE RegisterButtonEvent
    BY <1>3, <2>2 DEF RegisterButtonEvent, Skip, Compose, WriteToNull, Publish, Post,
       Unregistered, historyVars
  <2>3. CASE Polling \/ DriverThread \/ Close
    BY <2>3 DEF Polling, OpenWindow, CloseWindow, UsbDone, DriverThread, DriverDone,
       DriverStops, Close, OnlyLockMoves, historyVars
  <2>4. CASE Closing
    BY <2>4 DEF Closing, ClosePost, JoinServicer, CloseDriver, JoinDriver, OnlyLockMoves, historyVars
  <2>5. CASE \E p \in Packets : UsbPacket(p) \/ DriverPacket(p)
    BY <2>5 DEF UsbPacket, DriverPacket, historyVars
  <2> QED
    BY <1>3, <2>1, <2>2, <2>3, <2>4, <2>5 DEF Next
<1> QED
  BY <1>1, <1>2, <1>3

\* Steps after which the input and where registerButtonEvent is with it are as
\* they were, or it is not with an event, and was not.
LEMMA OthersKeepReported ==
    ASSUME QueueInv, [Next]_vars, ~Publish, ~Compose, ~refused', NEW n \in Names, ~OnItsWay(n)'
    PROVE  ~OnItsWay(n) /\ reported' = reported
<1>1. CASE UNCHANGED vars
  BY <1>1 DEF vars, producerVars, OnItsWay, Input
<1>2. CASE Skip \/ WriteToNull \/ Post
  BY <1>2 DEF Skip, WriteToNull, Post, OnItsWay, producerVars
<1>3. CASE CheckFull
  <2>1. at' = [at EXCEPT !.step = "publish"] /\ reported' = reported
    BY <1>3 DEF CheckFull, GoTo
  <2>2. at'.step = "publish" /\ at'.input = at.input
    BY <2>1 DEF QueueInv, TypeOK
  <2> QED
    BY <2>1, <2>2 DEF OnItsWay, Input
<1>4. CASE Servicer
  BY <1>4 DEF Servicer, Wake, CheckState, CheckPopulated, InvokeHook, Advance, Wrap, ServicerOnly,
     producerVars, OnItsWay, Input
<1>5. CASE Polling \/ DriverThread \/ Close
  BY <1>5 DEF Polling, OpenWindow, CloseWindow, UsbDone, DriverThread, DriverDone,
     DriverStops, Close, OnlyLockMoves, producerVars, OnItsWay, Input
<1>6. CASE Closing
  BY <1>6 DEF Closing, ClosePost, JoinServicer, CloseDriver, JoinDriver, OnlyLockMoves, producerVars,
     OnItsWay, Input
<1>7. CASE \E p \in Packets : UsbPacket(p) \/ DriverPacket(p)
  <2>1. lock = "free" /\ reported' = reported
    BY <1>7 DEF UsbPacket, DriverPacket, Begin, LockFrom
  <2>2. main \in {"window", "joinDriver"} /\ driver # "packet"
    BY <2>1 DEF QueueInv, TypeOK, LockInv
  <2>3. at.step = "idle"
    BY <2>2 DEF QueueInv, LockInv, AtInv
  <2> QED
    BY <2>1, <2>3 DEF OnItsWay
<1> QED
  BY <1>1, <1>2, <1>3, <1>4, <1>5, <1>6, <1>7 DEF Next, RegisterButtonEvent

\* The head of a ring that gains an entry, and what a ring that loses one holds.
LEMMA StepKeepsTold ==
    ASSUME ToldInv, [Next]_vars
    PROVE  ToldInv'
<1>1. QueueInv /\ QueueInv' /\ AllToldOrUnread /\ HeadIsTold
  BY StepKeeps DEF ToldInv
<1>2. /\ Unread \in Seq(Contents) /\ Len(Unread) \in Nat
      /\ Unread' \in Seq(Contents) /\ Len(Unread') \in Nat
  BY <1>1, UnreadIs, UnreadIsNext, LenProperties DEF QueueInv, UnreadByPlace
<1>3. reported \in Packets /\ seen \in Packets
  BY <1>1 DEF QueueInv, TypeOK
<1>4. HeadIsTold'
  <2> SUFFICES ASSUME ~torn', servicer' = "advance"
               PROVE  seen'[Unread'[1][1]] = Unread'[1][2]
    BY DEF HeadIsTold
  <2>1. ~torn
    BY <1>1, TornStays
  <2>2. CASE InvokeHook
    <3>1. ~Publish /\ ~Advance
      BY <2>2 DEF InvokeHook, ServicerGoes, Advance, Publish, Unregistered
    <3>2. Unread' = Unread
      BY <1>1, <3>1, OthersKeepUnread
    <3>3. servicer = "lock"
      BY <2>2 DEF InvokeHook, ServicerGoes
    <3>4. Head(Unread) \in Events /\ Head(Unread) = Unread[1] /\ Head(Unread) = entries[nextRead].event
      BY <1>1, <2>1, <3>3, HeadIs
    <3>5. Unread[1] \in Events /\ Unread[1] = entries[nextRead].event
      BY <3>4
    <3>6. Unread[1] # Empty /\ Unread[1][1] \in Names
      BY <3>5 DEF Events, Empty
    <3>7. seen' = [seen EXCEPT ![Unread[1][1]] = Unread[1][2]]
      BY <2>2, <3>5, <3>6 DEF InvokeHook
    <3> QED
      BY <1>3, <3>2, <3>6, <3>7 DEF Packets
  <2>3. CASE ~InvokeHook
    <3>1. servicer = "advance" /\ seen' = seen /\ ~Advance
      <4>1. CASE Servicer
        BY <2>3, <4>1 DEF Servicer, Wake, CheckState, CheckPopulated, Advance, Wrap, ServicerGoes
      <4>2. CASE ~Servicer
        BY <4>2, OthersKeepServicer DEF Servicer
      <4> QED
        BY <4>1, <4>2
    <3>2. Unread # <<>>
      BY <1>1, <2>1, <3>1, HeadIs
    <3>3. Unread'[1] = Unread[1]
      <4>1. CASE Publish
        <5>1. Unread' = Append(Unread, <<Input, packet[Input]>>)
          BY <1>1, <2>1, <4>1, PublishAppends
        <5>2. <<Input, packet[Input]>> \in Contents
          BY <1>1, <4>1, InputIs DEF Publish, Contents
        <5>3. 1 \in 1 .. Len(Unread) + 1 /\ 1 <= Len(Unread)
          BY <1>2, <3>2, EmptySeq
        <5> QED
          BY <1>2, <5>1, <5>2, <5>3, AppendProperties
      <4>2. CASE ~Publish
        BY <1>1, <3>1, <4>2, OthersKeepUnread
      <4> QED
        BY <4>1, <4>2
    <3> QED
      BY <1>1, <2>1, <3>1, <3>3 DEF HeadIsTold
  <2> QED
    BY <2>2, <2>3
<1>5. AllToldOrUnread'
  <2> SUFFICES ASSUME ~torn', ~refused', NEW n \in Names, ~OnItsWay(n)'
               PROVE  ToldOrUnread(n)'
    BY DEF AllToldOrUnread
  <2>1. ~torn /\ ~refused
    BY <1>1, TornStays, RefusedStays
  <2>2. CASE Publish
    <3> DEFINE e == <<Input, packet[Input]>>
    <3>1. Unread' = Append(Unread, e)
      BY <1>1, <2>1, <2>2, PublishAppends
    <3>2. e \in Contents /\ e[1] = Input /\ e[2] = packet[Input] /\ Input \in Names
      BY <1>1, <2>2, InputIs DEF Publish, Contents
    <3>3. /\ Len(Unread') = Len(Unread) + 1
          /\ \A i \in 1 .. Len(Unread) : Unread'[i] = Unread[i]
          /\ Unread'[Len(Unread) + 1] = e
      <4> HIDE DEF e
      <4> QED
        BY <1>2, <3>1, <3>2, AppendProperties
    <3>4. reported' = reported /\ seen' = seen /\ reported[Input] = packet[Input]
      BY <1>1, <2>2 DEF Publish, Unregistered, historyVars, QueueInv, AtInv
    <3>5. CASE n = Input
      <4>1. Unread'[Len(Unread')] = <<n, reported'[n]>> /\ Len(Unread') \in 1 .. Len(Unread')
        BY <1>2, <3>3, <3>4, <3>5
      <4>2. Len(Unread') + 1 .. Len(Unread') = {}
        BY <1>2
      <4> QED
        BY <4>1, <4>2 DEF ToldOrUnread
    <3>6. CASE n # Input
      <4>1. ~OnItsWay(n)
        BY <3>6 DEF OnItsWay
      <4>2. ToldOrUnread(n)
        BY <1>1, <2>1, <4>1 DEF AllToldOrUnread
      <4>3. CASE \E k \in 1 .. Len(Unread) :
                    /\ Unread[k] = <<n, reported[n]>>
                    /\ \A j \in k + 1 .. Len(Unread) : Unread[j][1] # n
        <5>1. PICK k \in 1 .. Len(Unread) :
                      /\ Unread[k] = <<n, reported[n]>>
                      /\ \A j \in k + 1 .. Len(Unread) : Unread[j][1] # n
          BY <4>3
        <5>2. k \in 1 .. Len(Unread') /\ Unread'[k] = <<n, reported'[n]>>
          BY <1>2, <3>3, <3>4, <5>1
        <5>3. ASSUME NEW j \in k + 1 .. Len(Unread')
              PROVE  Unread'[j][1] # n
          <6>1. CASE j = Len(Unread) + 1
            BY <3>2, <3>3, <3>6, <6>1
          <6>2. CASE j # Len(Unread) + 1
            <7>1. j \in k + 1 .. Len(Unread) /\ j \in 1 .. Len(Unread)
              BY <1>2, <3>3, <6>2
            <7> QED
              BY <3>3, <5>1, <7>1
          <6> QED
            BY <6>1, <6>2
        <5> QED
          BY <5>2, <5>3 DEF ToldOrUnread
      <4>4. CASE (\A k \in 1 .. Len(Unread) : Unread[k][1] # n) /\ seen[n] = reported[n]
        <5>1. ASSUME NEW j \in 1 .. Len(Unread')
              PROVE  Unread'[j][1] # n
          <6>1. CASE j = Len(Unread) + 1
            BY <3>2, <3>3, <3>6, <6>1
          <6>2. CASE j # Len(Unread) + 1
            <7>1. j \in 1 .. Len(Unread)
              BY <1>2, <3>3, <6>2
            <7> QED
              BY <3>3, <4>4, <7>1
          <6> QED
            BY <6>1, <6>2
        <5> QED
          BY <3>4, <4>4, <5>1 DEF ToldOrUnread
      <4> QED
        BY <4>2, <4>3, <4>4 DEF ToldOrUnread
    <3> QED
      BY <3>5, <3>6
  <2>3. CASE Compose
    <3>1. at.step = "next" /\ at \in [input : 0 .. Len(Inputs), step : {"idle", "next", "full", "publish", "post"}]
      BY <1>1, <2>3 DEF Compose, QueueInv, TypeOK
    <3>2. ~OnItsWay(n)
      BY <3>1 DEF OnItsWay
    <3>3. ToldOrUnread(n)
      BY <1>1, <2>1, <3>2 DEF AllToldOrUnread
    <3>4. Unread' = Unread /\ seen' = seen
      <4>1. ~Publish /\ ~Advance
        BY <2>3, <3>1 DEF Compose, Unregistered, Publish, Advance, ServicerGoes
      <4> QED
        BY <1>1, <2>3, <4>1, OthersKeepUnread DEF Compose, Unregistered, historyVars
    <3>5. reported'[n] = reported[n]
      <4>1. CASE sem = Deleted
        BY <2>3, <4>1 DEF Compose
      <4>2. CASE sem # Deleted
        <5>1. at' = [at EXCEPT !.step = "full"] /\ reported' = [reported EXCEPT ![Input] = packet[Input]]
          BY <2>3, <4>2 DEF Compose, GoTo
        <5>2. at'.step = "full" /\ Input' = Input
          BY <3>1, <5>1 DEF Input
        <5>3. n # Input
          BY <5>2 DEF OnItsWay
        <5> QED
          BY <1>3, <5>1, <5>3 DEF Packets
      <4> QED
        BY <4>1, <4>2
    <3> QED
      BY <3>3, <3>4, <3>5 DEF ToldOrUnread
  <2>4. CASE Advance
    <3>1. Unread # <<>> /\ Unread' = Tail(Unread)
      BY <1>1, <2>1, <2>4, AdvanceDrops
    <3>2. /\ Len(Unread') = Len(Unread) - 1 /\ Len(Unread) > 0
          /\ \A i \in 1 .. Len(Unread) - 1 : Unread'[i] = Unread[i + 1]
      BY <1>2, <3>1, HeadTailProperties
    <3>3. seen' = seen /\ servicer = "advance" /\ ~Publish /\ ~Compose
      BY <2>4 DEF Advance, ServicerGoes, ServicerOnly, producerVars, Publish, Compose, Unregistered
    <3>4. ~OnItsWay(n) /\ reported' = reported
      BY <1>1, <3>3, OthersKeepReported
    <3>5. ToldOrUnread(n)
      BY <1>1, <2>1, <3>4 DEF AllToldOrUnread
    <3>6. CASE \E k \in 1 .. Len(Unread) :
                  /\ Unread[k] = <<n, reported[n]>>
                  /\ \A j \in k + 1 .. Len(Unread) : Unread[j][1] # n
      <4>1. PICK k \in 1 .. Len(Unread) :
                    /\ Unread[k] = <<n, reported[n]>>
                    /\ \A j \in k + 1 .. Len(Unread) : Unread[j][1] # n
        BY <3>6
      <4>2. CASE k = 1
        <5>1. seen[n] = reported[n]
          <6>1. Unread[1][1] = n /\ Unread[1][2] = reported[n]
            BY <4>1, <4>2
          <6> QED
            BY <1>1, <2>1, <3>3, <6>1 DEF HeadIsTold
        <5>2. ASSUME NEW j \in 1 .. Len(Unread')
              PROVE  Unread'[j][1] # n
          <6>1. j + 1 \in k + 1 .. Len(Unread) /\ j \in 1 .. Len(Unread) - 1
            BY <1>2, <3>2, <4>2
          <6> QED
            BY <3>2, <4>1, <6>1
        <5> QED
          BY <3>3, <3>4, <5>1, <5>2 DEF ToldOrUnread
      <4>3. CASE k # 1
        <5>1. /\ k - 1 \in 1 .. Len(Unread') /\ k - 1 \in 1 .. Len(Unread) - 1 /\ (k - 1) + 1 = k
          BY <1>2, <3>2, <4>3
        <5>2. Unread'[k - 1] = <<n, reported'[n]>>
          BY <3>2, <3>4, <4>1, <5>1
        <5>3. ASSUME NEW j \in (k - 1) + 1 .. Len(Unread')
              PROVE  Unread'[j][1] # n
          <6>1. j + 1 \in k + 1 .. Len(Unread) /\ j \in 1 .. Len(Unread) - 1
            BY <1>2, <3>2, <4>1
          <6> QED
            BY <3>2, <4>1, <6>1
        <5> QED
          BY <5>1, <5>2, <5>3 DEF ToldOrUnread
      <4> QED
        BY <4>2, <4>3
    <3>7. CASE (\A k \in 1 .. Len(Unread) : Unread[k][1] # n) /\ seen[n] = reported[n]
      <4>1. ASSUME NEW j \in 1 .. Len(Unread')
            PROVE  Unread'[j][1] # n
        <5>1. j + 1 \in 1 .. Len(Unread) /\ j \in 1 .. Len(Unread) - 1
          BY <1>2, <3>2
        <5> QED
          BY <3>2, <3>7, <5>1
      <4> QED
        BY <3>3, <3>4, <3>7, <4>1 DEF ToldOrUnread
    <3> QED
      BY <3>5, <3>6, <3>7 DEF ToldOrUnread
  <2>5. CASE ~Publish /\ ~Compose /\ ~Advance
    <3>1. Unread' = Unread
      BY <1>1, <2>5, OthersKeepUnread
    <3>2. ~OnItsWay(n) /\ reported' = reported
      BY <1>1, <2>5, OthersKeepReported
    <3>3. ToldOrUnread(n)
      BY <1>1, <2>1, <3>2 DEF AllToldOrUnread
    <3>4. CASE InvokeHook
      <4>1. servicer = "lock"
        BY <3>4 DEF InvokeHook, ServicerGoes
      <4>2. Head(Unread) \in Events /\ Head(Unread) = Unread[1] /\ Head(Unread) = entries[nextRead].event
            /\ Unread # <<>>
        BY <1>1, <2>1, <4>1, HeadIs
      <4>3. Unread[1] \in Events /\ Unread[1] = entries[nextRead].event /\ 1 \in 1 .. Len(Unread)
        BY <1>2, <4>2, EmptySeq
      <4>4. Unread[1] # Empty /\ Unread[1][1] \in Names
        <5>1. \A v \in Events : v # Empty /\ v[1] \in Names
          BY DEF Events, Empty
        <5> QED
          BY <4>3, <5>1, Zenon
      <4>5. seen' = [seen EXCEPT ![Unread[1][1]] = Unread[1][2]]
        BY <3>4, <4>3, <4>4 DEF InvokeHook
      <4>6. (\A k \in 1 .. Len(Unread) : Unread[k][1] # n) => seen'[n] = seen[n]
        BY <1>3, <4>3, <4>5 DEF Packets
      <4> QED
        BY <3>1, <3>2, <3>3, <4>6 DEF ToldOrUnread
    <3>5. CASE ~InvokeHook
      <4>1. seen' = seen
        <5>1. CASE Servicer
          BY <2>5, <3>5, <5>1 DEF Servicer, Wake, CheckState, CheckPopulated, Wrap
        <5>2. CASE ~Servicer
          BY <5>2, OthersKeepServicer
        <5> QED
          BY <5>1, <5>2
      <4> QED
        BY <3>1, <3>2, <3>3, <4>1 DEF ToldOrUnread
    <3> QED
      BY <3>4, <3>5
  <2> QED
    BY <2>2, <2>3, <2>4, <2>5
<1> QED
  BY <1>1, <1>4, <1>5 DEF ToldInv

LEMMA InitTold == Init => ToldInv
<1> SUFFICES ASSUME Init PROVE ToldInv
  OBVIOUS
<1>1. Unread = <<>> /\ seen = reported /\ servicer = "waiting"
  BY InitUnread DEF Init
<1>2. Len(Unread) = 0 /\ 1 .. Len(Unread) = {}
  BY <1>1
<1>3. AllToldOrUnread
  BY <1>1, <1>2 DEF AllToldOrUnread, ToldOrUnread
<1> QED
  BY <1>1, <1>3, InitInv DEF ToldInv, HeadIsTold

\* For a ring of any length and any inputs, the application that has been given
\* every event knows the value that libsurvive keeps of every input, unless an
\* event found the ring full (or it was tested while its index was outside of it).
THEOREM ApplicationIsAlwaysCurrent == Spec => []ApplicationIsCurrent
<1>1. ToldInv => ApplicationIsCurrent
  <2> SUFFICES ASSUME ToldInv, Count = 0, ~Registering, ~refused, ~torn
               PROVE  seen = reported
    BY DEF ApplicationIsCurrent
  <2>1. Len(Unread) = 0
    BY CountIsHeld, UnreadIs DEF ToldInv, QueueInv, TypeOK, Places, UnreadByPlace
  <2>2. at.step = "idle" /\ seen \in [Names -> Values] /\ reported \in [Names -> Values]
    BY DEF ToldInv, QueueInv, TypeOK, AtInv, Packets
  <2>3. ASSUME NEW n \in Names
        PROVE  seen[n] = reported[n]
    BY <2>1, <2>2 DEF ToldInv, AllToldOrUnread, OnItsWay, ToldOrUnread
  <2> QED
    BY <2>2, <2>3
<1>2. ToldInv /\ [Next]_vars => ToldInv'
  BY StepKeepsTold
<1> QED
  BY <1>1, <1>2, InitTold, PTL DEF Spec
=============================================================================
