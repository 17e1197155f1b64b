----------------------------- MODULE ButtonQueue -----------------------------
(***************************************************************************)
(* The button events of libsurvive (repos/libsurvive/src).                 *)
(*                                                                         *)
(* A packet of a device is turned into events by registerButtonEvent       *)
(* (driver_vive.c) on the polling thread or on the thread of a driver      *)
(* (driver_usbmon.c), under the lock of the context.  The events go        *)
(* through a ring of BUTTON_QUEUE_MAX_LEN entries and a semaphore to the   *)
(* thread of button_servicer (survive.c), which takes the lock only to     *)
(* call the application: it reads the ring and moves nextReadIndex without *)
(* it.  The lock is a semaphore that the polling thread holds except in    *)
(* the windows of survive_poll; survive_close runs with the lock held.     *)
(***************************************************************************)
EXTENDS Integers, Sequences, FiniteSets

CONSTANTS QueueLen,    \* BUTTON_QUEUE_MAX_LEN
          Inputs,      \* what a packet reports, in the order of registerButtonEvent
          Buttons,     \* those of registerButtonOnOff, which tests for a null entry
          Values,      \* of an input
          Initial      \* the value of every input at the start

ASSUME QueueAssumption ==
    /\ QueueLen \in Nat /\ QueueLen > 1
    /\ Inputs \in Seq(STRING) /\ Inputs # <<>>
    /\ Buttons \subseteq {Inputs[i] : i \in DOMAIN Inputs}
    /\ Initial \in Values

VARIABLES state,      \* of the context
          lock,       \* who holds the lock of the context
          main,       \* where the polling thread is
          driver,     \* where the thread of the driver is
          servicer,   \* where button_servicer is
          sem,        \* buttonservicesem, or Deleted
          entries, nextRead, nextWrite,  \* the ring
          reported,   \* the masks and axes of the object
          packet,     \* what registerButtonEvent is working on
          at,         \* its input, and where it is with that
          writable,   \* its local "entry" is not null
          crashed,    \* why a null entry was written to, if it was
          seen,       \* history: what the application was told of each input
          delivered,  \* history: the last event it was given
          refused,    \* history: an event found the ring full
          torn        \* history: the ring was tested for room while nextReadIndex was out of it

ringVars == <<entries, nextRead, nextWrite, sem>>
producerVars == <<reported, packet, at, writable>>
historyVars == <<seen, delivered, refused, torn>>
vars == <<state, lock, main, driver, servicer, ringVars, producerVars, crashed, historyVars>>
-----------------------------------------------------------------------------
Names == {Inputs[i] : i \in DOMAIN Inputs}
Packets == [Names -> Values]
Events == Names \X Values
Empty == <<>>
Deleted == -1
Idle == [input |-> 0, step |-> "idle"]
After(i) == (i + 1) % QueueLen

\* The entries between the two indices, oldest first.
Count == (nextWrite - nextRead + QueueLen) % QueueLen
Unread == [k \in 1 .. Count |-> entries[(nextRead + k - 1) % QueueLen].event]

TypeOK ==
    /\ state \in {"running", "closing"}
    /\ lock \in {"free", "main", "driver"}
    /\ main \in {"polling", "window", "usb", "post", "join", "drivers", "joinDriver", "closed"}
    /\ driver \in {"waiting", "packet", "ended"}
    /\ servicer \in {"waiting", "woken", "entry", "lock", "advance", "wrap", "ended", "gaveUp"}
    /\ sem \in Deleted .. QueueLen + Len(Inputs) + 1
    /\ entries \in [0 .. QueueLen - 1 -> [populated : BOOLEAN, event : Events \cup {Empty}]]
    /\ nextRead \in 0 .. QueueLen /\ nextWrite \in 0 .. QueueLen - 1
    /\ reported \in Packets /\ packet \in Packets /\ seen \in Packets
    /\ at \in [input : 0 .. Len(Inputs), step : {"idle", "next", "full", "publish", "post"}]
    /\ writable \in BOOLEAN /\ refused \in BOOLEAN /\ torn \in BOOLEAN
    /\ crashed \in {"no", "full", "closed"}
    /\ delivered \in Events \cup {Empty}

Blank == [populated |-> FALSE, event |-> Empty]
AllInitial == [n \in Names |-> Initial]

\* survive_startup has made the queue and its thread.
Init ==
    /\ state = "running" /\ lock = "main" /\ main = "polling"
    /\ driver = "waiting" /\ servicer = "waiting"
    /\ sem = 0 /\ entries = [i \in 0 .. QueueLen - 1 |-> Blank]
    /\ nextRead = 0 /\ nextWrite = 0
    /\ reported = AllInitial /\ packet = AllInitial /\ at = Idle /\ writable = FALSE
    /\ crashed = "no"
    /\ seen = AllInitial /\ delivered = Empty /\ refused = FALSE /\ torn = FALSE
-----------------------------------------------------------------------------
(* registerButtonEvent, by whoever holds the lock. *)

\* Bound: no packet comes after a ring that was tested in between two stores, for
\* it may then never be full again.
Bounded == ~torn

\* prepareNextButtonEvent.
Begin(p) ==
    /\ Bounded
    /\ packet' = p
    /\ entries' = [entries EXCEPT ![nextWrite] = Blank]
    /\ writable' = TRUE
    /\ at' = [input |-> 1, step |-> "next"]
    /\ UNCHANGED <<reported, nextRead, nextWrite, sem>>

Registering == at # Idle
Input == Inputs[at.input]
GoTo(step) == at' = [at EXCEPT !.step = step]

\* On to the next input of the packet; after the last, back to the caller.
Continue == at' = IF at.input < Len(Inputs) THEN [input |-> at.input + 1, step |-> "next"] ELSE Idle

Unregistered == UNCHANGED <<state, lock, main, driver, servicer, historyVars>>

\* An input that has not changed, and a button while there is no entry.
Skip ==
    /\ at.step = "next"
    /\ \/ packet[Input] = reported[Input]
       \/ Input \in Buttons /\ ~writable
    /\ Continue
    /\ UNCHANGED <<ringVars, reported, packet, writable, crashed>> /\ Unregistered

\* The entry is filled in; then incrementAndPostButtonQueue updates the object.
Compose ==
    /\ at.step = "next" /\ packet[Input] # reported[Input] /\ writable
    /\ entries' = [entries EXCEPT ![nextWrite].event = <<Input, packet[Input]>>]
    /\ IF sem = Deleted
       THEN Continue /\ writable' = FALSE /\ UNCHANGED reported
       ELSE /\ GoTo("full")
            /\ reported' = [reported EXCEPT ![Input] = packet[Input]]
            /\ UNCHANGED writable
    /\ UNCHANGED <<nextRead, nextWrite, sem, packet, crashed>> /\ Unregistered

\* There is no entry, and only registerButtonOnOff looks.
WriteToNull ==
    /\ at.step = "next" /\ packet[Input] # reported[Input]
    /\ ~writable /\ Input \notin Buttons
    /\ crashed' = IF sem = Deleted THEN "closed" ELSE "full"
    /\ UNCHANGED <<ringVars, producerVars>> /\ Unregistered

\* Mutant: the ring is full only when the indices meet.
CheckFullMutant ==
    /\ at.step = "full"
    /\ GoTo("publish")
    /\ UNCHANGED <<entries, writable, refused, torn, nextRead, nextWrite, sem, reported, packet, crashed,
                   state, lock, main, driver, servicer, seen, delivered>>

CheckFull ==
    /\ at.step = "full"
    /\ torn' = (torn \/ nextRead = QueueLen)
    /\ IF After(nextWrite) = nextRead
       THEN /\ entries' = [entries EXCEPT ![nextWrite] = Blank]
            /\ writable' = FALSE /\ refused' = TRUE
            /\ Continue
       ELSE GoTo("publish") /\ UNCHANGED <<entries, writable, refused>>
    /\ UNCHANGED <<nextRead, nextWrite, sem, reported, packet, crashed,
                   state, lock, main, driver, servicer, seen, delivered>>

Publish ==
    /\ at.step = "publish"
    /\ entries' = [entries EXCEPT ![nextWrite].populated = TRUE]
    /\ nextWrite' = After(nextWrite)
    /\ GoTo("post")
    /\ UNCHANGED <<nextRead, sem, reported, packet, writable, crashed>> /\ Unregistered

\* Mutant: the servicer is not told of the entry.
PostMutant ==
    /\ at.step = "post"
    /\ entries' = [entries EXCEPT ![nextWrite] = Blank]
    /\ Continue
    /\ UNCHANGED <<sem, nextRead, nextWrite, reported, packet, writable, crashed>> /\ Unregistered

Post ==
    /\ at.step = "post"
    /\ sem' = sem + 1
    /\ entries' = [entries EXCEPT ![nextWrite] = Blank]
    /\ Continue
    /\ UNCHANGED <<nextRead, nextWrite, reported, packet, writable, crashed>> /\ Unregistered

RegisterButtonEvent == Skip \/ Compose \/ WriteToNull \/ CheckFull \/ Publish \/ Post
-----------------------------------------------------------------------------
(* button_servicer. *)

ServicerGoes(from, to) == servicer = from /\ servicer' = to
ServicerOnly == UNCHANGED <<state, lock, main, driver, entries, nextWrite, producerVars,
                            crashed, refused, torn>>

Wake ==
    /\ ServicerGoes("waiting", "woken")
    /\ sem > 0 /\ sem' = sem - 1
    /\ ServicerOnly /\ UNCHANGED <<nextRead, seen, delivered>>

CheckState ==
    /\ ServicerGoes("woken", IF state = "running" THEN "entry" ELSE "ended")
    /\ ServicerOnly /\ UNCHANGED <<sem, nextRead, seen, delivered>>

CheckPopulated ==
    /\ ServicerGoes("entry", IF entries[nextRead].populated THEN "lock" ELSE "gaveUp")
    /\ ServicerOnly /\ UNCHANGED <<sem, nextRead, seen, delivered>>

\* With the lock for as long as the hooks run.
InvokeHook ==
    LET event == entries[nextRead].event
    IN /\ ServicerGoes("lock", "advance")
       /\ lock = "free"
       /\ delivered' = event
       /\ seen' = IF event = Empty THEN seen ELSE [seen EXCEPT ![event[1]] = event[2]]
       /\ ServicerOnly /\ UNCHANGED <<sem, nextRead>>

\* Mutant: the wrap is forgotten: the index stays on the last entry.
AdvanceMutant ==
    /\ ServicerGoes("advance", "waiting")
    /\ nextRead' = IF nextRead = QueueLen - 1 THEN nextRead ELSE nextRead + 1
    /\ ServicerOnly /\ UNCHANGED <<sem, seen, delivered>>

\* nextReadIndex++, and then 0 if that is the end.  (A build may keep the index
\* in a register in between: then no other step comes between these two.)
Advance ==
    /\ IF nextRead = QueueLen - 1
       THEN ServicerGoes("advance", "wrap")
       ELSE ServicerGoes("advance", "waiting")
    /\ nextRead' = nextRead + 1
    /\ ServicerOnly /\ UNCHANGED <<sem, seen, delivered>>

Wrap ==
    /\ ServicerGoes("wrap", "waiting")
    /\ nextRead' = 0
    /\ ServicerOnly /\ UNCHANGED <<sem, seen, delivered>>

Servicer == Wake \/ CheckState \/ CheckPopulated \/ InvokeHook \/ Advance \/ Wrap
-----------------------------------------------------------------------------
(* The threads that hold the lock. *)

MainGoes(from, to) == main = from /\ main' = to
LockFrom(from, to) == lock = from /\ lock' = to
OnlyLockMoves == UNCHANGED <<servicer, ringVars, producerVars, crashed, historyVars>>

\* The poll of libusb lets go of the lock, and libusb calls back in the window;
\* survive_poll lets go of it once more after its drivers, with nothing called.
OpenWindow ==
    /\ MainGoes("polling", "window") /\ LockFrom("main", "free")
    /\ OnlyLockMoves /\ UNCHANGED <<state, driver>>

CloseWindow ==
    /\ MainGoes("window", "polling") /\ LockFrom("free", "main")
    /\ OnlyLockMoves /\ UNCHANGED <<state, driver>>

UsbPacket(p) ==
    /\ MainGoes("window", "usb") /\ LockFrom("free", "main")
    /\ Begin(p)
    /\ UNCHANGED <<state, driver, servicer, crashed, historyVars>>

\* Mutant: the callback of libusb returns without giving the lock back.
UsbDoneMutant ==
    /\ MainGoes("usb", "window") /\ ~Registering
    /\ OnlyLockMoves /\ UNCHANGED <<state, lock, driver>>

UsbDone ==
    /\ MainGoes("usb", "window") /\ LockFrom("main", "free") /\ ~Registering
    /\ OnlyLockMoves /\ UNCHANGED <<state, driver>>

\* A packet on the thread of a driver.  Before it takes the lock the thread spins
\* until it has seen the ring empty (driver_usbmon.c:598).  That wait is left out:
\* here packets come that the code would hold back, and never fewer.
DriverPacket(p) ==
    /\ driver = "waiting" /\ driver' = "packet" /\ LockFrom("free", "driver")
    /\ Begin(p)
    /\ UNCHANGED <<state, main, servicer, crashed, historyVars>>

\* The thread of the driver looks whether it is to go on.
DriverDone ==
    /\ driver = "packet" /\ ~Registering
    /\ driver' = IF main = "joinDriver" THEN "ended" ELSE "waiting"
    /\ LockFrom("driver", "free")
    /\ OnlyLockMoves /\ UNCHANGED <<state, main>>

\* Without a packet to wait for, too.
DriverStops ==
    /\ driver = "waiting" /\ main = "joinDriver" /\ driver' = "ended"
    /\ OnlyLockMoves /\ UNCHANGED <<state, lock, main>>

\* survive_close.
Close ==
    /\ MainGoes("polling", "post")
    /\ state' = "closing"
    /\ OnlyLockMoves /\ UNCHANGED <<lock, driver>>

\* Mutant: the servicer is joined without being woken.
ClosePostMutant ==
    /\ MainGoes("post", "join")
    /\ UNCHANGED <<state, lock, driver, servicer, ringVars, producerVars, crashed, historyVars>>

ClosePost ==
    /\ MainGoes("post", "join")
    /\ sem' = sem + 1
    /\ UNCHANGED <<state, lock, driver, servicer, entries, nextRead, nextWrite, producerVars,
                   crashed, historyVars>>

JoinServicer ==
    /\ MainGoes("join", "drivers")
    /\ servicer \in {"ended", "gaveUp"}
    /\ sem' = Deleted
    /\ UNCHANGED <<state, lock, driver, servicer, entries, nextRead, nextWrite, producerVars,
                   crashed, historyVars>>

\* threaded_driver_close lets go of the lock for its join.  The close of driver_vive
\* (driver_vive.c:858, 3244) and a poser that is joined (poser.c:475) do so too; no
\* button comes from there, for every transfer is cancelled before.
CloseDriver ==
    /\ MainGoes("drivers", "joinDriver") /\ LockFrom("main", "free")
    /\ OnlyLockMoves /\ UNCHANGED <<state, driver>>

JoinDriver ==
    /\ MainGoes("joinDriver", "closed") /\ LockFrom("free", "main")
    /\ driver = "ended"
    /\ OnlyLockMoves /\ UNCHANGED <<state, driver>>

Closing == ClosePost \/ JoinServicer \/ CloseDriver \/ JoinDriver
Polling == OpenWindow \/ CloseWindow \/ UsbDone
DriverThread == DriverDone \/ DriverStops

Next ==
    /\ crashed = "no"
    /\ \/ RegisterButtonEvent
       \/ Servicer
       \/ Polling \/ DriverThread
       \/ \E p \in Packets : UsbPacket(p) \/ DriverPacket(p)
       \/ Close \/ Closing

Spec == Init /\ [][Next]_vars

\* Every thread that can go on does.  sem_wait is in no order, but the polling
\* thread leaves the lock alone for as long as it waits for libusb, in every
\* poll, so whoever waits for the lock gets it in the end.  Nothing makes a
\* device send a packet, or the application close.
FairSpec ==
    /\ Spec
    /\ WF_vars(crashed = "no" /\ RegisterButtonEvent)
    /\ SF_vars(crashed = "no" /\ Servicer)
    /\ SF_vars(crashed = "no" /\ Polling)
    /\ SF_vars(crashed = "no" /\ DriverThread)
    /\ SF_vars(crashed = "no" /\ Closing)
-----------------------------------------------------------------------------
\* "should never happen": when the servicer has taken a post, the entry it looks
\* at is one that was published for it and that nobody has cleared since, wherever
\* the ring wrapped; unless the ring was tested for room at the one moment when
\* the read index is outside of it.
PopulatedWhenWoken ==
    servicer = "entry" /\ ~torn => entries[nextRead].populated

\* No post is lost and none is made up: what the semaphore counts is the unread
\* entries, less the one the servicer works on and the one being posted, and the
\* one post of survive_close.
PostsMatchEntries ==
    sem # Deleted /\ servicer \notin {"ended", "gaveUp"} /\ ~torn =>
        sem + (IF servicer \in {"waiting", "wrap"} THEN 0 ELSE 1) + (IF at.step = "post" THEN 1 ELSE 0)
            = Count + (IF main = "join" THEN 1 ELSE 0)

\* The application gets the events in order, each once, none torn and none
\* overwritten while it waits in the ring: the ring is a queue of QueueLen - 1.
Queue == INSTANCE Fifo WITH
    Capacity <- QueueLen - 1, Displacing <- FALSE, taken <- delivered,
    queue <- IF servicer = "advance" THEN Tail(Unread) ELSE Unread
IsAQueue == Queue!Init /\ [][torn' \/ [Queue!Next]_(Queue!fifoVars)]_vars

\* Once the ring is drained, the application was told the state that libsurvive
\* keeps of every input, unless an event found the ring full.
ApplicationIsCurrent ==
    Count = 0 /\ ~Registering /\ ~refused /\ ~torn => seen = reported

\* An event the servicer has found is delivered, unless the context is closed or
\* the process is gone.
FoundIsDelivered ==
    servicer = "lock" ~> servicer # "lock" \/ state = "closing" \/ crashed # "no"

\* "unlock/ post to button service semaphore so the thread can kill itself": the
\* post that closing makes ends the servicer, unless that has found an event
\* before it saw the state.  Then it wants the lock that the joining thread
\* keeps, and neither goes on (survive.c:1008).
CloseEndsServicer == main = "join" ~> main # "join" \/ servicer = "lock"
=============================================================================
