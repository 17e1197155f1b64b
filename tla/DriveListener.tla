---------------------------- MODULE DriveListener ----------------------------
(***************************************************************************)
(* The process on the car (repos/car_code/drive_listener.py).              *)
(*                                                                         *)
(* Two threads share LiveValues without a lock.  The main thread runs the  *)
(* asyncio server: each message stamps the time of the last command and    *)
(* then stores a velocity and a steer.  The thread of send_car_commands    *)
(* loops: it zeroes the values when the last command is older than         *)
(* timeout_size, reads them, drives the car, and "neutralizes" them with   *)
(* two rates that are 0.  A thread switch may fall between any two of      *)
(* these accesses, so each is an action of its own.                        *)
(*                                                                         *)
(* Control-C once ends the main thread, which then waits for the other     *)
(* threads, which never end; Control-C again ends the wait and runs the    *)
(* atexit handler of car_controller, while the driving thread still runs.  *)
(***************************************************************************)
EXTENDS CarController

CONSTANTS DeadZone,    \* dead_zone_size
          Timeout,     \* timeout_size, in ticks of the clock
          Messages,    \* what a JSON message can hold: [velocity, direction]
          NotANumber,  \* a JSON value that is no number
          Missing      \* a key that the message does not have

ASSUME ListenerAssumption ==
    /\ DeadZone \in Nat \ {0} /\ Timeout \in Nat
    /\ 0 \in Velocities /\ 0 \in Directions
    /\ NotANumber \notin Int /\ Missing \notin Int /\ NotANumber # Missing
    /\ Messages \subseteq [velocity : Velocities \cup {NotANumber, Missing},
                           direction : Directions \cup {NotANumber, Missing}]

VARIABLES velocity,   \* LiveValues.car_velocity
          steer,      \* LiveValues.car_steer
          age,        \* now - LiveValues.time_of_last_command, capped
          websocket,  \* the path of the global websocket: the newest connection
          handling,   \* where socket_response is with its message
          message,    \* the message it handles
          drv,        \* where send_car_commands is in its loop
          direction,  \* its local variable
          nth,        \* which of the four neutralizations it is at
          loaded,     \* the value it has read and will write back
          phase,      \* of the process: serving, joining, exiting, ended
          settled,    \* history: loop passes since anything they read changed
          raced       \* history: the loop wrote a pin after the atexit handler began

sharedVars == <<velocity, steer, age>>
handlerVars == <<websocket, handling, message>>
driverVars == <<drv, direction, nth, loaded>>
vars == <<carVars, sharedVars, handlerVars, driverVars, phase, settled, raced>>
-----------------------------------------------------------------------------
MaxAge == Timeout + 1
Stale == age > Timeout
Paths == {"/", "/keypresses"}
NoMessage == [velocity |-> Missing, direction |-> Missing]

DriverPoints == {"check", "zeroVelocity", "zeroSteer", "direction", "below", "above",
                 "moving", "going", "neutralize", "storeBack", "dead"}

TypeOK ==
    /\ CarTypeOK
    /\ velocity \in Velocities \cup {NotANumber}
    /\ steer \in Directions \cup {NotANumber}
    /\ age \in 0 .. MaxAge
    /\ websocket \in Paths
    /\ handling \in {"idle", "stamp", "velocity", "direction"}
    /\ message \in Messages \cup {NoMessage}
    /\ drv \in DriverPoints
    /\ direction \in Directions
    /\ nth \in 1 .. 4
    /\ loaded \in IF nth <= 2 THEN Velocities ELSE Directions
    /\ phase \in {"serving", "joining", "exiting", "ended"}
    /\ settled \in 0 .. 2
    /\ raced \in BOOLEAN

Init ==
    /\ CarInit
    /\ velocity = 0 /\ steer = 0 /\ age = 0
    /\ websocket = "/" /\ handling = "idle" /\ message = NoMessage
    /\ drv = "check" /\ direction = 0 /\ nth = 1 /\ loaded = 0
    /\ phase = "serving" /\ settled = 0 /\ raced = FALSE
-----------------------------------------------------------------------------
(* Time.  Only whether the last command is older than timeout_size matters. *)

Tick ==
    /\ age < MaxAge
    /\ age' = age + 1
    /\ settled' = IF age = Timeout THEN 0 ELSE settled
    /\ UNCHANGED <<carVars, velocity, steer, handlerVars, driverVars, phase, raced>>
-----------------------------------------------------------------------------
(* The main thread: socket_response. *)

Connect(path) ==
    /\ phase = "serving" /\ handling = "idle"
    /\ websocket' = path
    /\ UNCHANGED <<carVars, sharedVars, handling, message, driverVars, phase, settled, raced>>

\* A message on any connection whose JSON can be parsed.  All others, and every
\* message while the newest connection has the path of the keypresses, change
\* nothing.
Receive(m) ==
    /\ phase = "serving" /\ handling = "idle"
    /\ websocket # "/keypresses"
    /\ handling' = "stamp" /\ message' = m
    /\ UNCHANGED <<carVars, sharedVars, websocket, driverVars, phase, settled, raced>>

HandlerStep(from, to) ==
    /\ phase = "serving"
    /\ handling = from /\ handling' = to
    /\ message' = IF to = "idle" THEN NoMessage ELSE message
    /\ settled' = 0
    /\ UNCHANGED <<carVars, websocket, driverVars, phase, raced>>

\* The timer is stamped before the message is known to be complete.
Stamp ==
    /\ HandlerStep("stamp", "velocity")
    /\ age' = 0
    /\ UNCHANGED <<velocity, steer>>

StoreVelocity ==
    \/ /\ message.velocity # Missing
       /\ HandlerStep("velocity", "direction")
       /\ velocity' = message.velocity
       /\ UNCHANGED <<steer, age>>
    \/ /\ message.velocity = Missing  \* KeyError: the rest is skipped
       /\ HandlerStep("velocity", "idle")
       /\ UNCHANGED sharedVars

StoreSteer ==
    /\ HandlerStep("direction", "idle")
    /\ steer' = IF message.direction = Missing THEN steer ELSE message.direction
    /\ UNCHANGED <<velocity, age>>
-----------------------------------------------------------------------------
(* The thread of send_car_commands. *)

DriverAt(point) == phase # "ended" /\ drv = point

\* Leave everything but the driver's own variables as it is.
DriverOnly == UNCHANGED <<carVars, sharedVars, handlerVars, phase, settled, raced>>

\* A TypeError on a value that is no number ends the thread.
Crash ==
    /\ drv' = "dead"
    /\ DriverOnly /\ UNCHANGED <<direction, nth, loaded>>

\* Mutant: the timeout is compared the wrong way round at its boundary.
CheckAgeMutant ==
    /\ DriverAt("check")
    /\ drv' = IF age > MaxAge THEN "zeroVelocity" ELSE "direction"
    /\ DriverOnly /\ UNCHANGED <<direction, nth, loaded>>

CheckAge ==
    /\ DriverAt("check")
    /\ drv' = IF Stale THEN "zeroVelocity" ELSE "direction"
    /\ DriverOnly /\ UNCHANGED <<direction, nth, loaded>>

ZeroVelocity ==
    /\ DriverAt("zeroVelocity")
    /\ velocity' = 0
    /\ drv' = "zeroSteer"
    /\ UNCHANGED <<carVars, steer, age, handlerVars, direction, nth, loaded, phase, settled, raced>>

ZeroSteer ==
    /\ DriverAt("zeroSteer")
    /\ steer' = 0
    /\ drv' = "direction"
    /\ UNCHANGED <<carVars, velocity, age, handlerVars, direction, nth, loaded, phase, settled, raced>>

ReadSteer ==
    /\ DriverAt("direction")
    /\ \/ /\ steer # NotANumber
          /\ direction' = steer
          /\ drv' = "below"
          /\ DriverOnly /\ UNCHANGED <<nth, loaded>>
       \/ steer = NotANumber /\ Crash

\* The call of Car.drive; its writes follow one by one.
CallDrive(v) ==
    /\ Drive(v, direction)
    /\ drv' = "going"
    /\ UNCHANGED <<sharedVars, handlerVars, direction, nth, loaded, phase, settled, raced>>

\* The dead zone is tested with two reads of the velocity, and a third read
\* gives the velocity to drive with.
TestBelow ==
    /\ DriverAt("below")
    /\ \/ /\ velocity # NotANumber
          /\ drv' = IF velocity < DeadZone THEN "above" ELSE "moving"
          /\ DriverOnly /\ UNCHANGED <<direction, nth, loaded>>
       \/ velocity = NotANumber /\ Crash

TestAbove ==
    /\ DriverAt("above")
    /\ \/ velocity # NotANumber /\ velocity > -DeadZone /\ CallDrive(0)
       \/ /\ velocity # NotANumber /\ velocity <= -DeadZone
          /\ drv' = "moving"
          /\ DriverOnly /\ UNCHANGED <<direction, nth, loaded>>
       \/ velocity = NotANumber /\ Crash

DriveMoving ==
    /\ DriverAt("moving")
    /\ \/ velocity # NotANumber /\ CallDrive(velocity)
       \/ velocity = NotANumber /\ Crash

WritePin ==
    /\ DriverAt("going")
    /\ \/ /\ Write("driver")
          /\ raced' = (raced \/ exited)
          /\ UNCHANGED <<sharedVars, handlerVars, driverVars, phase, settled>>
       \/ /\ ~IsGoing("driver")
          /\ drv' = "neutralize" /\ nth' = 1
          /\ DriverOnly /\ UNCHANGED <<direction, loaded>>

\* On to the next of the four neutralizations; the last one ends the pass.
NextNeutralization ==
    /\ IF nth < 4
       THEN drv' = "neutralize" /\ nth' = nth + 1 /\ UNCHANGED settled
       ELSE /\ drv' = "check" /\ nth' = 1
            /\ settled' = IF settled < 2 THEN settled + 1 ELSE settled
    /\ loaded' = 0
    /\ UNCHANGED <<carVars, age, handlerVars, direction, phase, raced>>

\* "if x < 0: x += rate", "if x > 0: x -= rate", for the velocity and then for
\* the steer.  The rates are 0: the value read is written back in a later step.
Neutralize ==
    LET value == IF nth <= 2 THEN velocity ELSE steer
        applies == IF nth % 2 = 1 THEN value < 0 ELSE value > 0
    IN /\ DriverAt("neutralize")
       /\ \/ /\ value # NotANumber /\ applies
             /\ loaded' = value
             /\ drv' = "storeBack"
             /\ DriverOnly /\ UNCHANGED <<direction, nth>>
          \/ /\ value # NotANumber /\ ~applies
             /\ NextNeutralization
             /\ UNCHANGED <<velocity, steer>>
          \/ value = NotANumber /\ Crash

StoreBack ==
    /\ DriverAt("storeBack")
    /\ IF nth <= 2 THEN velocity' = loaded /\ UNCHANGED steer
                   ELSE steer' = loaded /\ UNCHANGED velocity
    /\ NextNeutralization

Driver ==
    \/ CheckAge \/ ZeroVelocity \/ ZeroSteer \/ ReadSteer
    \/ TestBelow \/ TestAbove \/ DriveMoving \/ WritePin
    \/ Neutralize \/ StoreBack
-----------------------------------------------------------------------------
(* The end of the process. *)

\* Control-C: the main thread leaves the server, also in the middle of a
\* message (KeyboardInterrupt is no Exception), and waits for the threads.
Interrupt ==
    /\ phase = "serving"
    /\ phase' = "joining" /\ handling' = "idle" /\ message' = NoMessage
    /\ UNCHANGED <<carVars, sharedVars, websocket, driverVars, settled, raced>>

InterruptAgain ==
    /\ phase = "joining"
    /\ ExitHandler
    /\ phase' = "exiting"
    /\ UNCHANGED <<sharedVars, handlerVars, driverVars, settled, raced>>

ExitWrite ==
    /\ phase = "exiting"
    /\ Write("exit")
    /\ UNCHANGED <<sharedVars, handlerVars, driverVars, phase, settled, raced>>

\* Mutant: the interpreter does not wait for the atexit handler to return.
FinalizeMutant ==
    /\ phase = "exiting"
    /\ phase' = "ended"
    /\ UNCHANGED <<carVars, sharedVars, handlerVars, driverVars, settled, raced>>

\* The atexit handler has returned; the interpreter ends the other threads.
Finalize ==
    /\ phase = "exiting" /\ ~IsGoing("exit")
    /\ phase' = "ended"
    /\ UNCHANGED <<carVars, sharedVars, handlerVars, driverVars, settled, raced>>

Handler == Stamp \/ StoreVelocity \/ StoreSteer

Next ==
    \/ Tick
    \/ \E path \in Paths : Connect(path)
    \/ \E m \in Messages : Receive(m)
    \/ Handler
    \/ Driver
    \/ Interrupt \/ InterruptAgain \/ ExitWrite \/ Finalize

Spec == Init /\ [][Next]_vars

\* Both threads are runnable whenever they have a next step, and the interpreter
\* switches between them.  Nobody need connect, send or press Control-C.
FairSpec == Spec /\ WF_vars(Driver) /\ WF_vars(Handler) /\ WF_vars(ExitWrite \/ Finalize)
-----------------------------------------------------------------------------
\* What the loop makes of the shared values when nobody interferes.
Effective(v) == IF v < DeadZone /\ v > -DeadZone THEN 0 ELSE v
ShowsCommand(v, d) == \A w \in Wheels : Shows(w, Command(v, d))

\* Once two passes of the loop have ended since anything it reads changed, the
\* wheels show exactly the live values; and when the last command is too old,
\* those are zeros: the car stands.  The passes may have begun before the
\* change, found an older value, skipped a repeated drive, or written an old
\* value back over a newer one.
WheelsFollowLiveValues ==
    settled = 2 /\ ~exited =>
        /\ Stale => velocity = 0 /\ steer = 0
        /\ velocity # NotANumber /\ steer # NotANumber
              => ShowsCommand(Effective(velocity), steer)

\* The atexit handler leaves the car standing, unless the driving thread wrote
\* a pin behind its back.
ExitStops == phase = "ended" => Stopped \/ raced

\* A car that has been driven and then hears nothing stops.  (The loop must be
\* alive: see DeadManAlwaysStops.)
SilenceStops ==
    Stale ~> \/ Stopped /\ velocity = 0
             \/ ~Stale
             \/ phase \in {"exiting", "ended"}
             \/ drv = "dead"

\* "time_of_last_command > 3sec, sending all zeros": whatever was received, the
\* car stops when commands stop.
DeadManAlwaysStops ==
    Stale ~> Stopped \/ ~Stale \/ phase \in {"exiting", "ended"}
=============================================================================
