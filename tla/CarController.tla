---------------------------- MODULE CarController ----------------------------
(***************************************************************************)
(* The motor outputs of the car (repos/car_code/car_controller.py).        *)
(*                                                                         *)
(* Each of the four wheels has a direction pin and a PWM pin.  Car.go      *)
(* spins the wheels one after the other, and each spin sets the direction  *)
(* pin before the duty, so a command reaches the motors in eight writes.   *)
(* Two threads of the process command the wheels without a lock: the loop  *)
(* that drives the car and, when the interpreter exits, the atexit         *)
(* handler.  Their writes interleave.                                      *)
(*                                                                         *)
(* Car.drive halves percentages of percentages.  Speeds are held here as   *)
(* whole multiples of 1 / (2 * Full) percent, which makes its arithmetic   *)
(* exact; the rounding of Python's floats is not modelled.                 *)
(***************************************************************************)
EXTENDS Integers, Sequences

CONSTANTS Full,        \* full throttle and full lock: 100 in the code
          Velocities,  \* the velocities Car.drive may be called with
          Directions   \* the directions Car.drive may be called with

ASSUME FullAssumption == Full \in Nat \ {0}
ASSUME InputAssumption == Velocities \subseteq Int /\ Directions \subseteq Int

VARIABLES toggle,  \* toggle[w]: the direction pin of w is on (backwards)
          duty,    \* duty[w]: the duty cycle of w's PWM pin
          memo,    \* Car.prev_drive_action: the last action, <<>> before any
          going,   \* going[t]: the Car.go call that thread t is executing
          exited   \* the atexit handler has been called

carVars == <<toggle, duty, memo, going, exited>>
-----------------------------------------------------------------------------
Threads == {"driver", "exit"}

\* The order in which Car.go spins the wheels.
WheelOrder == <<"back_left", "front_left", "back_right", "front_right">>
LeftWheels == {"back_left", "front_left"}
Wheels == LeftWheels \cup {"back_right", "front_right"}

Unit == 2 * Full
MaxDuty == Unit * Full

Abs(n) == IF n < 0 THEN -n ELSE n

\* Mutant: the bounds are forgotten.
ClampMutant(n, bound) == n
Clamp(n, bound) == IF n > bound THEN bound ELSE IF n < -bound THEN -bound ELSE n

\* One Car.go call: what each side is to do and the next of its eight writes.
Writes == 8
Idle == [left |-> 0, right |-> 0, next |-> Writes + 1]
Go(left, right) == [left |-> left, right |-> right, next |-> 1]
IsGoing(t) == going[t].next <= Writes

\* The split of a velocity that Car.drive computes, both sides as magnitudes.
SlowSpeed(v, d) == (Full - Abs(d)) * Abs(v)

FastSpeed(v, d) == Unit * Abs(v) - SlowSpeed(v, d)

\* The Car.go call that Car.drive makes for a velocity and a direction.
Command(velocity, direction) ==
    IF velocity = 0 THEN Go(0, 0)
    ELSE LET v == Clamp(velocity, Full)
             d == Clamp(direction, Full)
             slow == IF v < 0 THEN -SlowSpeed(v, d) ELSE SlowSpeed(v, d)
             fast == IF v < 0 THEN -FastSpeed(v, d) ELSE FastSpeed(v, d)
         IN IF d < 0 THEN Go(slow, fast) ELSE Go(fast, slow)

\* The speed a Car.go call asks of a wheel, after the clamp in Wheel.spin.
SpeedOf(call, w) == Clamp(IF w \in LeftWheels THEN call.left ELSE call.right, MaxDuty)
-----------------------------------------------------------------------------
CarTypeOK ==
    /\ toggle \in [Wheels -> BOOLEAN]
    /\ duty \in [Wheels -> 0 .. MaxDuty]
    /\ memo \in (Velocities \X Directions) \cup {<<>>}
    /\ going \in [Threads -> [left : Int, right : Int, next : 1 .. Writes + 1]]
    /\ exited \in BOOLEAN

\* Importing the module sets up the pins: level low and duty 0.
CarInit ==
    /\ toggle = [w \in Wheels |-> FALSE]
    /\ duty = [w \in Wheels |-> 0]
    /\ memo = <<>>
    /\ going = [t \in Threads |-> Idle]
    /\ exited = FALSE

\* Mutant: only the velocity decides whether the action is the previous one.
DriveMutant(velocity, direction) ==
    /\ ~IsGoing("driver")
    /\ IF memo # <<>> /\ memo[1] = velocity
       THEN memo' = <<velocity, direction>> /\ UNCHANGED <<toggle, duty, going, exited>>
       ELSE /\ memo' = <<velocity, direction>>
            /\ going' = [going EXCEPT !["driver"] = Command(velocity, direction)]
            /\ UNCHANGED <<toggle, duty, exited>>

\* Car.drive: nothing when the action is the previous one; otherwise it is
\* remembered first and then written out.
Drive(velocity, direction) ==
    LET action == <<velocity, direction>>
    IN /\ ~IsGoing("driver")
       /\ IF memo = action
          THEN UNCHANGED carVars
          ELSE /\ memo' = action
               /\ going' = [going EXCEPT !["driver"] = Command(velocity, direction)]
               /\ UNCHANGED <<toggle, duty, exited>>

\* The atexit handler: Car.go(0, 0) behind the back of Car.drive's memo.
ExitHandler ==
    /\ ~exited
    /\ exited' = TRUE
    /\ going' = [going EXCEPT !["exit"] = Go(0, 0)]
    /\ UNCHANGED <<toggle, duty, memo>>

\* The next write of the Car.go call that t is executing: the direction pin of
\* a wheel in the odd writes, its duty in the even ones.
Write(t) ==
    LET k == going[t].next
        w == WheelOrder[(k + 1) \div 2]
        speed == SpeedOf(going[t], w)
    IN /\ IsGoing(t)
       /\ IF k % 2 = 1
          THEN toggle' = [toggle EXCEPT ![w] = speed < 0] /\ UNCHANGED duty
          ELSE duty' = [duty EXCEPT ![w] = Abs(speed)] /\ UNCHANGED toggle
       /\ going' = [going EXCEPT ![t].next = k + 1]
       /\ UNCHANGED <<memo, exited>>

CarNext ==
    \/ \E v \in Velocities, d \in Directions : Drive(v, d)
    \/ ExitHandler
    \/ \E t \in Threads : Write(t)

CarSpec == CarInit /\ [][CarNext]_carVars
-----------------------------------------------------------------------------
\* The velocity of a wheel as the motor sees it.
Speed(w) == IF toggle[w] THEN -duty[w] ELSE duty[w]
Stopped == \A w \in Wheels : duty[w] = 0

\* The pins of a wheel show what a Car.go call asks of it.
Shows(w, call) ==
    /\ duty[w] = Abs(SpeedOf(call, w))
    /\ toggle[w] = (SpeedOf(call, w) < 0)

Undisturbed == ~exited /\ ~IsGoing("driver")

\* Between two drives, and until the atexit handler runs, all four wheels show
\* the remembered action: skipping a repeated Car.drive (the early return on
\* prev_drive_action) never leaves the motors with another command.
MemoMatchesPins ==
    Undisturbed => \A w \in Wheels :
        IF memo = <<>> THEN duty[w] = 0 /\ ~toggle[w]
        ELSE Shows(w, Command(memo[1], memo[2]))

\* "split the velocity between the two halves": when the car moves, the duties
\* of the two sides add up to the clamped velocity, all wheels turn the way its
\* sign says, and the side the direction points to ("negative direction means
\* left") is never the faster one.
VelocityIsSplit ==
    Undisturbed /\ memo # <<>> =>
        LET v == Clamp(memo[1], Full)
        IN \A l \in LeftWheels, r \in Wheels \ LeftWheels :
            /\ Speed(l) + Speed(r) = Unit * v
            /\ v > 0 => Speed(l) >= 0 /\ Speed(r) >= 0
            /\ v < 0 => Speed(l) <= 0 /\ Speed(r) <= 0
            /\ memo[2] < 0 => duty[l] <= duty[r]
            /\ memo[2] > 0 => duty[r] <= duty[l]

\* Also in the middle of a command, and while the atexit handler interleaves
\* with a drive, a wheel never gets a duty beyond what the largest velocity
\* allows (ChangeDutyCycle raises ValueError above 100), and no wheel turns at
\* all before the first drive.
DutyWithinCommand ==
    /\ \A w \in Wheels : duty[w] \in 0 .. MaxDuty
    /\ memo = <<>> => Stopped

-----------------------------------------------------------------------------
\* The inductive strengthening: what each thread is writing, and that every
\* write already made still stands until the atexit handler runs.
Target == IF memo = <<>> THEN Idle ELSE Command(memo[1], memo[2])

WrittenSoFar ==
    LET call == going["driver"]
    IN \A n \in 1 .. Len(WheelOrder) :
        LET w == WheelOrder[n]
        IN /\ call.next > 2 * n - 1 => toggle[w] = (SpeedOf(call, w) < 0)
           /\ call.next > 2 * n => duty[w] = Abs(SpeedOf(call, w))

CarInv ==
    /\ CarTypeOK
    /\ going["exit"].left = 0 /\ going["exit"].right = 0
    /\ going["driver"].left = Target.left /\ going["driver"].right = Target.right
    /\ memo = <<>> => Stopped
    /\ ~exited => WrittenSoFar /\ ~IsGoing("exit")
=============================================================================
