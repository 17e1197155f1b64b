------------------------- MODULE DriveListener_proofs -------------------------
(***************************************************************************)
(* Proofs about the process on the car, for every Full, dead zone, timeout *)
(* and every set of velocities, directions and messages.  The first part   *)
(* is about CarController alone, whose inductive invariant is CarInv; the  *)
(* second shows that the process takes steps of CarController only, and    *)
(* proves what its two threads make of the live values.  The last part is  *)
(* about ListenerRestart: for any number of processes, however many of     *)
(* them start at once, who has the port, who moves the car, and what a     *)
(* start leaves of the others.                                             *)
(***************************************************************************)
EXTENDS DriveListener, ListenerRestart, TLAPS

(* The motor outputs. *)

\* Facts about the arithmetic of Car.drive.

LEMMA ClampBounds ==
    ASSUME NEW n \in Int, NEW b \in Nat
    PROVE  /\ Clamp(n, b) \in -b .. b
           /\ n \in -b .. b => Clamp(n, b) = n
           /\ n > 0 => Clamp(n, b) >= 0
           /\ n < 0 => Clamp(n, b) <= 0
BY DEF Clamp

LEMMA AbsNat == ASSUME NEW n \in Int PROVE Abs(n) \in Nat
BY DEF Abs

LEMMA ProductBounds ==
    ASSUME NEW a \in Nat, NEW b \in Nat, NEW c \in Nat, a <= c
    PROVE  a * b \in Nat /\ a * b <= c * b
<1>1. a * b \in Nat
  OBVIOUS
<1>2. c * b - a * b = (c - a) * b /\ (c - a) * b \in Nat
  BY SMT
<1>. QED
  BY <1>1, <1>2, SMT

LEMMA MaxDutyNat == MaxDuty \in Nat /\ Unit \in Nat
BY FullAssumption DEF MaxDuty, Unit

\* The slow side never exceeds the fast one, and neither leaves the range of a
\* duty: the clamp in Wheel.spin never binds on what Car.drive computes.
LEMMA SplitBounds ==
    ASSUME NEW v \in -Full .. Full, NEW d \in -Full .. Full
    PROVE  /\ SlowSpeed(v, d) \in 0 .. MaxDuty
           /\ FastSpeed(v, d) \in 0 .. MaxDuty
           /\ SlowSpeed(v, d) <= FastSpeed(v, d)
           /\ SlowSpeed(v, d) + FastSpeed(v, d) = Unit * Abs(v)
<1>. DEFINE s == SlowSpeed(v, d)
<1>1. Full \in Nat /\ Abs(v) \in 0 .. Full /\ Full - Abs(d) \in 0 .. Full
  BY FullAssumption DEF Abs
<1>2. s \in Nat /\ s <= Full * Abs(v)
  BY <1>1, ProductBounds DEF SlowSpeed
<1>3. Full * Abs(v) \in Nat /\ Full * Abs(v) <= Full * Full
  <2>1. Abs(v) * Full \in Nat /\ Abs(v) * Full <= Full * Full
    BY <1>1, ProductBounds
  <2>. QED
    BY <2>1, <1>1, SMT
<1>4. Unit * Abs(v) = 2 * (Full * Abs(v)) /\ MaxDuty = 2 * (Full * Full)
  BY <1>1, SMT DEF Unit, MaxDuty
<1>5. FastSpeed(v, d) = 2 * (Full * Abs(v)) - s
  BY <1>4 DEF FastSpeed
<1>. HIDE DEF s
<1>6. Full * Full \in Nat
  BY <1>1
<1>7. /\ s \in 0 .. MaxDuty
      /\ FastSpeed(v, d) \in 0 .. MaxDuty
      /\ s <= FastSpeed(v, d)
      /\ s + FastSpeed(v, d) = Unit * Abs(v)
  BY <1>2, <1>3, <1>4, <1>5, <1>6, SMT
<1>. QED
  BY <1>7 DEF s

LEMMA CommandType ==
    ASSUME NEW v \in Int, NEW d \in Int
    PROVE  Command(v, d) \in [left : -MaxDuty .. MaxDuty, right : -MaxDuty .. MaxDuty,
                              next : {1}]
<1>1. Full \in Nat
  BY FullAssumption
<1>. DEFINE cv == Clamp(v, Full)
            cd == Clamp(d, Full)
<1>2. cv \in -Full .. Full /\ cd \in -Full .. Full
  BY <1>1, ClampBounds
<1>3. SlowSpeed(cv, cd) \in 0 .. MaxDuty /\ FastSpeed(cv, cd) \in 0 .. MaxDuty
  BY <1>2, SplitBounds
<1>4. MaxDuty \in Nat
  BY MaxDutyNat
<1>. HIDE DEF cv, cd
<1>5. CASE v = 0
  BY <1>4, <1>5 DEF Command, Go
<1>6. CASE v # 0
  BY <1>3, <1>4, <1>6 DEF Command, Go, cv, cd
<1>. QED
  BY <1>5, <1>6
-----------------------------------------------------------------------------
LEMMA SpeedType ==
    ASSUME NEW call, call.left \in Int, call.right \in Int, NEW w \in Wheels
    PROVE  SpeedOf(call, w) \in Int /\ Abs(SpeedOf(call, w)) \in 0 .. MaxDuty
<1>. DEFINE side == IF w \in LeftWheels THEN call.left ELSE call.right
<1>1. side \in Int
  OBVIOUS
<1>2. Clamp(side, MaxDuty) \in -MaxDuty .. MaxDuty
  BY <1>1, MaxDutyNat, ClampBounds
<1>3. SpeedOf(call, w) = Clamp(side, MaxDuty)
  BY DEF SpeedOf
<1>. HIDE DEF side
<1>. QED
  BY <1>2, <1>3, MaxDutyNat DEF Abs

LEMMA ZeroSpeed ==
    ASSUME NEW call, call.left = 0, call.right = 0, NEW w \in Wheels
    PROVE  SpeedOf(call, w) = 0
BY MaxDutyNat DEF SpeedOf, Clamp

LEMMA WheelOrderFacts ==
    /\ Len(WheelOrder) = 4
    /\ \A n \in 1 .. 4 : WheelOrder[n] \in Wheels
    /\ \A m, n \in 1 .. 4 : WheelOrder[m] = WheelOrder[n] => m = n
    /\ \A w \in Wheels : \E n \in 1 .. 4 : w = WheelOrder[n]
BY DEF WheelOrder, Wheels, LeftWheels

\* The write numbered k is the direction of wheel n when k = 2n - 1 and the
\* duty of wheel n when k = 2n.
LEMMA WriteIndex ==
    ASSUME NEW k \in 1 .. Writes
    PROVE  /\ (k + 1) \div 2 \in 1 .. 4
           /\ k % 2 = 1 => k = 2 * ((k + 1) \div 2) - 1
           /\ k % 2 # 1 => k = 2 * ((k + 1) \div 2)
BY DEF Writes

LEMMA CarInit_CarInv == CarInit => CarInv
<1>. SUFFICES ASSUME CarInit PROVE CarInv
  OBVIOUS
<1>1. CarTypeOK
  <2>1. Idle \in [left : Int, right : Int, next : 1 .. Writes + 1]
    BY DEF Idle, Writes
  <2>2. 0 \in 0 .. MaxDuty
    BY MaxDutyNat
  <2>. QED
    BY <2>1, <2>2 DEF CarInit, CarTypeOK
<1>2. WrittenSoFar
  <2>1. going["driver"] = Idle /\ Idle.left = 0 /\ Idle.right = 0
    BY DEF CarInit, Idle, Threads
  <2>2. \A w \in Wheels : SpeedOf(Idle, w) = 0 /\ Abs(SpeedOf(Idle, w)) = 0
    BY <2>1, ZeroSpeed DEF Abs
  <2>3. \A w \in Wheels : toggle[w] = FALSE /\ duty[w] = 0
    BY DEF CarInit
  <2>4. ASSUME NEW w \in Wheels
        PROVE  toggle[w] = (SpeedOf(Idle, w) < 0) /\ duty[w] = Abs(SpeedOf(Idle, w))
    <3>1. (SpeedOf(Idle, w) < 0) = FALSE
      BY <2>2
    <3>. QED
      BY <2>2, <2>3, <3>1, Zenon
  <2>5. \A n \in 1 .. Len(WheelOrder) : WheelOrder[n] \in Wheels
    BY WheelOrderFacts
  <2>. QED
    BY <2>1, <2>4, <2>5, Zenon DEF WrittenSoFar
<1>. QED
  BY <1>1, <1>2 DEF CarInit, CarInv, Target, Idle, Threads, Stopped, IsGoing, Writes

LEMMA Drive_CarInv ==
    ASSUME CarInv, NEW v \in Velocities, NEW d \in Directions, Drive(v, d)
    PROVE  CarInv'
<1>1. CASE memo = <<v, d>>
  BY <1>1 DEF Drive, carVars, CarInv, CarTypeOK, Target, Stopped, WrittenSoFar, IsGoing
<1>2. CASE memo # <<v, d>>
  <2>. DEFINE call == Command(v, d)
  <2>1. /\ memo' = <<v, d>> /\ UNCHANGED <<toggle, duty, exited>>
        /\ going' = [going EXCEPT !["driver"] = call]
    BY <1>2 DEF Drive
  <2>2. /\ call \in [left : Int, right : Int, next : 1 .. Writes + 1]
        /\ call.next = 1
    BY CommandType, InputAssumption, MaxDutyNat DEF Writes
  <2>3. going'["driver"] = call /\ going'["exit"] = going["exit"]
    BY <2>1 DEF CarInv, CarTypeOK, Threads
  <2>4. Target' = call /\ memo' # <<>>
    BY <2>1 DEF Target
  <2>. HIDE DEF call
  <2>5. CarTypeOK'
    BY <2>1, <2>2 DEF CarInv, CarTypeOK
  <2>6. WrittenSoFar'
    BY <2>2, <2>3, WheelOrderFacts DEF WrittenSoFar
  <2>. QED
    BY <2>1, <2>3, <2>4, <2>5, <2>6 DEF CarInv, IsGoing
<1>. QED
  BY <1>1, <1>2

LEMMA ExitHandler_CarInv ==
    ASSUME CarInv, ExitHandler
    PROVE  CarInv'
<1>1. /\ exited' = TRUE /\ UNCHANGED <<toggle, duty, memo>>
      /\ going' = [going EXCEPT !["exit"] = Go(0, 0)]
  BY DEF ExitHandler
<1>2. going'["exit"] = Go(0, 0) /\ going'["driver"] = going["driver"]
  BY <1>1 DEF CarInv, CarTypeOK, Threads
<1>3. CarTypeOK'
  <2>1. Go(0, 0) \in [left : Int, right : Int, next : 1 .. Writes + 1]
    BY DEF Go, Writes
  <2>. QED
    BY <1>1, <2>1 DEF CarInv, CarTypeOK
<1>. QED
  BY <1>1, <1>2, <1>3 DEF CarInv, Target, Go, Stopped

LEMMA Write_CarInv ==
    ASSUME CarInv, NEW t \in Threads, Write(t)
    PROVE  CarInv'
<1>. DEFINE k == going[t].next
            n == (k + 1) \div 2
            w == WheelOrder[n]
            speed == SpeedOf(going[t], w)
<1>1. /\ k \in 1 .. Writes
      /\ going[t].left \in Int /\ going[t].right \in Int
  BY DEF Write, IsGoing, CarInv, CarTypeOK, Writes
<1>2. n \in 1 .. 4 /\ w \in Wheels
  BY <1>1, WriteIndex, WheelOrderFacts
<1>3. speed \in Int /\ Abs(speed) \in 0 .. MaxDuty
  BY <1>1, <1>2, SpeedType
<1>4. /\ k % 2 = 1 => toggle' = [toggle EXCEPT ![w] = speed < 0] /\ UNCHANGED duty
      /\ k % 2 # 1 => duty' = [duty EXCEPT ![w] = Abs(speed)] /\ UNCHANGED toggle
      /\ going' = [going EXCEPT ![t].next = k + 1]
      /\ UNCHANGED <<memo, exited>>
  BY DEF Write
<1>5. /\ k % 2 = 1 => k = 2 * n - 1
      /\ k % 2 # 1 => k = 2 * n
  BY <1>1, WriteIndex
<1>6. memo = <<>> => speed = 0
  <2>1. memo = <<>> => going[t].left = 0 /\ going[t].right = 0
    BY DEF CarInv, Target, Idle, Threads
  <2>. QED
    BY <1>2, <2>1, ZeroSpeed
<1>. HIDE DEF speed, w, n
<1>7. CarTypeOK'
  <2>1. toggle' \in [Wheels -> BOOLEAN] /\ duty' \in [Wheels -> 0 .. MaxDuty]
    <3>1. CASE k % 2 = 1
      <4>1. (speed < 0) \in BOOLEAN
        OBVIOUS
      <4>. QED
        BY <1>4, <3>1, <4>1, Zenon DEF CarInv, CarTypeOK
    <3>2. CASE k % 2 # 1
      BY <1>2, <1>3, <1>4, <3>2 DEF CarInv, CarTypeOK
    <3>. QED
      BY <3>1, <3>2
  <2>2. going' \in [Threads -> [left : Int, right : Int, next : 1 .. Writes + 1]]
    <3>1. going \in [Threads -> [left : Int, right : Int, next : 1 .. Writes + 1]]
      BY DEF CarInv, CarTypeOK
    <3>2. k + 1 \in 1 .. Writes + 1
      BY <1>1 DEF Writes
    <3>3. [going[t] EXCEPT !.next = k + 1] \in [left : Int, right : Int, next : 1 .. Writes + 1]
      <4>. HIDE DEF k
      <4>. QED
        BY <3>1, <3>2
    <3>. QED
      BY <1>4, <3>1, <3>3
  <2>. QED
    BY <1>4, <2>1, <2>2 DEF CarInv, CarTypeOK
<1>8. \A u \in Threads : /\ going'[u].left = going[u].left
                         /\ going'[u].right = going[u].right
                         /\ u # t => going'[u] = going[u]
                         /\ u = t => going'[u].next = k + 1
  BY <1>4 DEF CarInv, CarTypeOK
<1>9. (memo = <<>> => Stopped)'
  BY <1>2, <1>4, <1>6 DEF CarInv, CarTypeOK, Stopped, Abs
<1>10. Target' = Target
  BY <1>4 DEF Target
<1>11. CASE t = "exit"
  <2>1. exited /\ exited'
    BY <1>4, <1>11 DEF CarInv, Write, CarTypeOK
  <2>. QED
    BY <1>7, <1>8, <1>9, <1>10, <2>1 DEF CarInv, Threads
<1>12. CASE t = "driver"
  <2>. SUFFICES ASSUME ~exited PROVE WrittenSoFar' /\ ~IsGoing("exit")'
    BY <1>4, <1>7, <1>8, <1>9, <1>10 DEF CarInv, Threads
  <2>1. ~IsGoing("exit")'
    BY <1>8, <1>12 DEF CarInv, IsGoing, Threads
  <2>2. \A u \in Wheels : SpeedOf(going'[t], u) = SpeedOf(going[t], u)
    BY <1>8 DEF SpeedOf
  <2>3. ASSUME NEW m \in 1 .. 4
        PROVE  LET call == going'["driver"]
                   u == WheelOrder[m]
               IN /\ call.next > 2 * m - 1 => toggle'[u] = (SpeedOf(call, u) < 0)
                  /\ call.next > 2 * m => duty'[u] = Abs(SpeedOf(call, u))
    <3>. DEFINE u == WheelOrder[m]
    <3>1. u \in Wheels /\ (u = w => m = n)
      BY <1>2, WheelOrderFacts DEF w
    <3>2. /\ k > 2 * m - 1 => toggle[u] = (SpeedOf(going[t], u) < 0)
          /\ k > 2 * m => duty[u] = Abs(SpeedOf(going[t], u))
      BY <1>12, WheelOrderFacts DEF CarInv, WrittenSoFar
    <3>3. going'[t].next = k + 1
      BY <1>8
    <3>4. w = WheelOrder[n] /\ speed = SpeedOf(going[t], w)
      BY DEF w, speed
    <3>5. CASE k + 1 > 2 * m - 1
      <4>1. toggle'[u] = (SpeedOf(going[t], u) < 0)
        <5>1. CASE k > 2 * m - 1
          BY <1>1, <1>2, <1>4, <1>5, <3>1, <3>2, <5>1 DEF CarInv, CarTypeOK, speed
        <5>2. CASE k = 2 * m - 1
          <6>1. k % 2 = 1 /\ n = m
            <7>. HIDE DEF k, u
            <7>. QED
              BY <1>2, <1>5, <5>2
          <6>. QED
            BY <1>2, <1>4, <3>4, <6>1 DEF CarInv, CarTypeOK
        <5>. QED
          BY <1>1, <3>5, <5>1, <5>2
      <4>2. k + 1 > 2 * m => duty'[u] = Abs(SpeedOf(going[t], u))
        <5>1. CASE k > 2 * m
          BY <1>1, <1>2, <1>4, <1>5, <3>1, <3>2, <5>1 DEF CarInv, CarTypeOK, speed
        <5>2. CASE k = 2 * m
          <6>1. k % 2 # 1 /\ n = m
            BY <1>1, <1>2, <1>5, <5>2
          <6>. QED
            BY <1>2, <1>4, <3>4, <6>1 DEF CarInv, CarTypeOK
        <5>. QED
          BY <1>1, <5>1, <5>2
      <4>. QED
        BY <1>12, <2>2, <3>1, <3>3, <4>1, <4>2
    <3>6. CASE ~(k + 1 > 2 * m - 1)
      BY <1>1, <1>12, <3>3, <3>6
    <3>. QED
      BY <3>5, <3>6
  <2>. QED
    BY <2>1, <2>3, WheelOrderFacts DEF WrittenSoFar
<1>. QED
  BY <1>11, <1>12 DEF Threads

LEMMA CarNext_CarInv == CarInv /\ [CarNext]_carVars => CarInv'
<1>. SUFFICES ASSUME CarInv, [CarNext]_carVars PROVE CarInv'
  OBVIOUS
<1>1. CASE \E v \in Velocities, d \in Directions : Drive(v, d)
  BY <1>1, Drive_CarInv
<1>2. CASE ExitHandler
  BY <1>2, ExitHandler_CarInv
<1>3. CASE \E t \in Threads : Write(t)
  BY <1>3, Write_CarInv
<1>4. CASE UNCHANGED carVars
  BY <1>4 DEF carVars, CarInv, CarTypeOK, Target, Stopped, WrittenSoFar, IsGoing
<1>. QED
  BY <1>1, <1>2, <1>3, <1>4 DEF CarNext

\* Every pin, the memo and every pending write keep their types.
THEOREM CarTypeCorrect == CarSpec => []CarTypeOK
<1>1. CarInv => CarTypeOK
  BY DEF CarInv
<1>. QED
  BY CarInit_CarInv, CarNext_CarInv, <1>1, PTL DEF CarSpec

LEMMA CarInv_DutyWithinCommand == CarInv => DutyWithinCommand
BY DEF CarInv, CarTypeOK, DutyWithinCommand

LEMMA CarInv_MemoMatchesPins == CarInv => MemoMatchesPins
<1>. SUFFICES ASSUME CarInv, Undisturbed, NEW w \in Wheels
              PROVE  IF memo = <<>> THEN duty[w] = 0 /\ ~toggle[w]
                     ELSE Shows(w, Command(memo[1], memo[2]))
  BY DEF MemoMatchesPins
<1>. DEFINE call == going["driver"]
<1>1. /\ call.next = 9 /\ WrittenSoFar
      /\ call.left = Target.left /\ call.right = Target.right
  BY DEF Undisturbed, IsGoing, CarInv, CarTypeOK, Threads, Writes
<1>2. PICK n \in 1 .. 4 : w = WheelOrder[n]
  BY WheelOrderFacts
<1>3. toggle[w] = (SpeedOf(call, w) < 0) /\ duty[w] = Abs(SpeedOf(call, w))
  BY <1>1, <1>2, WheelOrderFacts DEF WrittenSoFar
<1>4. SpeedOf(call, w) = SpeedOf(Target, w)
  BY <1>1 DEF SpeedOf
<1>5. CASE memo = <<>>
  <2>1. SpeedOf(call, w) = 0
    BY <1>1, <1>5, ZeroSpeed DEF Target, Idle
  <2>2. (SpeedOf(call, w) < 0) = FALSE /\ Abs(SpeedOf(call, w)) = 0
    BY <2>1 DEF Abs
  <2>. QED
    BY <1>3, <1>5, <2>2, Zenon
<1>6. CASE memo # <<>>
  BY <1>3, <1>4, <1>6, Zenon DEF Shows, Target
<1>. QED
  BY <1>5, <1>6

LEMMA CarInv_VelocityIsSplit == CarInv => VelocityIsSplit
<1>. SUFFICES ASSUME CarInv, Undisturbed, memo # <<>>,
                     NEW l \in LeftWheels, NEW r \in Wheels \ LeftWheels
              PROVE  LET v == Clamp(memo[1], Full)
                     IN /\ Speed(l) + Speed(r) = Unit * v
                        /\ v > 0 => Speed(l) >= 0 /\ Speed(r) >= 0
                        /\ v < 0 => Speed(l) <= 0 /\ Speed(r) <= 0
                        /\ memo[2] < 0 => duty[l] <= duty[r]
                        /\ memo[2] > 0 => duty[r] <= duty[l]
  BY DEF VelocityIsSplit
<1>. DEFINE call == Command(memo[1], memo[2])
            v == Clamp(memo[1], Full)
            d == Clamp(memo[2], Full)
<1>1. memo[1] \in Int /\ memo[2] \in Int
  BY InputAssumption DEF CarInv, CarTypeOK
<1>2. l \in Wheels /\ Shows(l, call) /\ Shows(r, call)
  BY CarInv_MemoMatchesPins DEF MemoMatchesPins, Wheels
<1>0. Full \in Nat /\ Full > 0
  BY FullAssumption
<1>3. /\ v \in -Full .. Full /\ d \in -Full .. Full
      /\ memo[1] = 0 => v = 0
      /\ memo[2] > 0 => d >= 0
      /\ memo[2] < 0 => d <= 0
  BY <1>1, <1>0, ClampBounds DEF Clamp
<1>4. /\ memo[1] > 0 => v > 0
      /\ memo[1] < 0 => v < 0
      /\ memo[2] < 0 => d < 0
  BY <1>1, <1>0 DEF Clamp
<1>5. call.left \in -MaxDuty .. MaxDuty /\ call.right \in -MaxDuty .. MaxDuty
  BY <1>1, CommandType
<1>6. SpeedOf(call, l) = call.left /\ SpeedOf(call, r) = call.right
  <2>. HIDE DEF call
  <2>1. Clamp(call.left, MaxDuty) = call.left /\ Clamp(call.right, MaxDuty) = call.right
    <3>1. call.left \in Int /\ call.right \in Int /\ MaxDuty \in Nat
      BY <1>5, MaxDutyNat
    <3>. QED
      BY <1>5, <3>1, ClampBounds
  <2>. QED
    BY <2>1 DEF SpeedOf
<1>7. Speed(l) = call.left /\ duty[l] = Abs(call.left)
  <2>1. duty[l] = Abs(call.left) /\ toggle[l] = (call.left < 0)
    BY <1>2, <1>6 DEF Shows
  <2>2. CASE call.left < 0
    <3>1. Speed(l) = -duty[l]
      BY <2>1, <2>2, Zenon DEF Speed
    <3>. QED
      BY <1>5, <2>1, <2>2, <3>1, MaxDutyNat DEF Abs
  <2>3. CASE ~(call.left < 0)
    <3>1. Speed(l) = duty[l]
      BY <2>1, <2>3, Zenon DEF Speed
    <3>. QED
      BY <1>5, <2>1, <2>3, <3>1, MaxDutyNat DEF Abs
  <2>. HIDE DEF call
  <2>. QED
    BY <2>2, <2>3
<1>8. Speed(r) = call.right /\ duty[r] = Abs(call.right)
  <2>1. duty[r] = Abs(call.right) /\ toggle[r] = (call.right < 0)
    BY <1>2, <1>6 DEF Shows
  <2>2. CASE call.right < 0
    <3>1. Speed(r) = -duty[r]
      BY <2>1, <2>2, Zenon DEF Speed
    <3>. QED
      BY <1>5, <2>1, <2>2, <3>1, MaxDutyNat DEF Abs
  <2>3. CASE ~(call.right < 0)
    <3>1. Speed(r) = duty[r]
      BY <2>1, <2>3, Zenon DEF Speed
    <3>. QED
      BY <1>5, <2>1, <2>3, <3>1, MaxDutyNat DEF Abs
  <2>. HIDE DEF call
  <2>. QED
    BY <2>2, <2>3
<1>9. /\ SlowSpeed(v, d) \in Nat /\ FastSpeed(v, d) \in Nat
      /\ SlowSpeed(v, d) <= FastSpeed(v, d)
      /\ SlowSpeed(v, d) + FastSpeed(v, d) = Unit * Abs(v)
  BY <1>3, SplitBounds, MaxDutyNat
<1>10. CASE memo[1] = 0
  <2>1. v = 0 /\ call.left = 0 /\ call.right = 0
    BY <1>3, <1>10 DEF Command, Go
  <2>2. Unit * v = 0
    BY <2>1, MaxDutyNat
  <2>. QED
    BY <1>7, <1>8, <2>1, <2>2 DEF Abs
<1>11. CASE memo[1] # 0
  <2>. DEFINE slow == IF v < 0 THEN -SlowSpeed(v, d) ELSE SlowSpeed(v, d)
              fast == IF v < 0 THEN -FastSpeed(v, d) ELSE FastSpeed(v, d)
  <2>1. /\ call.left = IF d < 0 THEN slow ELSE fast
        /\ call.right = IF d < 0 THEN fast ELSE slow
    BY <1>11 DEF Command, Go
  <2>2. slow \in Int /\ fast \in Int /\ Abs(slow) <= Abs(fast)
    BY <1>9 DEF Abs
  <2>3. slow + fast = Unit * v
    <3>1. v < 0 => Unit * v = -(Unit * Abs(v))
      BY <1>3, MaxDutyNat, FullAssumption DEF Abs
    <3>2. ~(v < 0) => Unit * v = Unit * Abs(v)
      BY DEF Abs
    <3>. QED
      BY <1>9, <3>1, <3>2
  <2>4. /\ v > 0 => slow >= 0 /\ fast >= 0
        /\ v < 0 => slow <= 0 /\ fast <= 0
    BY <1>3, <1>9
  <2>. HIDE DEF slow, fast, call, v, d
  <2>5. memo[2] < 0 => d < 0
    BY <1>4
  <2>6. memo[2] > 0 => ~(d < 0)
    BY <1>3, FullAssumption
  <2>7. Speed(l) + Speed(r) = Unit * v
    BY <1>7, <1>8, <2>1, <2>2, <2>3
  <2>8. /\ v > 0 => Speed(l) >= 0 /\ Speed(r) >= 0
        /\ v < 0 => Speed(l) <= 0 /\ Speed(r) <= 0
    BY <1>7, <1>8, <2>1, <2>4
  <2>9. /\ memo[2] < 0 => duty[l] <= duty[r]
        /\ memo[2] > 0 => duty[r] <= duty[l]
    BY <1>7, <1>8, <2>1, <2>2, <2>5, <2>6
  <2>. QED
    BY <2>7, <2>8, <2>9 DEF v
<1>. QED
  BY <1>1, <1>10, <1>11

\* Skipping a repeated Car.drive never leaves the motors with another command,
\* however the eight writes of a drive fall.
THEOREM MemoAlwaysMatchesPins == CarSpec => []MemoMatchesPins
BY CarInit_CarInv, CarNext_CarInv, CarInv_MemoMatchesPins, PTL DEF CarSpec

\* For every Full and every command the four wheels share the clamped velocity
\* out between the two sides, in its direction, the inner side the slower.
THEOREM VelocityAlwaysSplit == CarSpec => []VelocityIsSplit
BY CarInit_CarInv, CarNext_CarInv, CarInv_VelocityIsSplit, PTL DEF CarSpec

\* No wheel ever gets a duty outside the range ChangeDutyCycle accepts, in the
\* middle of a drive or of the atexit handler included.
THEOREM DutyAlwaysWithinCommand == CarSpec => []DutyWithinCommand
BY CarInit_CarInv, CarNext_CarInv, CarInv_DutyWithinCommand, PTL DEF CarSpec
-----------------------------------------------------------------------------
(* The process on the car.  Its invariant says where the two threads and the *)
(* end of the process can be together.                                       *)

\* A message is handled only while the process serves; every message has both
\* members, a number or none.
HandlingInv ==
    /\ handling # "idle" => phase = "serving" /\ message \in Messages
    /\ exited <=> phase \in {"exiting", "ended"}

\* A drive is written out before the loop goes on.
GoingInv ==
    /\ IsGoing("driver") => drv = "going"
    /\ drv \notin {"neutralize", "storeBack", "dead"} => nth = 1

\* What the atexit handler has written stands, unless the loop has written too.
ExitInv ==
    /\ exited /\ ~raced =>
           \A n \in 1 .. 4 : going["exit"].next > 2 * n => duty[WheelOrder[n]] = 0
    /\ phase = "ended" => ~IsGoing("exit")

\* What a pass of the loop that began after the last change has found.
Zeroing == {"zeroVelocity", "zeroSteer"}
Turned == {"below", "above", "moving", "going", "neutralize", "storeBack"}
Driven == {"going", "neutralize", "storeBack"}
Quiet == Stale => velocity = 0 /\ steer = 0
DrivesLiveValues ==
    /\ velocity \in Velocities /\ steer \in Directions
    /\ memo = <<Effective(velocity), steer>>

PassInv ==
    settled >= 1 =>
        /\ drv \in Zeroing => Stale
        /\ drv = "zeroSteer" => velocity = 0
        /\ drv \in Turned \cup {"direction"} => Quiet
        /\ drv \in Turned => steer = direction
        /\ drv = "above" => velocity \in Velocities /\ velocity < DeadZone
        /\ drv = "moving" => velocity \in Velocities /\ Effective(velocity) = velocity
        /\ drv \in Driven => DrivesLiveValues
        /\ drv = "storeBack" => loaded = IF nth <= 2 THEN velocity ELSE steer

\* Two passes later the car is driven with the live values, and no write is left.
SettledInv == settled = 2 => Quiet /\ DrivesLiveValues /\ ~IsGoing("driver")

ListenerInv ==
    TypeOK /\ CarInv /\ HandlingInv /\ GoingInv /\ ExitInv /\ PassInv /\ SettledInv
-----------------------------------------------------------------------------
\* What the sets of numbers are.
LEMMA Numbers ==
    /\ DeadZone \in Nat /\ DeadZone > 0 /\ Timeout \in Nat
    /\ Velocities \subseteq Int /\ Directions \subseteq Int
    /\ 0 \in Velocities /\ 0 \in Directions
    /\ NotANumber \notin Velocities /\ NotANumber \notin Directions
<1>1. /\ DeadZone \in Nat \ {0} /\ Timeout \in Nat /\ NotANumber \notin Int
      /\ 0 \in Velocities /\ 0 \in Directions
  BY ListenerAssumption, Zenon
<1>2. DeadZone \in Nat /\ DeadZone > 0
  BY <1>1
<1> QED
  BY <1>1, <1>2, InputAssumption, Zenon

\* The process takes no step with the pins that CarController does not.
LEMMA StepOfCar ==
    ASSUME ListenerInv, [Next]_vars
    PROVE  [CarNext]_carVars
<1>1. direction \in Directions /\ (velocity # NotANumber => velocity \in Velocities) /\ 0 \in Velocities
  BY Numbers DEF ListenerInv, TypeOK
<1>2. CASE Driver
  <2>1. CASE TestAbove
    <3>1. Drive(0, direction) \/ UNCHANGED carVars
      BY <2>1 DEF TestAbove, CallDrive, Crash, DriverOnly
    <3> QED
      BY <1>1, <3>1 DEF CarNext
  <2>2. CASE DriveMoving
    <3>1. (velocity # NotANumber /\ Drive(velocity, direction)) \/ UNCHANGED carVars
      BY <2>2 DEF DriveMoving, CallDrive, Crash, DriverOnly
    <3> QED
      BY <1>1, <3>1 DEF CarNext
  <2>3. CASE WritePin
    <3>1. Write("driver") \/ UNCHANGED carVars
      BY <2>3 DEF WritePin, DriverOnly
    <3> QED
      BY <3>1 DEF CarNext, Threads
  <2>4. CASE CheckAge \/ ZeroVelocity \/ ZeroSteer \/ ReadSteer \/ TestBelow \/ Neutralize \/ StoreBack
    BY <2>4 DEF CheckAge, ZeroVelocity, ZeroSteer, ReadSteer, TestBelow, Neutralize, StoreBack,
       NextNeutralization, Crash, DriverOnly
  <2> QED
    BY <1>2, <2>1, <2>2, <2>3, <2>4 DEF Driver
<1>3. CASE Handler
  BY <1>3 DEF Handler, Stamp, StoreVelocity, StoreSteer, HandlerStep
<1>4. CASE InterruptAgain
  BY <1>4 DEF InterruptAgain, CarNext
<1>5. CASE ExitWrite
  BY <1>5 DEF ExitWrite, CarNext, Threads
<1>6. CASE Tick \/ Interrupt \/ Finalize \/ (\E path \in Paths : Connect(path)) \/ (\E m \in Messages : Receive(m))
  BY <1>6 DEF Tick, Interrupt, Finalize, Connect, Receive
<1>7. CASE UNCHANGED vars
  BY <1>7 DEF vars
<1> QED
  BY <1>2, <1>3, <1>4, <1>5, <1>6, <1>7 DEF Next

\* What a call of Car.drive and a write leave alone.
LEMMA DriveDoes ==
    ASSUME CarInv, NEW v, NEW d, Drive(v, d)
    PROVE  /\ memo' = <<v, d>> /\ UNCHANGED <<toggle, duty, exited>> /\ ~IsGoing("driver")
           /\ going'["exit"] = going["exit"]
           /\ memo = <<v, d>> => UNCHANGED carVars
<1>1. CASE memo = <<v, d>>
  BY <1>1 DEF Drive, carVars
<1>2. CASE memo # <<v, d>>
  BY <1>2 DEF Drive, CarInv, CarTypeOK, Threads
<1> QED
  BY <1>1, <1>2

LEMMA WriteDoes ==
    ASSUME CarInv, NEW t \in Threads, Write(t)
    PROVE  /\ UNCHANGED <<memo, exited>> /\ IsGoing(t)
           /\ \A u \in Threads : u # t => going'[u] = going[u]
BY DEF Write, CarInv, CarTypeOK

\* A step that leaves the pins alone and is none of the loop's.
LEMMA CarIsLeftAlone ==
    ASSUME ListenerInv, UNCHANGED <<carVars, drv, nth, raced>>, phase' = "ended" => phase = "ended"
    PROVE  GoingInv' /\ ExitInv'
<1>1. UNCHANGED <<toggle, duty, memo, going, exited>>
  BY DEF carVars
<1> QED
  BY <1>1 DEF ListenerInv, GoingInv, ExitInv, IsGoing

\* What a pass has found stays so if nothing that it reads changes.
LEMMA PassIsLeftAlone ==
    ASSUME ListenerInv, UNCHANGED <<velocity, steer, memo, drv, direction, nth, loaded, settled>>,
           Stale' <=> Stale, going'["driver"] = going["driver"]
    PROVE  PassInv' /\ SettledInv'
<1>1. Quiet' <=> Quiet
  BY DEF Quiet
<1>2. Effective(velocity)' = Effective(velocity) /\ (DrivesLiveValues' <=> DrivesLiveValues)
  BY DEF Effective, DrivesLiveValues
<1>3. IsGoing("driver")' <=> IsGoing("driver")
  BY DEF IsGoing
<1>4. PassInv'
  BY <1>1, <1>2 DEF ListenerInv, PassInv
<1> QED
  BY <1>1, <1>2, <1>3, <1>4 DEF ListenerInv, SettledInv

LEMMA NothingSettled == ASSUME settled' = 0 PROVE PassInv' /\ SettledInv'
BY DEF PassInv, SettledInv
-----------------------------------------------------------------------------
LEMMA ListenerInit == Init => ListenerInv
<1> SUFFICES ASSUME Init PROVE ListenerInv
  OBVIOUS
<1>1. CarInv
  BY CarInit_CarInv DEF Init
<1>2. TypeOK
  <2>1. CarTypeOK
    BY <1>1 DEF CarInv
  <2>2. age \in 0 .. MaxAge /\ nth \in 1 .. 4 /\ settled \in 0 .. 2
    BY Numbers DEF Init, MaxAge
  <2>3. loaded \in IF nth <= 2 THEN Velocities ELSE Directions
    BY Numbers DEF Init
  <2> QED
    BY <2>1, <2>2, <2>3, Numbers DEF Init, TypeOK, Paths, DriverPoints
<1>3. HandlingInv
  BY DEF Init, CarInit, HandlingInv
<1>4. ~IsGoing("driver") /\ ~exited
  BY DEF Init, CarInit, IsGoing, Idle, Threads, Writes
<1>5. GoingInv /\ ExitInv /\ PassInv /\ SettledInv
  BY <1>4 DEF Init, GoingInv, ExitInv, PassInv, SettledInv
<1> QED
  BY <1>1, <1>2, <1>3, <1>5 DEF ListenerInv

\* Time and the connections.
LEMMA TickKeeps ==
    ASSUME ListenerInv, Tick
    PROVE  ListenerInv'
<1>1. /\ age < MaxAge /\ age' = age + 1
      /\ settled' = IF age = Timeout THEN 0 ELSE settled
      /\ UNCHANGED <<carVars, velocity, steer, websocket, handling, message, drv, direction, nth, loaded,
                     phase, raced>>
  BY DEF Tick, handlerVars, driverVars
<1>2. UNCHANGED <<toggle, duty, memo, going, exited>>
  BY <1>1 DEF carVars
<1>3. age \in 0 .. MaxAge /\ Timeout \in Nat /\ MaxAge = Timeout + 1
  BY Numbers DEF ListenerInv, TypeOK, MaxAge
<1>4. CarInv'
  BY <1>2 DEF ListenerInv, CarInv, CarTypeOK, Target, Stopped, WrittenSoFar, IsGoing
<1>5. TypeOK'
  <2>1. age' \in 0 .. MaxAge
    BY <1>1, <1>3
  <2>2. settled' \in 0 .. 2
    BY <1>1 DEF ListenerInv, TypeOK
  <2>3. CarTypeOK'
    BY <1>4 DEF CarInv
  <2> QED
    BY <1>1, <2>1, <2>2, <2>3 DEF ListenerInv, TypeOK
<1>6. HandlingInv'
  BY <1>1, <1>2 DEF ListenerInv, HandlingInv
<1>7. GoingInv' /\ ExitInv'
  BY <1>1, CarIsLeftAlone
<1>8. PassInv' /\ SettledInv'
  <2>1. CASE age = Timeout
    BY <1>1, <2>1, NothingSettled
  <2>2. CASE age # Timeout
    <3>1. Stale' <=> Stale
      BY <1>1, <1>3, <2>2 DEF Stale
    <3> QED
      BY <1>1, <1>2, <2>2, <3>1, PassIsLeftAlone
  <2> QED
    BY <2>1, <2>2
<1> QED
  BY <1>4, <1>5, <1>6, <1>7, <1>8 DEF ListenerInv

LEMMA ConnectingKeeps ==
    ASSUME ListenerInv, CarInv',
           \/ \E path \in Paths : Connect(path)
           \/ \E m \in Messages : Receive(m)
           \/ Interrupt
    PROVE  ListenerInv'
<1>1. /\ UNCHANGED <<carVars, velocity, steer, age, drv, direction, nth, loaded, settled, raced>>
      /\ phase = "serving" /\ phase' \in {"serving", "joining"} /\ websocket' \in Paths
      /\ handling' \in {"idle", "stamp"} /\ message' \in Messages \cup {NoMessage}
      /\ handling' # "idle" => phase' = "serving" /\ message' \in Messages
  BY DEF Connect, Receive, Interrupt, sharedVars, driverVars, ListenerInv, TypeOK
<1>2. UNCHANGED <<toggle, duty, memo, going, exited>>
  BY <1>1 DEF carVars
<1>3. TypeOK'
  <2>1. CarTypeOK'
    BY DEF CarInv
  <2> QED
    BY <1>1, <2>1 DEF ListenerInv, TypeOK
<1>4. HandlingInv'
  BY <1>1, <1>2 DEF ListenerInv, HandlingInv
<1>5. GoingInv' /\ ExitInv'
  BY <1>1, CarIsLeftAlone
<1>6. PassInv' /\ SettledInv'
  BY <1>1, <1>2, PassIsLeftAlone DEF Stale
<1> QED
  BY <1>3, <1>4, <1>5, <1>6 DEF ListenerInv

\* socket_response.
LEMMA HandlerKeeps ==
    ASSUME ListenerInv, CarInv', Handler
    PROVE  ListenerInv'
<1>1. /\ UNCHANGED <<carVars, websocket, drv, direction, nth, loaded, phase, raced>>
      /\ settled' = 0 /\ phase = "serving"
  BY DEF Handler, Stamp, StoreVelocity, StoreSteer, HandlerStep, driverVars
<1>2. UNCHANGED <<toggle, duty, memo, going, exited>>
  BY <1>1 DEF carVars
<1>3. /\ handling # "idle" /\ handling' \in {"idle", "velocity", "direction"}
      /\ message' = IF handling' = "idle" THEN NoMessage ELSE message
  BY DEF Handler, Stamp, StoreVelocity, StoreSteer, HandlerStep
<1>4. message \in Messages /\ message' \in Messages \cup {NoMessage}
      /\ (handling' # "idle" => message' \in Messages)
  BY <1>3 DEF ListenerInv, HandlingInv
<1>5. /\ message.velocity \in Velocities \cup {NotANumber, Missing}
      /\ message.direction \in Directions \cup {NotANumber, Missing}
  BY <1>4, ListenerAssumption
<1>6. /\ velocity' \in Velocities \cup {NotANumber} /\ steer' \in Directions \cup {NotANumber}
      /\ age' \in 0 .. MaxAge
  <2>1. CASE Stamp
    BY <2>1, Numbers DEF Stamp, ListenerInv, TypeOK, MaxAge
  <2>2. CASE StoreVelocity
    BY <1>5, <2>2 DEF StoreVelocity, sharedVars, ListenerInv, TypeOK
  <2>3. CASE StoreSteer
    BY <1>5, <2>3 DEF StoreSteer, ListenerInv, TypeOK
  <2> QED
    BY <2>1, <2>2, <2>3 DEF Handler
<1>7. TypeOK'
  <2>1. CarTypeOK'
    BY DEF CarInv
  <2> QED
    BY <1>1, <1>3, <1>4, <1>6, <2>1 DEF ListenerInv, TypeOK
<1>8. HandlingInv'
  BY <1>1, <1>2, <1>4 DEF ListenerInv, HandlingInv
<1>9. GoingInv' /\ ExitInv'
  BY <1>1, CarIsLeftAlone
<1> QED
  BY <1>1, <1>7, <1>8, <1>9, NothingSettled DEF ListenerInv
-----------------------------------------------------------------------------
(* The loop of send_car_commands. *)

\* What a step that only moves the loop on leaves as it was.
LEMMA LoopMovesOn ==
    ASSUME ListenerInv, CarInv', UNCHANGED <<carVars, age, websocket, handling, message, phase, raced>>,
           velocity' \in Velocities \cup {NotANumber}, steer' \in Directions \cup {NotANumber},
           drv' \in DriverPoints, direction' \in Directions, nth' \in 1 .. 4,
           loaded' \in IF nth' <= 2 THEN Velocities ELSE Directions, settled' \in 0 .. 2,
           drv' = "going" \/ ~IsGoing("driver"),
           drv' \notin {"neutralize", "storeBack", "dead"} => nth' = 1
    PROVE  /\ TypeOK' /\ HandlingInv' /\ GoingInv' /\ ExitInv'
           /\ (Stale' <=> Stale) /\ memo' = memo /\ (IsGoing("driver")' <=> IsGoing("driver"))
<1>1. UNCHANGED <<toggle, duty, memo, going, exited>>
  BY DEF carVars
<1>2. TypeOK'
  <2>1. CarTypeOK'
    BY DEF CarInv
  <2> QED
    BY <2>1 DEF ListenerInv, TypeOK
<1>3. HandlingInv' /\ GoingInv' /\ ExitInv'
  BY <1>1 DEF ListenerInv, HandlingInv, GoingInv, ExitInv, IsGoing
<1> QED
  BY <1>1, <1>2, <1>3 DEF Stale, IsGoing

\* The thread that has died changes nothing any more.
LEMMA CrashKeeps ==
    ASSUME ListenerInv, CarInv', Crash, ~IsGoing("driver"), settled = 2 => FALSE
    PROVE  ListenerInv'
<1>1. /\ UNCHANGED <<carVars, velocity, steer, age, websocket, handling, message, phase, settled, raced,
                     direction, nth, loaded>>
      /\ drv' = "dead"
  BY DEF Crash, DriverOnly, sharedVars, handlerVars
<1>2. TypeOK' /\ HandlingInv' /\ GoingInv' /\ ExitInv'
  BY <1>1, LoopMovesOn DEF DriverPoints, ListenerInv, TypeOK
<1>3. PassInv' /\ SettledInv'
  BY <1>1 DEF PassInv, SettledInv, Zeroing, Turned, Driven
<1> QED
  BY <1>2, <1>3 DEF ListenerInv

LEMMA CheckAgeKeeps ==
    ASSUME ListenerInv, CarInv', CheckAge
    PROVE  ListenerInv'
<1>1. /\ UNCHANGED <<carVars, velocity, steer, age, websocket, handling, message, phase, settled, raced,
                     direction, nth, loaded>>
      /\ drv = "check" /\ drv' = IF Stale THEN "zeroVelocity" ELSE "direction"
  BY DEF CheckAge, DriverAt, DriverOnly, sharedVars, handlerVars
<1>2. ~IsGoing("driver") /\ nth = 1
  BY <1>1 DEF ListenerInv, GoingInv
<1>3. /\ TypeOK' /\ HandlingInv' /\ GoingInv' /\ ExitInv'
      /\ (Stale' <=> Stale) /\ memo' = memo /\ (IsGoing("driver")' <=> IsGoing("driver"))
  BY <1>1, <1>2, LoopMovesOn DEF DriverPoints, ListenerInv, TypeOK
<1>4. PassInv'
  BY <1>1, <1>3 DEF PassInv, Zeroing, Turned, Driven, Quiet
<1>5. SettledInv'
  BY <1>1, <1>3 DEF ListenerInv, SettledInv, Quiet, DrivesLiveValues, Effective
<1> QED
  BY <1>3, <1>4, <1>5 DEF ListenerInv

LEMMA ZeroVelocityKeeps ==
    ASSUME ListenerInv, CarInv', ZeroVelocity
    PROVE  ListenerInv'
<1>1. /\ UNCHANGED <<carVars, steer, age, websocket, handling, message, phase, settled, raced,
                     direction, nth, loaded>>
      /\ drv = "zeroVelocity" /\ drv' = "zeroSteer" /\ velocity' = 0
  BY DEF ZeroVelocity, DriverAt, handlerVars
<1>2. ~IsGoing("driver") /\ nth = 1
  BY <1>1 DEF ListenerInv, GoingInv
<1>3. /\ TypeOK' /\ HandlingInv' /\ GoingInv' /\ ExitInv'
      /\ (Stale' <=> Stale) /\ memo' = memo /\ (IsGoing("driver")' <=> IsGoing("driver"))
  BY <1>1, <1>2, Numbers, LoopMovesOn DEF DriverPoints, ListenerInv, TypeOK
<1>4. PassInv'
  BY <1>1, <1>3 DEF ListenerInv, PassInv, Zeroing, Turned, Driven
\* The values were zeros before, for it is later than the timeout.
<1>5. SettledInv'
  <2>1. settled = 2 => velocity = 0
    BY <1>1 DEF ListenerInv, PassInv, SettledInv, Quiet, Zeroing
  <2> QED
    BY <1>1, <1>3, <2>1 DEF ListenerInv, SettledInv, Quiet, DrivesLiveValues, Effective
<1> QED
  BY <1>3, <1>4, <1>5 DEF ListenerInv

LEMMA ZeroSteerKeeps ==
    ASSUME ListenerInv, CarInv', ZeroSteer
    PROVE  ListenerInv'
<1>1. /\ UNCHANGED <<carVars, velocity, age, websocket, handling, message, phase, settled, raced,
                     direction, nth, loaded>>
      /\ drv = "zeroSteer" /\ drv' = "direction" /\ steer' = 0
  BY DEF ZeroSteer, DriverAt, handlerVars
<1>2. ~IsGoing("driver") /\ nth = 1
  BY <1>1 DEF ListenerInv, GoingInv
<1>3. /\ TypeOK' /\ HandlingInv' /\ GoingInv' /\ ExitInv'
      /\ (Stale' <=> Stale) /\ memo' = memo /\ (IsGoing("driver")' <=> IsGoing("driver"))
  BY <1>1, <1>2, Numbers, LoopMovesOn DEF DriverPoints, ListenerInv, TypeOK
<1>4. PassInv'
  BY <1>1, <1>3 DEF ListenerInv, PassInv, Zeroing, Turned, Driven, Quiet
<1>5. SettledInv'
  <2>1. settled = 2 => steer = 0
    BY <1>1 DEF ListenerInv, PassInv, SettledInv, Quiet, Zeroing
  <2> QED
    BY <1>1, <1>3, <2>1 DEF ListenerInv, SettledInv, Quiet, DrivesLiveValues, Effective
<1> QED
  BY <1>3, <1>4, <1>5 DEF ListenerInv

LEMMA ReadSteerKeeps ==
    ASSUME ListenerInv, CarInv', ReadSteer
    PROVE  ListenerInv'
<1>1. drv = "direction" /\ ~IsGoing("driver") /\ nth = 1
  BY DEF ReadSteer, DriverAt, ListenerInv, GoingInv
<1>2. CASE steer = NotANumber /\ Crash
  <2>1. settled = 2 => FALSE
    BY <1>2, Numbers DEF ListenerInv, SettledInv, DrivesLiveValues
  <2> QED
    BY <1>1, <1>2, <2>1, CrashKeeps
<1>3. CASE steer # NotANumber /\ ~Crash
  <2>1. /\ UNCHANGED <<carVars, velocity, steer, age, websocket, handling, message, phase, settled, raced,
                       nth, loaded>>
        /\ drv' = "below" /\ direction' = steer
    BY <1>3 DEF ReadSteer, DriverOnly, sharedVars, handlerVars
  <2>2. direction' \in Directions
    BY <1>3, <2>1 DEF ListenerInv, TypeOK
  <2>3. /\ TypeOK' /\ HandlingInv' /\ GoingInv' /\ ExitInv'
        /\ (Stale' <=> Stale) /\ memo' = memo /\ (IsGoing("driver")' <=> IsGoing("driver"))
    BY <1>1, <2>1, <2>2, LoopMovesOn DEF DriverPoints, ListenerInv, TypeOK
  <2>4. PassInv'
    BY <1>1, <2>1, <2>3 DEF ListenerInv, PassInv, Zeroing, Turned, Driven, Quiet
  <2>5. SettledInv'
    BY <2>1, <2>3 DEF ListenerInv, SettledInv, Quiet, DrivesLiveValues, Effective
  <2> QED
    BY <2>3, <2>4, <2>5 DEF ListenerInv
<1> QED
  BY <1>2, <1>3 DEF ReadSteer, Crash

LEMMA TestBelowKeeps ==
    ASSUME ListenerInv, CarInv', TestBelow
    PROVE  ListenerInv'
<1>1. drv = "below" /\ ~IsGoing("driver") /\ nth = 1
  BY DEF TestBelow, DriverAt, ListenerInv, GoingInv
<1>2. CASE velocity = NotANumber /\ Crash
  <2>1. settled = 2 => FALSE
    BY <1>2, Numbers DEF ListenerInv, SettledInv, DrivesLiveValues
  <2> QED
    BY <1>1, <1>2, <2>1, CrashKeeps
<1>3. CASE velocity # NotANumber
  <2>1. /\ UNCHANGED <<carVars, velocity, steer, age, websocket, handling, message, phase, settled, raced,
                       direction, nth, loaded>>
        /\ drv' = IF velocity < DeadZone THEN "above" ELSE "moving"
    BY <1>3 DEF TestBelow, DriverOnly, sharedVars, handlerVars
  <2>2. velocity \in Velocities
    BY <1>3 DEF ListenerInv, TypeOK
  <2>3. /\ TypeOK' /\ HandlingInv' /\ GoingInv' /\ ExitInv'
        /\ (Stale' <=> Stale) /\ memo' = memo /\ (IsGoing("driver")' <=> IsGoing("driver"))
    BY <1>1, <2>1, LoopMovesOn DEF DriverPoints, ListenerInv, TypeOK
  <2>4. PassInv'
    BY <1>1, <2>1, <2>2, <2>3 DEF ListenerInv, PassInv, Zeroing, Turned, Driven, Quiet, Effective
  <2>5. SettledInv'
    BY <2>1, <2>3 DEF ListenerInv, SettledInv, Quiet, DrivesLiveValues, Effective
  <2> QED
    BY <2>3, <2>4, <2>5 DEF ListenerInv
<1> QED
  BY <1>2, <1>3 DEF TestBelow

\* The call of Car.drive: with the values that the pass has found.
LEMMA CallDriveKeeps ==
    ASSUME ListenerInv, CarInv', NEW v \in Velocities, CallDrive(v), nth = 1,
           drv \in Turned,
           settled >= 1 => velocity \in Velocities /\ v = Effective(velocity)
    PROVE  ListenerInv'
<1>1. /\ UNCHANGED <<velocity, steer, age, websocket, handling, message, phase, settled, raced,
                     direction, nth, loaded>>
      /\ drv' = "going" /\ Drive(v, direction)
  BY DEF CallDrive, sharedVars, handlerVars
<1>2. /\ memo' = <<v, direction>> /\ UNCHANGED <<toggle, duty, exited>> /\ ~IsGoing("driver")
      /\ going'["exit"] = going["exit"]
      /\ memo = <<v, direction>> => UNCHANGED carVars
  BY <1>1, DriveDoes DEF ListenerInv
<1>3. TypeOK'
  <2>1. CarTypeOK'
    BY DEF CarInv
  <2> QED
    BY <1>1, <2>1 DEF ListenerInv, TypeOK, DriverPoints
<1>4. HandlingInv' /\ GoingInv' /\ ExitInv'
  BY <1>1, <1>2 DEF ListenerInv, HandlingInv, GoingInv, ExitInv, IsGoing
<1>5. settled >= 1 => Quiet' /\ DrivesLiveValues'
  <2> SUFFICES ASSUME settled >= 1 PROVE Quiet' /\ DrivesLiveValues'
    OBVIOUS
  <2>1. Quiet /\ steer = direction /\ direction \in Directions
    BY DEF ListenerInv, PassInv, TypeOK
  <2>2. Effective(velocity)' = Effective(velocity)
    BY <1>1 DEF Effective
  <2> QED
    BY <1>1, <1>2, <2>1, <2>2 DEF Quiet, Stale, DrivesLiveValues
<1>6. PassInv'
  BY <1>1, <1>5 DEF ListenerInv, PassInv, Zeroing, Turned, Driven
\* After two passes it is the action of before, and Car.drive returns at once.
<1>7. SettledInv'
  <2> SUFFICES ASSUME settled = 2 PROVE ~IsGoing("driver")'
    BY <1>1, <1>5 DEF SettledInv
  <2>1. memo = <<v, direction>>
    BY DEF ListenerInv, PassInv, SettledInv, DrivesLiveValues
  <2> QED
    BY <1>2, <2>1 DEF IsGoing, carVars
<1> QED
  BY <1>3, <1>4, <1>6, <1>7 DEF ListenerInv

LEMMA TestAboveKeeps ==
    ASSUME ListenerInv, CarInv', TestAbove
    PROVE  ListenerInv'
<1>1. drv = "above" /\ ~IsGoing("driver") /\ nth = 1
  BY DEF TestAbove, DriverAt, ListenerInv, GoingInv
<1>2. CASE velocity = NotANumber /\ Crash
  <2>1. settled = 2 => FALSE
    BY <1>2, Numbers DEF ListenerInv, SettledInv, DrivesLiveValues
  <2> QED
    BY <1>1, <1>2, <2>1, CrashKeeps
<1>3. CASE velocity # NotANumber /\ velocity > -DeadZone /\ CallDrive(0)
  <2>1. settled >= 1 => velocity \in Velocities /\ 0 = Effective(velocity)
    BY <1>1, <1>3 DEF ListenerInv, PassInv, Effective
  <2> QED
    BY <1>1, <1>3, <2>1, Numbers, CallDriveKeeps DEF Turned
<1>4. CASE velocity # NotANumber /\ velocity <= -DeadZone /\ ~(velocity > -DeadZone)
  <2>1. /\ UNCHANGED <<carVars, velocity, steer, age, websocket, handling, message, phase, settled, raced,
                       direction, nth, loaded>>
        /\ drv' = "moving"
    BY <1>4 DEF TestAbove, DriverOnly, sharedVars, handlerVars
  <2>2. velocity \in Velocities
    BY <1>4 DEF ListenerInv, TypeOK
  <2>3. /\ TypeOK' /\ HandlingInv' /\ GoingInv' /\ ExitInv'
        /\ (Stale' <=> Stale) /\ memo' = memo /\ (IsGoing("driver")' <=> IsGoing("driver"))
    BY <1>1, <2>1, LoopMovesOn DEF DriverPoints, ListenerInv, TypeOK
  <2>4. PassInv'
    BY <1>1, <1>4, <2>1, <2>2, <2>3 DEF ListenerInv, PassInv, Zeroing, Turned, Driven, Quiet, Effective
  <2>5. SettledInv'
    BY <2>1, <2>3 DEF ListenerInv, SettledInv, Quiet, DrivesLiveValues, Effective
  <2> QED
    BY <2>3, <2>4, <2>5 DEF ListenerInv
<1>5. velocity # NotANumber => velocity \in Int /\ -DeadZone \in Int
  BY Numbers DEF ListenerInv, TypeOK
<1> QED
  BY <1>2, <1>3, <1>4, <1>5 DEF TestAbove

LEMMA DriveMovingKeeps ==
    ASSUME ListenerInv, CarInv', DriveMoving
    PROVE  ListenerInv'
<1>1. drv = "moving" /\ ~IsGoing("driver") /\ nth = 1
  BY DEF DriveMoving, DriverAt, ListenerInv, GoingInv
<1>2. CASE velocity = NotANumber /\ Crash
  <2>1. settled = 2 => FALSE
    BY <1>2, Numbers DEF ListenerInv, SettledInv, DrivesLiveValues
  <2> QED
    BY <1>1, <1>2, <2>1, CrashKeeps
<1>3. CASE velocity # NotANumber /\ CallDrive(velocity)
  <2>1. velocity \in Velocities
    BY <1>3 DEF ListenerInv, TypeOK
  <2>2. settled >= 1 => velocity = Effective(velocity)
    BY <1>1 DEF ListenerInv, PassInv
  <2> QED
    BY <1>1, <1>3, <2>1, <2>2, CallDriveKeeps DEF Turned
<1> QED
  BY <1>2, <1>3 DEF DriveMoving

LEMMA WritePinKeeps ==
    ASSUME ListenerInv, CarInv', WritePin
    PROVE  ListenerInv'
<1>1. drv = "going" /\ nth = 1
  BY DEF WritePin, DriverAt, ListenerInv, GoingInv
<1>2. CASE Write("driver") /\ raced' = (raced \/ exited)
           /\ UNCHANGED <<sharedVars, handlerVars, driverVars, phase, settled>>
  <2>1. UNCHANGED <<velocity, steer, age, websocket, handling, message, drv, direction, nth, loaded,
                    phase, settled>>
    BY <1>2 DEF sharedVars, handlerVars, driverVars
  <2>2. UNCHANGED <<memo, exited>> /\ IsGoing("driver") /\ going'["exit"] = going["exit"]
    BY <1>2, WriteDoes DEF ListenerInv, Threads
  <2>3. raced' \in BOOLEAN /\ (exited => raced')
    BY <1>2 DEF ListenerInv, TypeOK, CarTypeOK
  <2>4. TypeOK'
    <3>1. CarTypeOK'
      BY DEF CarInv
    <3> QED
      BY <2>1, <2>3, <3>1 DEF ListenerInv, TypeOK
  <2>5. HandlingInv' /\ GoingInv'
    BY <1>1, <2>1, <2>2 DEF ListenerInv, HandlingInv, GoingInv
  <2>6. ExitInv'
    BY <2>1, <2>2, <2>3 DEF ListenerInv, ExitInv, IsGoing
  <2>7. settled # 2
    BY <2>2 DEF ListenerInv, SettledInv
  <2>8. (Quiet' <=> Quiet) /\ (DrivesLiveValues' <=> DrivesLiveValues)
    BY <2>1, <2>2 DEF Quiet, Stale, DrivesLiveValues, Effective
  <2>9. PassInv' /\ SettledInv'
    BY <1>1, <2>1, <2>7, <2>8 DEF ListenerInv, PassInv, SettledInv, Zeroing, Turned, Driven
  <2> QED
    BY <2>4, <2>5, <2>6, <2>9 DEF ListenerInv
<1>3. CASE ~IsGoing("driver") /\ drv' = "neutralize" /\ nth' = 1
           /\ DriverOnly /\ UNCHANGED <<direction, loaded>>
  <2>1. /\ UNCHANGED <<carVars, velocity, steer, age, websocket, handling, message, phase, settled, raced,
                       direction, nth, loaded>>
        /\ drv' = "neutralize"
    BY <1>1, <1>3 DEF DriverOnly, sharedVars, handlerVars
  <2>2. /\ TypeOK' /\ HandlingInv' /\ GoingInv' /\ ExitInv'
        /\ (Stale' <=> Stale) /\ memo' = memo /\ (IsGoing("driver")' <=> IsGoing("driver"))
    BY <1>1, <1>3, <2>1, LoopMovesOn DEF DriverPoints, ListenerInv, TypeOK
  <2>3. (Quiet' <=> Quiet) /\ (DrivesLiveValues' <=> DrivesLiveValues)
    BY <2>1, <2>2 DEF Quiet, DrivesLiveValues, Effective
  <2>4. PassInv'
    BY <1>1, <2>1, <2>3 DEF ListenerInv, PassInv, Zeroing, Turned, Driven
  <2>5. SettledInv'
    BY <2>1, <2>2, <2>3 DEF ListenerInv, SettledInv
  <2> QED
    BY <2>2, <2>4, <2>5 DEF ListenerInv
<1> QED
  BY <1>2, <1>3 DEF WritePin

\* The end of one of the four neutralizations, and of a pass after the last.
LEMMA NextKeeps ==
    ASSUME ListenerInv, CarInv', NextNeutralization, drv \in {"neutralize", "storeBack"},
           velocity' \in Velocities \cup {NotANumber}, steer' \in Directions \cup {NotANumber},
           settled >= 1 => UNCHANGED <<velocity, steer>>
    PROVE  ListenerInv'
<1>1. /\ UNCHANGED <<carVars, age, websocket, handling, message, direction, phase, raced>>
      /\ loaded' = 0
      /\ IF nth < 4 THEN drv' = "neutralize" /\ nth' = nth + 1 /\ settled' = settled
                    ELSE drv' = "check" /\ nth' = 1
                         /\ settled' = IF settled < 2 THEN settled + 1 ELSE settled
  BY DEF NextNeutralization, handlerVars
<1>2. nth \in 1 .. 4 /\ settled \in 0 .. 2 /\ direction \in Directions /\ ~IsGoing("driver")
  BY DEF ListenerInv, TypeOK, GoingInv
<1>3. /\ drv' \in {"neutralize", "check"} /\ nth' \in 1 .. 4 /\ settled' \in 0 .. 2
      /\ drv' = "check" => nth' = 1
      /\ loaded' \in IF nth' <= 2 THEN Velocities ELSE Directions
      /\ drv' = "neutralize" => settled' = settled
      /\ settled' = 2 => settled >= 1
  BY <1>1, <1>2, Numbers
<1>4. /\ TypeOK' /\ HandlingInv' /\ GoingInv' /\ ExitInv'
      /\ (Stale' <=> Stale) /\ memo' = memo /\ (IsGoing("driver")' <=> IsGoing("driver"))
  BY <1>1, <1>2, <1>3, LoopMovesOn DEF DriverPoints
<1>5. settled >= 1 => Quiet /\ DrivesLiveValues /\ steer = direction
  BY DEF ListenerInv, PassInv, Turned, Driven
<1>6. settled >= 1 => Quiet' /\ DrivesLiveValues' /\ steer' = direction'
  BY <1>1, <1>4, <1>5 DEF Quiet, DrivesLiveValues, Effective
<1>7. PassInv'
  BY <1>3, <1>6 DEF PassInv, Zeroing, Turned, Driven
<1>8. SettledInv'
  BY <1>2, <1>3, <1>4, <1>6 DEF SettledInv
<1> QED
  BY <1>4, <1>7, <1>8 DEF ListenerInv

LEMMA NeutralizeKeeps ==
    ASSUME ListenerInv, CarInv', Neutralize
    PROVE  ListenerInv'
<1> DEFINE value == IF nth <= 2 THEN velocity ELSE steer
           applies == IF nth % 2 = 1 THEN value < 0 ELSE value > 0
<1>1. /\ drv = "neutralize" /\ ~IsGoing("driver") /\ nth \in 1 .. 4
      /\ velocity \in Velocities \cup {NotANumber} /\ steer \in Directions \cup {NotANumber}
  BY DEF Neutralize, DriverAt, ListenerInv, GoingInv, TypeOK
<1>2. CASE value = NotANumber /\ Crash
  <2>1. settled = 2 => FALSE
    BY <1>2, Numbers DEF ListenerInv, SettledInv, DrivesLiveValues
  <2> QED
    BY <1>1, <1>2, <2>1, CrashKeeps
<1>3. CASE NextNeutralization /\ UNCHANGED <<velocity, steer>>
  BY <1>1, <1>3, NextKeeps
<1>4. CASE /\ value # NotANumber /\ loaded' = value /\ drv' = "storeBack"
           /\ DriverOnly /\ UNCHANGED <<direction, nth>>
  <2>1. /\ UNCHANGED <<carVars, velocity, steer, age, websocket, handling, message, phase, settled, raced,
                       direction, nth>>
        /\ loaded' = value /\ drv' = "storeBack"
    BY <1>4 DEF DriverOnly, sharedVars, handlerVars
  <2>2. loaded' \in IF nth' <= 2 THEN Velocities ELSE Directions
    BY <1>1, <1>4, <2>1
  <2>3. /\ TypeOK' /\ HandlingInv' /\ GoingInv' /\ ExitInv'
        /\ (Stale' <=> Stale) /\ memo' = memo /\ (IsGoing("driver")' <=> IsGoing("driver"))
    BY <1>1, <2>1, <2>2, LoopMovesOn DEF DriverPoints, ListenerInv, TypeOK
  <2>4. (Quiet' <=> Quiet) /\ (DrivesLiveValues' <=> DrivesLiveValues)
    BY <2>1, <2>3 DEF Quiet, DrivesLiveValues, Effective
  <2>5. PassInv'
    BY <1>1, <2>1, <2>4 DEF ListenerInv, PassInv, Zeroing, Turned, Driven
  <2>6. SettledInv'
    BY <2>1, <2>3, <2>4 DEF ListenerInv, SettledInv
  <2> QED
    BY <2>3, <2>5, <2>6 DEF ListenerInv
<1> QED
  BY <1>2, <1>3, <1>4 DEF Neutralize

\* What is written back is what is there, if nothing has come in between.
LEMMA StoreBackKeeps ==
    ASSUME ListenerInv, CarInv', StoreBack
    PROVE  ListenerInv'
<1>1. /\ drv = "storeBack" /\ NextNeutralization
      /\ nth <= 2 => velocity' = loaded /\ steer' = steer
      /\ ~(nth <= 2) => steer' = loaded /\ velocity' = velocity
  BY DEF StoreBack, DriverAt
<1>2. velocity' \in Velocities \cup {NotANumber} /\ steer' \in Directions \cup {NotANumber}
  BY <1>1 DEF ListenerInv, TypeOK
<1>3. settled >= 1 => UNCHANGED <<velocity, steer>>
  BY <1>1 DEF ListenerInv, PassInv
<1> QED
  BY <1>1, <1>2, <1>3, NextKeeps

LEMMA DriverKeeps ==
    ASSUME ListenerInv, CarInv', Driver
    PROVE  ListenerInv'
BY CheckAgeKeeps, ZeroVelocityKeeps, ZeroSteerKeeps, ReadSteerKeeps, TestBelowKeeps,
   TestAboveKeeps, DriveMovingKeeps, WritePinKeeps, NeutralizeKeeps, StoreBackKeeps DEF Driver
-----------------------------------------------------------------------------
(* The end of the process. *)

LEMMA InterruptAgainKeeps ==
    ASSUME ListenerInv, CarInv', InterruptAgain
    PROVE  ListenerInv'
<1>1. /\ UNCHANGED <<velocity, steer, age, websocket, handling, message, drv, direction, nth, loaded,
                     settled, raced>>
      /\ phase = "joining" /\ phase' = "exiting" /\ exited' = TRUE
      /\ UNCHANGED <<toggle, duty, memo>> /\ going' = [going EXCEPT !["exit"] = Go(0, 0)]
  BY DEF InterruptAgain, ExitHandler, sharedVars, handlerVars, driverVars
<1>2. going'["driver"] = going["driver"] /\ going'["exit"].next = 1
  BY <1>1 DEF ListenerInv, CarInv, CarTypeOK, Threads, Go
<1>3. TypeOK'
  <2>1. CarTypeOK'
    BY DEF CarInv
  <2> QED
    BY <1>1, <2>1 DEF ListenerInv, TypeOK
<1>4. HandlingInv'
  BY <1>1 DEF ListenerInv, HandlingInv
<1>5. GoingInv'
  BY <1>1, <1>2 DEF ListenerInv, GoingInv, IsGoing
<1>6. ExitInv'
  BY <1>1, <1>2 DEF ExitInv
<1>7. PassInv' /\ SettledInv'
  BY <1>1, <1>2, PassIsLeftAlone DEF Stale
<1> QED
  BY <1>3, <1>4, <1>5, <1>6, <1>7 DEF ListenerInv

\* The atexit handler writes zeros, to one wheel after the other.
LEMMA ExitWriteKeeps ==
    ASSUME ListenerInv, CarInv', ExitWrite
    PROVE  ListenerInv'
<1> DEFINE k == going["exit"].next
           n == (k + 1) \div 2
           w == WheelOrder[n]
<1>1. /\ UNCHANGED <<velocity, steer, age, websocket, handling, message, drv, direction, nth, loaded,
                     phase, settled, raced>>
      /\ phase = "exiting" /\ Write("exit")
  BY DEF ExitWrite, sharedVars, handlerVars, driverVars
<1>2. UNCHANGED <<memo, exited>> /\ going'["driver"] = going["driver"] /\ k \in 1 .. Writes
  BY <1>1, WriteDoes DEF ListenerInv, CarInv, CarTypeOK, Threads, IsGoing, Writes
<1>3. /\ n \in 1 .. 4 /\ w \in Wheels
      /\ k % 2 = 1 => k = 2 * n - 1
      /\ k % 2 # 1 => k = 2 * n
  BY <1>2, WriteIndex, WheelOrderFacts
<1>4. SpeedOf(going["exit"], w) = 0
  BY <1>3, ZeroSpeed DEF ListenerInv, CarInv
<1>5. /\ k % 2 = 1 => duty' = duty
      /\ k % 2 # 1 => duty' = [duty EXCEPT ![w] = Abs(SpeedOf(going["exit"], w))]
      /\ going' = [going EXCEPT !["exit"].next = k + 1]
  BY <1>1 DEF Write
<1>6. going'["exit"].next = k + 1
  BY <1>5 DEF ListenerInv, CarInv, CarTypeOK, Threads
<1>7. Abs(SpeedOf(going["exit"], w)) = 0
  BY <1>4 DEF Abs
<1>8. ExitInv'
  <2>1. phase' # "ended"
    BY <1>1
  <2>2. ASSUME exited, ~raced, NEW m \in 1 .. 4, k + 1 > 2 * m
        PROVE  duty'[WheelOrder[m]] = 0
    <3>1. WheelOrder[m] \in Wheels /\ (WheelOrder[m] = w => m = n)
      BY <1>3, WheelOrderFacts
    <3>2. k > 2 * m => duty[WheelOrder[m]] = 0
      BY <2>2 DEF ListenerInv, ExitInv
    <3> HIDE DEF k, n, w
    <3>3. CASE k % 2 = 1
      <4>1. k > 2 * m
        BY <1>2, <1>3, <2>2, <3>3 DEF Writes
      <4> QED
        BY <1>5, <3>2, <3>3, <4>1
    <3>4. CASE k % 2 # 1
      <4>1. duty' = [duty EXCEPT ![w] = 0]
        BY <1>5, <1>7, <3>4
      <4>2. duty \in [Wheels -> 0 .. MaxDuty]
        BY DEF ListenerInv, TypeOK, CarTypeOK
      <4>3. CASE WheelOrder[m] = w
        BY <3>1, <4>1, <4>2, <4>3
      <4>4. CASE WheelOrder[m] # w
        <5>1. m # n
          BY <4>4 DEF w
        <5>2. k > 2 * m
          BY <1>2, <1>3, <2>2, <3>4, <5>1 DEF Writes
        <5> QED
          BY <3>1, <3>2, <4>1, <4>2, <4>4, <5>2
      <4> QED
        BY <4>3, <4>4
    <3> QED
      BY <3>3, <3>4
  <2> QED
    BY <1>1, <1>2, <1>6, <2>1, <2>2 DEF ExitInv
<1>9. TypeOK'
  <2>1. CarTypeOK'
    BY DEF CarInv
  <2> QED
    BY <1>1, <2>1 DEF ListenerInv, TypeOK
<1>10. HandlingInv'
  BY <1>1, <1>2 DEF ListenerInv, HandlingInv
<1>11. GoingInv'
  BY <1>1, <1>2 DEF ListenerInv, GoingInv, IsGoing
<1>12. PassInv' /\ SettledInv'
  BY <1>1, <1>2, PassIsLeftAlone DEF Stale
<1> QED
  BY <1>8, <1>9, <1>10, <1>11, <1>12 DEF ListenerInv

LEMMA FinalizeKeeps ==
    ASSUME ListenerInv, CarInv', Finalize
    PROVE  ListenerInv'
<1>1. /\ UNCHANGED <<carVars, velocity, steer, age, websocket, handling, message, drv, direction, nth,
                     loaded, settled, raced>>
      /\ phase = "exiting" /\ phase' = "ended" /\ ~IsGoing("exit")
  BY DEF Finalize, sharedVars, handlerVars, driverVars
<1>2. UNCHANGED <<toggle, duty, memo, going, exited>>
  BY <1>1 DEF carVars
<1>3. TypeOK'
  <2>1. CarTypeOK'
    BY DEF CarInv
  <2> QED
    BY <1>1, <2>1 DEF ListenerInv, TypeOK
<1>4. HandlingInv' /\ GoingInv'
  BY <1>1, <1>2 DEF ListenerInv, HandlingInv, GoingInv, IsGoing
<1>5. ExitInv'
  BY <1>1, <1>2 DEF ListenerInv, ExitInv, IsGoing
<1>6. PassInv' /\ SettledInv'
  BY <1>1, <1>2, PassIsLeftAlone DEF Stale
<1> QED
  BY <1>3, <1>4, <1>5, <1>6 DEF ListenerInv

LEMMA StutterKeeps ==
    ASSUME ListenerInv, CarInv', UNCHANGED vars
    PROVE  ListenerInv'
<1>1. UNCHANGED <<carVars, velocity, steer, age, websocket, handling, message, drv, direction, nth,
                  loaded, phase, settled, raced>>
  BY DEF vars, sharedVars, handlerVars, driverVars
<1>2. UNCHANGED <<toggle, duty, memo, going, exited>>
  BY <1>1 DEF carVars
<1>3. TypeOK'
  <2>1. CarTypeOK'
    BY DEF CarInv
  <2> QED
    BY <1>1, <2>1 DEF ListenerInv, TypeOK
<1>4. HandlingInv'
  BY <1>1, <1>2 DEF ListenerInv, HandlingInv
<1>5. GoingInv' /\ ExitInv'
  BY <1>1, CarIsLeftAlone
<1>6. PassInv' /\ SettledInv'
  BY <1>1, <1>2, PassIsLeftAlone DEF Stale
<1> QED
  BY <1>3, <1>4, <1>5, <1>6 DEF ListenerInv

LEMMA ListenerStep == ListenerInv /\ [Next]_vars => ListenerInv'
<1> SUFFICES ASSUME ListenerInv, [Next]_vars PROVE ListenerInv'
  OBVIOUS
<1>1. CarInv'
  BY StepOfCar, CarNext_CarInv DEF ListenerInv
<1>2. CASE Tick
  BY <1>2, TickKeeps
<1>3. CASE (\E path \in Paths : Connect(path)) \/ (\E m \in Messages : Receive(m)) \/ Interrupt
  BY <1>1, <1>3, ConnectingKeeps
<1>4. CASE Handler
  BY <1>1, <1>4, HandlerKeeps
<1>5. CASE Driver
  BY <1>1, <1>5, DriverKeeps
<1>6. CASE InterruptAgain
  BY <1>1, <1>6, InterruptAgainKeeps
<1>7. CASE ExitWrite
  BY <1>1, <1>7, ExitWriteKeeps
<1>8. CASE Finalize
  BY <1>1, <1>8, FinalizeKeeps
<1>9. CASE UNCHANGED vars
  BY <1>1, <1>9, StutterKeeps
<1> QED
  BY <1>2, <1>3, <1>4, <1>5, <1>6, <1>7, <1>8, <1>9 DEF Next

LEMMA ListenerAlwaysInv == Spec => []ListenerInv
BY ListenerInit, ListenerStep, PTL DEF Spec
-----------------------------------------------------------------------------
(* What follows from the invariant. *)

\* All that the two threads share, and all that is local to them, keeps its
\* type, for every set of messages, the ones without numbers included.
THEOREM ListenerTypeCorrect == Spec => []TypeOK
<1>1. ListenerInv => TypeOK
  BY DEF ListenerInv
<1> QED
  BY ListenerAlwaysInv, <1>1, PTL

\* The two threads of the process do nothing with the motors but drive them,
\* write out what they drive, and call the atexit handler once: the process
\* implements the motor outputs, and whatever holds of these holds here.
THEOREM ListenerDrivesTheCar == Spec => CarSpec
<1>1. Init => CarInit
  BY DEF Init
<1>2. ListenerInv /\ [Next]_vars => [CarNext]_carVars
  BY StepOfCar
<1> QED
  BY ListenerAlwaysInv, <1>1, <1>2, PTL DEF Spec, CarSpec

\* With the motors driven by the loop: the early return on prev_drive_action
\* never leaves them with another command than the one remembered.
THEOREM ListenerMemoMatchesPins == Spec => []MemoMatchesPins
BY ListenerDrivesTheCar, MemoAlwaysMatchesPins, PTL

\* When the process has ended, the atexit handler has left the car standing,
\* unless the driving thread wrote a pin after the handler had begun.
THEOREM ExitAlwaysStops == Spec => []ExitStops
<1>1. ListenerInv => ExitStops
  <2> SUFFICES ASSUME ListenerInv, phase = "ended", ~raced PROVE Stopped
    BY DEF ExitStops
  <2>1. exited /\ ~IsGoing("exit")
    BY DEF ListenerInv, HandlingInv, ExitInv
  <2>2. going["exit"].next > 8
    BY <2>1 DEF IsGoing, Writes, ListenerInv, TypeOK, CarTypeOK, Threads
  <2>3. ASSUME NEW n \in 1 .. 4 PROVE duty[WheelOrder[n]] = 0
    <3>1. going["exit"].next > 2 * n
      BY <2>2 DEF ListenerInv, TypeOK, CarTypeOK, Threads, Writes
    <3> QED
      BY <2>1, <3>1 DEF ListenerInv, ExitInv
  <2> QED
    BY <2>3, WheelOrderFacts DEF Stopped
<1> QED
  BY ListenerAlwaysInv, <1>1, PTL

\* Once two passes of the loop have ended since anything it reads changed, all
\* four wheels show the live values; when the last command is too old these are
\* zeros.  This holds for every dead zone, timeout and message, although the
\* loop may skip a drive, read in the middle of a message, or write an old
\* value back over a newer one.
THEOREM WheelsAlwaysFollow == Spec => []WheelsFollowLiveValues
<1>1. ListenerInv => WheelsFollowLiveValues
  <2> SUFFICES ASSUME ListenerInv, settled = 2, ~exited
               PROVE  /\ Stale => velocity = 0 /\ steer = 0
                      /\ ShowsCommand(Effective(velocity), steer)
    BY DEF WheelsFollowLiveValues
  <2>1. Quiet /\ DrivesLiveValues /\ ~IsGoing("driver")
    BY DEF ListenerInv, SettledInv
  <2>2. MemoMatchesPins /\ Undisturbed
    BY <2>1, CarInv_MemoMatchesPins DEF ListenerInv, Undisturbed
  <2>3. memo = <<Effective(velocity), steer>> /\ memo # <<>>
    BY <2>1 DEF DrivesLiveValues
  <2>4. \A w \in Wheels : Shows(w, Command(memo[1], memo[2]))
    BY <2>2, <2>3 DEF MemoMatchesPins
  <2>5. memo[1] = Effective(velocity) /\ memo[2] = steer
    BY <2>3
  <2> QED
    BY <2>1, <2>4, <2>5 DEF Quiet, ShowsCommand
<1> QED
  BY ListenerAlwaysInv, <1>1, PTL
-----------------------------------------------------------------------------
(* The start of the process while others may run. *)

\* A process that is served has the port, and only such a one has been told to
\* move: what lost the race for the port has zeros for ever.
OnlyServerMoves ==
    \A p \in Procs :
        /\ stage[p] = "serving" => port = p
        /\ velocityOf[p] = "moving" => stage[p] \in {"serving", "dead"}
        /\ dutyOf[p] = "moving" => stage[p] = "serving"

Settled(p) == stage[p] \in {"serving", "lingering"}
Cleared(p) == stage[p] \in {"wait", "truncate", "write", "drive", "bind"}
Written(p) == stage[p] \in {"drive", "bind"}

\* One start after the other: the pid file names the process that is left, the
\* next start reads that name, and once it has killed there is no other.
OneAfterTheOther ==
    ~overlapped => \A p, q \in Procs :
        /\ stage[p] \in Starting /\ stage[q] \in Starting => p = q
        /\ Settled(p) \/ Written(p) => pid_file = p
        /\ Settled(p) /\ stage[q] = "kill" => target[q] = p
        /\ Settled(p) => ~Cleared(q)

RestartInv == RestartTypeOK /\ OnlyServerMoves /\ OneAfterTheOther

LEMMA RestartInit_Inv == RestartInit => RestartInv
<1> SUFFICES ASSUME RestartInit PROVE RestartInv
  OBVIOUS
<1>1. RestartTypeOK
  BY DEF RestartInit, RestartTypeOK, Stages, Starting, NoTarget
<1>2. OnlyServerMoves
  BY DEF RestartInit, OnlyServerMoves
<1>3. OneAfterTheOther
  BY DEF RestartInit, OneAfterTheOther, Settled, Written, Cleared, Starting
<1> QED
  BY <1>1, <1>2, <1>3 DEF RestartInv

\* A start of which nobody but its own process knows yet.
LEMMA StartKeeps ==
  ASSUME RestartInv, NEW p \in Procs, Start(p)
  PROVE  RestartInv'
<1>1. /\ stage[p] = "unborn" /\ stage' = [stage EXCEPT ![p] = "pins"]
      /\ UNCHANGED <<pid_file, target, port, velocityOf, dutyOf>>
      /\ overlapped' = (overlapped \/ {q \in Procs : stage[q] \in Starting} # {})
  BY DEF Start, Enter
<1>2. RestartTypeOK'
  BY <1>1, RestartAssumption DEF RestartInv, RestartTypeOK, Stages, Starting
<1>3. OnlyServerMoves'
  BY <1>1 DEF RestartInv, RestartTypeOK, OnlyServerMoves
<1>4. OneAfterTheOther'
  BY <1>1 DEF RestartInv, RestartTypeOK, OneAfterTheOther, Settled, Written, Cleared, Starting
<1> QED
  BY <1>2, <1>3, <1>4 DEF RestartInv

\* The steps of a start that concern nobody else.
LEMMA AloneKeeps ==
  ASSUME RestartInv, NEW p \in Procs, UNCHANGED overlapped,
         \/ SetUpPins(p) \/ ReadPidFile(p) \/ Wake(p) \/ Truncate(p) \/ WritePid(p) \/ StartDriving(p)
  PROVE  RestartInv'
<1> USE DEF Enter, RestartInv, RestartTypeOK, OnlyServerMoves, OneAfterTheOther, Settled, Written, Cleared,
            Starting, Stages, NoTarget
<1>1. CASE SetUpPins(p)
  BY <1>1 DEF SetUpPins
<1>2. CASE ReadPidFile(p)
  BY <1>2 DEF ReadPidFile
<1>3. CASE Wake(p)
  BY <1>3 DEF Wake
<1>4. CASE Truncate(p)
  BY <1>4 DEF Truncate
<1>5. CASE WritePid(p)
  BY <1>5 DEF WritePid
<1>6. CASE StartDriving(p)
  BY <1>6 DEF StartDriving
<1> QED
  BY <1>1, <1>2, <1>3, <1>4, <1>5, <1>6

\* The process that is killed, or ends for itself, gives up port and pins.
LEMMA EndKeeps ==
  ASSUME RestartInv, NEW p \in Procs, UNCHANGED overlapped, Kill(p) \/ Die(p)
  PROVE  RestartInv'
<1> USE DEF Enter, End, Alive, RestartInv, RestartTypeOK, OnlyServerMoves, OneAfterTheOther, Settled, Written,
            Cleared, Starting, Stages, NoTarget
<1>1. CASE Die(p)
  BY <1>1, RestartAssumption DEF Die
<1>2. CASE \E q \in {r \in Procs \ {p} : r = target[p] /\ Alive(r)} :
              /\ stage[p] = "kill" /\ End(q)
              /\ stage' = [stage EXCEPT ![p] = "wait", ![q] = "dead"]
              /\ UNCHANGED <<pid_file, target, velocityOf>>
  BY <1>2, RestartAssumption
<1>3. CASE /\ {q \in Procs \ {p} : q = target[p] /\ Alive(q)} = {}
           /\ Enter(p, "kill", "wait")
           /\ UNCHANGED <<pid_file, target, port, velocityOf, dutyOf>>
  BY <1>3
<1> QED
  BY <1>1, <1>2, <1>3 DEF Kill

\* The port goes to nobody but the first; commands reach only the process that
\* has it, and a pass of a driving thread shows what it was told.
LEMMA ServeKeeps ==
  ASSUME RestartInv, NEW p \in Procs, UNCHANGED overlapped,
         Bind(p) \/ Pass(p) \/ \E v \in {"zero", "moving"} : Commanded(p, v)
  PROVE  RestartInv'
<1> USE DEF Enter, RestartInv, RestartTypeOK, OnlyServerMoves, OneAfterTheOther, Settled, Written, Cleared,
            Starting, Stages, NoTarget
<1>1. CASE Bind(p)
  BY <1>1, RestartAssumption DEF Bind
<1>2. CASE Pass(p)
  BY <1>2 DEF Pass, Driving
<1>3. CASE \E v \in {"zero", "moving"} : Commanded(p, v)
  BY <1>3 DEF Commanded
<1> QED
  BY <1>1, <1>2, <1>3

LEMMA RestartNext_Inv == RestartInv /\ [RestartNext]_restartVars => RestartInv'
<1> SUFFICES ASSUME RestartInv, [RestartNext]_restartVars PROVE RestartInv'
  OBVIOUS
<1>1. CASE RestartNext
  BY <1>1, StartKeeps, AloneKeeps, EndKeeps, ServeKeeps DEF RestartNext
<1>2. CASE UNCHANGED restartVars
  BY <1>2 DEF restartVars, RestartInv, RestartTypeOK, OnlyServerMoves, OneAfterTheOther, Settled, Written, Cleared
<1> QED
  BY <1>1, <1>2

LEMMA RestartAlwaysInv == RestartSpec => []RestartInv
  BY RestartInit_Inv, RestartNext_Inv, PTL DEF RestartSpec

\* The start of every listener stays in its types; who has the port is a process
\* that is being served.
THEOREM RestartTypeCorrect == RestartSpec => []RestartTypeOK
<1>1. RestartInv => RestartTypeOK
  BY DEF RestartInv
<1> QED
  BY <1>1, RestartAlwaysInv, PTL

\* Of any number of listeners that start in any order, also at once, only the
\* one that clients reach moves the car.
THEOREM MoverIsServingAlways == RestartSpec => []MoverIsServing
<1>1. RestartInv => MoverIsServing
  BY DEF RestartInv, OnlyServerMoves, MoverIsServing, Moving
<1> QED
  BY <1>1, RestartAlwaysInv, PTL

\* Starts that do not overlap, however many: after the kill nobody is left who
\* moves the car or has the port.
THEOREM OldMoverIsKilledAlways == RestartSpec => []OldMoverIsKilled
<1>1. RestartInv => OldMoverIsKilled
  BY DEF RestartInv, RestartTypeOK, OnlyServerMoves, OneAfterTheOther, OldMoverIsKilled, Moving, Settled, Cleared
<1> QED
  BY <1>1, RestartAlwaysInv, PTL
=============================================================================
