------------------------ MODULE PositionLink_proofs -------------------------
(***************************************************************************)
(* For any number of poses and of failures: what the recorder writes, and  *)
(* when it dies.                                                           *)
(***************************************************************************)
EXTENDS PositionLink, TLAPS

\* The poses that are kept are among those that came, in their order; the
\* quaternion kept is the one of the last record; a position that the recorder
\* has seen stays one, and one that cannot be unpacked was counted as such.
IInv ==
    /\ poses \in 0 .. MaxPoses /\ unusable \in BOOLEAN
    /\ position \in Messages \cup {None}
    /\ record \in [n : 0 .. MaxPoses, from : Nat \cup {None}]
    /\ position # None => position.n = poses /\ record.n <= poses
    /\ position # None /\ position.numbers # "seven" => unusable
    /\ position = None => record.n = 0 /\ recorder \notin {"unpacking", "dead"}
    /\ prev_quat = IF record.n = 0 THEN None ELSE record.n
    /\ RecorderLives

LEMMA InitIInv == Init => IInv
<1> SUFFICES ASSUME Init PROVE IInv
  OBVIOUS
<1>1. position = None /\ poses = 0 /\ unusable = FALSE /\ recorder = "asleep"
  BY DEF Init
<1>2. record = [n |-> 0, from |-> None] /\ prev_quat = None
  BY DEF Init
<1>3. record \in [n : 0 .. MaxPoses, from : Nat \cup {None}] /\ record.n = 0
  BY <1>2, LinkAssumption
<1> QED
  BY <1>1, <1>2, <1>3, LinkAssumption DEF IInv, RecorderLives

\* Every step keeps the invariant, and a record follows the one before.
LEMMA NextIInv == IInv /\ [Next]_vars =>
    /\ IInv'
    /\ record' # record => /\ record'.n \in record.n .. poses
                           /\ record'.from = (IF record.n = 0 THEN None ELSE record.n)
<1> SUFFICES ASSUME IInv, [Next]_vars
             PROVE  /\ IInv'
                    /\ record' # record => /\ record'.n \in record.n .. poses
                                           /\ record'.from = (IF record.n = 0 THEN None ELSE record.n)
  OBVIOUS
<1> USE LinkAssumption DEF IInv, RecorderLives, Stopping, Messages, servers, mainVars, listenerVars, recorderVars
<1>1. CASE Kill \/ OldDies \/ StartServer \/ Listen \/ Connected \/ Interrupt \/ Joined
  BY <1>1 DEF Kill, OldDies, StartServer, Listen, Connected, Interrupt, Joined
<1>2. CASE Awake \/ Connect \/ Fail \/ ListenerStops \/ MessageStops \/ ActionStops
  BY <1>2 DEF Awake, Connect, Fail, ListenerStops, MessageStops, ActionStops
<1>3. ASSUME NEW numbers \in {"seven", "few", "none"}, Receive(numbers)
      PROVE  IInv' /\ UNCHANGED record
  <2>1. poses' \in 0 .. MaxPoses /\ poses' \in 1 .. MaxPoses /\ poses' = poses + 1
    BY <1>3 DEF Receive
  <2>2. position' = [n |-> poses', numbers |-> numbers]
    BY <1>3 DEF Receive
  <2>3. position' \in Messages /\ position' # None
        /\ position'.n = poses' /\ position'.numbers = numbers
    BY <2>1, <2>2
  <2>4. unusable' = (unusable \/ numbers # "seven")
    BY <1>3 DEF Receive
  <2>5. UNCHANGED <<record, prev_quat, recorder>>
    BY <1>3 DEF Receive
  <2>6. record.n <= poses'
    BY <2>1
  <2>7. unusable' \in BOOLEAN /\ (unusable => unusable') /\ (numbers # "seven" => unusable')
    BY <2>4
  <2> QED  BY <2>1, <2>3, <2>5, <2>6, <2>7
<1>4. CASE Look
  BY <1>4 DEF Look
<1>5. CASE Record
  <2>1. position # None
    BY <1>5 DEF Record
  <2>2. CASE position.numbers = "seven"
    BY <1>5, <2>1, <2>2 DEF Record
  <2>3. CASE position.numbers # "seven"
    BY <1>5, <2>1, <2>3 DEF Record
  <2> QED  BY <2>2, <2>3
<1>6. CASE RecorderStops
  BY <1>6 DEF RecorderStops
<1>7. CASE UNCHANGED vars
  BY <1>7 DEF vars
<1> QED  BY <1>1, <1>2, <1>3, <1>4, <1>5, <1>6, <1>7 DEF Next

LEMMA SpecIInv == Spec => []IInv
  BY InitIInv, NextIInv, PTL DEF Spec

\* The rest of the types: what the threads and servers say of themselves.
LEMMA NextType == IInv /\ TypeOK /\ [Next]_vars => TypeOK'
<1> SUFFICES ASSUME IInv, TypeOK, [Next]_vars PROVE TypeOK'
  OBVIOUS
<1> USE LinkAssumption DEF TypeOK, Stopping, servers, mainVars, listenerVars, recorderVars
<1>1. CASE Kill \/ OldDies \/ StartServer \/ Listen \/ Connected \/ Interrupt \/ Joined
  <2>1. UNCHANGED <<listener, position, poses, unusable, faults, recorder, prev_quat, record>>
    BY <1>1 DEF Kill, OldDies, StartServer, Listen, Connected, Interrupt, Joined
  <2>2. /\ old' \in {"up", "dying", "down"} /\ new' \in {"none", "up", "failed", "down"}
        /\ UNCHANGED action
    BY <1>1 DEF Kill, OldDies, StartServer, Listen, Connected, Interrupt, Joined
  <2>3. /\ main' \in {"start", "killed", "started", "waiting", "keys", "joining", "ended"}
        /\ listening' \in BOOLEAN
    BY <1>1 DEF Kill, OldDies, StartServer, Listen, Connected, Interrupt, Joined
  <2> QED
    BY <2>1, <2>2, <2>3
<1>2. CASE Awake \/ Connect \/ Fail \/ ListenerStops \/ MessageStops \/ ActionStops
  <2>1. faults' \in 0 .. MaxFaults /\ UNCHANGED <<servers, mainVars, position, poses, unusable, recorderVars>>
    BY <1>2 DEF Awake, Connect, Fail, ListenerStops, MessageStops, ActionStops
  <2>2. listener' \in {"idle", "connecting", "receiving", "ended"} /\ action' \in {"runs", "ended"}
    BY <1>2 DEF Awake, Connect, Fail, ListenerStops, MessageStops, ActionStops
  <2> QED
    BY <2>1, <2>2
<1>3. ASSUME NEW numbers \in {"seven", "few", "none"}, Receive(numbers)
      PROVE  TypeOK'
  <2>1. poses' \in 1 .. MaxPoses /\ position' = [n |-> poses', numbers |-> numbers]
    BY <1>3 DEF Receive
  <2>2. position' \in Messages
    BY <2>1 DEF Messages
  <2> QED
    BY <1>3, <2>1, <2>2 DEF Receive
<1>4. CASE Look \/ RecorderStops
  BY <1>4 DEF Look, RecorderStops
<1>5. CASE Record
  <2>1. CASE position # None /\ position.numbers = "seven"
    <3>1. position.n \in 1 .. MaxPoses
      BY <2>1 DEF Messages
    <3>2. record' \in [n : 0 .. MaxPoses, from : 1 .. MaxPoses \cup {None}]
      BY <1>5, <2>1, <3>1 DEF Record
    <3> QED
      BY <1>5, <2>1, <3>1, <3>2 DEF Record
  <2>2. CASE ~(position # None /\ position.numbers = "seven")
    BY <1>5, <2>2 DEF Record
  <2> QED  BY <2>1, <2>2
<1>6. CASE UNCHANGED vars
  BY <1>6 DEF vars
<1> QED  BY <1>1, <1>2, <1>3, <1>4, <1>5, <1>6 DEF Next

\* Whatever happens to servers and connections, the variables stay in their types.
THEOREM PositionTypeCorrect == Spec => []TypeOK
<1>1. Init => TypeOK
  <2> SUFFICES ASSUME Init PROVE TypeOK
    OBVIOUS
  <2>1. record \in [n : 0 .. MaxPoses, from : 1 .. MaxPoses \cup {None}]
    BY LinkAssumption DEF Init
  <2>2. poses \in 0 .. MaxPoses /\ faults \in 0 .. MaxFaults
    BY LinkAssumption DEF Init
  <2> QED
    BY <2>1, <2>2 DEF Init, TypeOK
<1> QED  BY <1>1, NextType, SpecIInv, PTL DEF Spec

\* The recorder dies only of a pose that cannot be unpacked, and never because the
\* position is replaced between its two looks (record_trajectory.py:166-167).
THEOREM RecorderLivesAlways == Spec => []RecorderLives
<1>1. IInv => RecorderLives
  BY DEF IInv
<1> QED  BY <1>1, SpecIInv, PTL

\* Records are of poses that came, in their order, and the change of angle of each
\* is from the one before (record_trajectory.py:169-171).
THEOREM RecordsFollowAlways == Spec => RecordsFollow
<1>1. IInv /\ [Next]_vars =>
        [record' # record => /\ record'.n \in record.n .. poses
                             /\ record'.from = (IF record.n = 0 THEN None ELSE record.n)]_vars
  BY NextIInv
<1> QED  BY <1>1, SpecIInv, PTL DEF Spec, RecordsFollow
=============================================================================
