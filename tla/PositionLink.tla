---------------------------- MODULE PositionLink -----------------------------
(***************************************************************************)
(* The position of the tracked object (main/record_trajectory.py; the same *)
(* listener is in main/env.py and main/receive_vr_position.py).  The main  *)
(* thread kills the websocket server that an earlier run has left, starts  *)
(* one and waits for a first position; the listener replaces the global    *)
(* position with each pose that it gets; the recorder looks at it once a   *)
(* second.  An interrupt sets a flag that a thread sees the next time it   *)
(* runs a line of Python, and in recv it runs none until something comes.  *)
(***************************************************************************)
EXTENDS Integers

CONSTANTS None,
          MaxPoses,  \* bound: different poses
          MaxFaults  \* bound: connections that fail or report an error

\* A pose by its place in the order in which they come, and how many numbers the
\* parser makes of it: a "nan" is none, so there may be too few to unpack.
Messages == [n : 1 .. MaxPoses, numbers : {"seven", "few", "none"}]

ASSUME LinkAssumption ==
    MaxPoses \in Nat /\ MaxFaults \in Nat /\ None \notin Nat \cup Messages

VARIABLES old, new,  \* the server of an earlier run, and that of this one
          main,      \* where the main thread is
          listening, \* position_should_be_listening
          listener,  \* where record_position_func is
          position,
          poses,     \* how many have come
          unusable,  \* one was not of seven numbers (history)
          recorder,  \* where write_trajector_func is
          prev_quat, \* the pose whose quaternion it is
          record,    \* the pose last recorded, and the one its angle_change is from
          action,    \* whether send_action has ended (CommandLink has what it does)
          faults

servers == <<old, new>>
mainVars == <<main, listening>>
listenerVars == <<listener, position, poses, unusable, faults>>
recorderVars == <<recorder, prev_quat, record>>
vars == <<servers, mainVars, listenerVars, recorderVars, action>>

TypeOK ==
    /\ old \in {"up", "dying", "down"} /\ new \in {"none", "up", "failed", "down"}
    /\ main \in {"start", "killed", "started", "waiting", "keys", "joining", "ended"}
    /\ listening \in BOOLEAN
    /\ listener \in {"idle", "connecting", "receiving", "ended"}
    /\ position \in Messages \cup {None}
    /\ poses \in 0 .. MaxPoses /\ unusable \in BOOLEAN
    /\ recorder \in {"asleep", "unpacking", "dead", "ended"}
    /\ prev_quat \in 1 .. MaxPoses \cup {None}
    /\ record \in [n : 0 .. MaxPoses, from : 1 .. MaxPoses \cup {None}]
    /\ action \in {"runs", "ended"}
    /\ faults \in 0 .. MaxFaults

Init ==
    /\ old \in {"up", "down"} /\ new = "none"
    /\ main = "start" /\ listening = FALSE
    /\ listener = "idle" /\ position = None /\ poses = 0 /\ unusable = FALSE
    /\ recorder = "asleep" /\ prev_quat = None /\ record = [n |-> 0, from |-> None]
    /\ action = "runs" /\ faults = 0

Stopping == main \in {"joining", "ended"}

\* A server is there that keeps a connection open, whether it sends anything or not.
Serving == old # "down" \/ new = "up"

----------------------------------------------------------------------------
(* The main thread and the servers.                                         *)

\* The file with the id of the old server may not be there, or name another one.
Kill ==
    /\ main = "start" /\ main' = "killed"
    /\ old' \in IF old = "up" THEN {"up", "dying"} ELSE {old}
    /\ UNCHANGED <<new, listening, listenerVars, recorderVars, action>>

OldDies ==
    /\ old = "dying" /\ old' = "down"
    /\ UNCHANGED <<new, mainVars, listenerVars, recorderVars, action>>

\* The port is the same for every server: the new one fails while the old one is
\* there.  A second is waited, whether that is long enough or not.
StartServer ==
    /\ main = "killed" /\ main' = "started"
    /\ new' = IF old = "down" THEN "up" ELSE "failed"
    /\ UNCHANGED <<old, listening, listenerVars, recorderVars, action>>

Listen ==
    /\ main = "started" /\ main' = "waiting" /\ listening' = TRUE
    /\ UNCHANGED <<servers, listenerVars, recorderVars, action>>

Connected ==
    /\ main = "waiting" /\ position # None /\ main' = "keys"
    /\ UNCHANGED <<servers, listening, listenerVars, recorderVars, action>>

\* exit_handler, after a KeyboardInterrupt: every thread is told to stop.  The key
\* reaches the server of this run too, behind its sudo, and may end it.
Interrupt ==
    /\ ~Stopping /\ main' = "joining"
    /\ new' \in IF new = "up" THEN {"up", "down"} ELSE {new}
    /\ UNCHANGED <<old, listening, listenerVars, recorderVars, action>>

\* All three threads are joined, the listener first.
Joined ==
    /\ main = "joining" /\ listener = "ended" /\ recorder \in {"dead", "ended"}
    /\ action = "ended" /\ main' = "ended"
    /\ UNCHANGED <<servers, listening, listenerVars, recorderVars, action>>

----------------------------------------------------------------------------
(* record_position_func.                                                    *)

Awake ==
    /\ listener = "idle" /\ listening /\ ~Stopping /\ listener' = "connecting"
    /\ UNCHANGED <<servers, mainVars, position, poses, unusable, faults, recorderVars, action>>

Connect ==
    /\ listener = "connecting" /\ ~Stopping /\ Serving
    /\ listener' = "receiving"
    /\ UNCHANGED <<servers, mainVars, position, poses, unusable, faults, recorderVars, action>>

\* The next pose of the object: a list takes the place of the list before.  The
\* same pose again, and other messages, change nothing.
Receive(numbers) ==
    /\ listener = "receiving" /\ ~Stopping /\ Serving
    /\ poses < MaxPoses /\ poses' = poses + 1
    /\ position' = [n |-> poses', numbers |-> numbers]
    /\ unusable' = (unusable \/ numbers # "seven")
    /\ UNCHANGED <<servers, mainVars, listener, faults, recorderVars, action>>

\* Mutant: what is known no longer is forgotten.
FailMutant ==
    /\ listener = "receiving" /\ ~Stopping
    /\ listener' = "connecting" /\ position' = None
    /\ IF Serving THEN faults < MaxFaults /\ faults' = faults + 1
       ELSE UNCHANGED faults
    /\ UNCHANGED <<servers, mainVars, poses, unusable, recorderVars, action>>

\* The connection is lost, or the message is an error (for which an undefined
\* name is used, so that it is one more exception): connect again, at once.
Fail ==
    /\ listener = "receiving" /\ ~Stopping
    /\ listener' = "connecting"
    /\ IF Serving THEN faults < MaxFaults /\ faults' = faults + 1
       ELSE UNCHANGED faults
    /\ UNCHANGED <<servers, mainVars, position, poses, unusable, recorderVars, action>>

Lost == ~Serving /\ Fail

\* Mutant: the handler of exceptions catches that of the tracer as well.
ListenerStopsMutant ==
    /\ Stopping /\ listener \in {"idle", "connecting", "receiving"}
    /\ listener = "receiving" => ~Serving
    /\ listener' = IF listener = "idle" THEN "ended" ELSE "connecting"
    /\ UNCHANGED <<servers, mainVars, position, poses, unusable, faults, recorderVars, action>>

\* The tracer raises SystemExit at the next line, which `except Exception` lets pass.
\* A sleep and an attempt to connect come to an end, and so does a recv whose
\* connection is lost.
ListenerStops ==
    /\ Stopping /\ listener \in {"idle", "connecting", "receiving"}
    /\ listener = "receiving" => ~Serving
    /\ listener' = "ended"
    /\ UNCHANGED <<servers, mainVars, position, poses, unusable, faults, recorderVars, action>>

\* Any message ends a recv, and the tracer comes before it is looked at.
MessageStops ==
    /\ Stopping /\ listener = "receiving" /\ Serving /\ listener' = "ended"
    /\ UNCHANGED <<servers, mainVars, position, poses, unusable, faults, recorderVars, action>>

----------------------------------------------------------------------------
(* write_trajector_func.                                                    *)

\* Mutant: nothing is recorded without a connection.
LookMutant ==
    /\ recorder = "asleep" /\ ~Stopping /\ listener = "receiving"
    /\ position # None /\ position.numbers # "none"
    /\ recorder' = "unpacking"
    /\ UNCHANGED <<servers, mainVars, listenerVars, prev_quat, record, action>>

Look ==
    /\ recorder = "asleep" /\ ~Stopping
    /\ position # None /\ position.numbers # "none"
    /\ recorder' = "unpacking"
    /\ UNCHANGED <<servers, mainVars, listenerVars, prev_quat, record, action>>

\* Mutant: the quaternion is kept only when there is none.
RecordMutant ==
    /\ recorder = "unpacking" /\ ~Stopping
    /\ IF position # None /\ position.numbers = "seven"
       THEN /\ recorder' = "asleep"
            /\ prev_quat' = IF prev_quat = None THEN position.n ELSE prev_quat
            /\ record' = [n |-> position.n, from |-> prev_quat]
       ELSE recorder' = "dead" /\ UNCHANGED <<prev_quat, record>>
    /\ UNCHANGED <<servers, mainVars, listenerVars, action>>

\* The position is read again, and may be another one by now.  An exception ends
\* the thread.
Record ==
    /\ recorder = "unpacking" /\ ~Stopping
    /\ IF position # None /\ position.numbers = "seven"
       THEN /\ recorder' = "asleep" /\ prev_quat' = position.n
            /\ record' = [n |-> position.n, from |-> prev_quat]
       ELSE recorder' = "dead" /\ UNCHANGED <<prev_quat, record>>
    /\ UNCHANGED <<servers, mainVars, listenerVars, action>>

RecorderStops ==
    /\ Stopping /\ recorder \notin {"dead", "ended"} /\ recorder' = "ended"
    /\ UNCHANGED <<servers, mainVars, listenerVars, prev_quat, record, action>>

\* The sleeps and the connect of send_action come to an end.
ActionStops ==
    /\ Stopping /\ action = "runs" /\ action' = "ended"
    /\ UNCHANGED <<servers, mainVars, listenerVars, recorderVars>>

----------------------------------------------------------------------------
Next ==
    \/ Kill \/ OldDies \/ StartServer \/ Listen \/ Connected \/ Interrupt \/ Joined
    \/ Awake \/ Connect \/ Fail \/ ListenerStops \/ MessageStops \/ ActionStops
    \/ \E numbers \in {"seven", "few", "none"} : Receive(numbers)
    \/ Look \/ Record \/ RecorderStops

\* A thread runs when it can, and a server that was told to die does.  Nothing makes
\* a server send: the tracker may be off.
Fairness ==
    /\ WF_vars(Kill) /\ WF_vars(OldDies) /\ WF_vars(StartServer) /\ WF_vars(Listen)
    /\ WF_vars(Connected) /\ WF_vars(Joined)
    /\ WF_vars(Awake) /\ WF_vars(Connect) /\ WF_vars(Lost)
    /\ WF_vars(ListenerStops) /\ WF_vars(ActionStops)
    /\ WF_vars(Look) /\ WF_vars(Record) /\ WF_vars(RecorderStops)

Spec == Init /\ [][Next]_vars /\ Fairness

----------------------------------------------------------------------------
\* The recorder lives unless a pose came that cannot be unpacked, whatever happens
\* to the connection between its two looks at the position (record_trajectory.py:166).
RecorderLives == recorder = "dead" => unusable

\* A record is of one pose that came, never of an earlier one than the record
\* before, and its change of angle is from that record.
RecordsFollow ==
    [][record' # record => /\ record'.n \in record.n .. poses
                           /\ record'.from = (IF record.n = 0 THEN None ELSE record.n)]_vars

\* A pose that stays is recorded in the end, also when the recorder has just read
\* the one before, unless the thread is dead or told to stop.
NewestIsRecorded ==
    \A k \in 1 .. MaxPoses :
        (position # None /\ position.n = k) ~>
            \/ record.n >= k \/ recorder = "dead" \/ Stopping
            \/ position # None /\ position.numbers = "none"

\* An interrupt ends the program, unless the listener waits for ever in recv for a
\* message of a server that stays (record_trajectory.py:131): one message or the
\* loss of the connection is enough.
InterruptEnds ==
    main = "joining" ~> (main = "ended" \/ [](listener = "receiving" /\ Serving))
=============================================================================
