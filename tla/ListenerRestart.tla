--------------------------- MODULE ListenerRestart ---------------------------
(***************************************************************************)
(* The start of the listener on the car (repos/car_code/drive_listener.py) *)
(* while an earlier one may still run.  send_action starts one more over   *)
(* ssh whenever its attempts to connect are used up, without waiting for   *)
(* the last one to be ready, so several may be starting at once.           *)
(*                                                                         *)
(* A start sets up the pins, kills the process named in the pid file,      *)
(* writes its own pid there, starts the driving thread and binds the port. *)
(* When the port is taken the main thread dies of OSError, but the driving *)
(* thread keeps the process alive.                                         *)
(*                                                                         *)
(* What goes on inside a listener is in DriveListener.  Its names are left *)
(* free here, for the two are proved about together.                       *)
(***************************************************************************)
EXTENDS Integers, FiniteSets

CONSTANTS Procs,    \* the listener processes that are started
          Overlap   \* bound: how many of them may be starting at once

Absent == "absent"
Empty == ""
Nobody == "nobody"
NoTarget == {Absent, Empty}

ASSUME RestartAssumption == Overlap \in Nat \ {0} /\ Nobody \notin Procs

VARIABLES stage,      \* stage[p] of the start of p
          pid_file,   \* the process the pid file names; Absent, or Empty
          target,     \* target[p]: what p has read there
          port,       \* the process bound to the port, or Nobody
          velocityOf, \* velocityOf[p]: LiveValues of p: 0, or moving
          dutyOf,     \* dutyOf[p]: what the PWM pins of p are set to
          overlapped  \* history: two processes were starting at once

restartVars == <<stage, pid_file, target, port, velocityOf, dutyOf, overlapped>>
-----------------------------------------------------------------------------
Starting == {"pins", "read", "kill", "wait", "truncate", "write", "drive", "bind"}
Stages == {"unborn", "dead", "serving", "lingering"} \cup Starting
Alive(p) == stage[p] \notin {"unborn", "dead"}
\* The driving thread of p runs.
Driving(p) == stage[p] \in {"bind", "serving", "lingering"}

RestartTypeOK ==
    /\ stage \in [Procs -> Stages]
    /\ pid_file \in Procs \cup NoTarget
    /\ target \in [Procs -> Procs \cup NoTarget]
    /\ port \in {p \in Procs : stage[p] = "serving"} \cup {Nobody}
    /\ velocityOf \in [Procs -> {"zero", "moving"}]
    /\ dutyOf \in [Procs -> {"off", "zero", "moving"}]
    /\ overlapped \in BOOLEAN

RestartInit ==
    /\ stage = [p \in Procs |-> "unborn"]
    /\ pid_file = Absent
    /\ target = [p \in Procs |-> Absent]
    /\ port = Nobody
    /\ velocityOf = [p \in Procs |-> "zero"]
    /\ dutyOf = [p \in Procs |-> "off"]
    /\ overlapped = FALSE
-----------------------------------------------------------------------------
Enter(p, from, to) == stage[p] = from /\ stage' = [stage EXCEPT ![p] = to]

Start(p) ==
    LET others == {q \in Procs : stage[q] \in Starting}
    IN /\ Cardinality(others) < Overlap
       /\ Enter(p, "unborn", "pins")
       /\ overlapped' = (overlapped \/ others # {})
       /\ UNCHANGED <<pid_file, target, port, velocityOf, dutyOf>>

\* "from car_controller import Car" sets up the pins with duty 0.
SetUpPins(p) ==
    /\ Enter(p, "pins", "read")
    /\ dutyOf' = [dutyOf EXCEPT ![p] = "zero"]
    /\ UNCHANGED <<pid_file, target, port, velocityOf>>

ReadPidFile(p) ==
    /\ Enter(p, "read", "kill")
    /\ target' = [target EXCEPT ![p] = pid_file]
    /\ UNCHANGED <<pid_file, port, velocityOf, dutyOf>>

\* SIGTERM: the process ends at once, without its atexit handlers.  The kill
\* is over before the second of sleep is (wait).  What level it leaves on the pins
\* is not kept: "off" is a process that writes no more.
End(q) ==
    /\ Alive(q)
    /\ port' = IF port = q THEN Nobody ELSE port
    /\ dutyOf' = [dutyOf EXCEPT ![q] = "off"]

\* Mutant: the start goes on without having killed anybody.
KillMutant(p) ==
    /\ Enter(p, "kill", "wait")
    /\ UNCHANGED <<pid_file, target, port, velocityOf, dutyOf>>

Kill(p) ==
    LET victims == {q \in Procs \ {p} : q = target[p] /\ Alive(q)}
    IN \/ /\ victims = {}
          /\ Enter(p, "kill", "wait")
          /\ UNCHANGED <<pid_file, target, port, velocityOf, dutyOf>>
       \/ \E q \in victims :
             /\ stage[p] = "kill"
             /\ End(q)
             /\ stage' = [stage EXCEPT ![p] = "wait", ![q] = "dead"]
             /\ UNCHANGED <<pid_file, target, velocityOf>>

Wake(p) ==
    /\ Enter(p, "wait", "truncate")
    /\ UNCHANGED <<pid_file, target, port, velocityOf, dutyOf>>

\* open(pid_path, 'w+') empties the file; the pid is in it when it is closed.
Truncate(p) ==
    /\ Enter(p, "truncate", "write")
    /\ pid_file' = Empty
    /\ UNCHANGED <<target, port, velocityOf, dutyOf>>

WritePid(p) ==
    /\ Enter(p, "write", "drive")
    /\ pid_file' = p
    /\ UNCHANGED <<target, port, velocityOf, dutyOf>>

StartDriving(p) ==
    /\ Enter(p, "drive", "bind")
    /\ UNCHANGED <<pid_file, target, port, velocityOf, dutyOf>>

\* Mutant: the port can be bound once more while another process has it.
BindMutant(p) ==
    /\ Enter(p, "bind", "serving")
    /\ port' = p
    /\ UNCHANGED <<pid_file, target, velocityOf, dutyOf>>

Bind(p) ==
    /\ UNCHANGED <<pid_file, target, velocityOf, dutyOf>>
    /\ \/ port = Nobody /\ Enter(p, "bind", "serving") /\ port' = p
       \/ port # Nobody /\ Enter(p, "bind", "lingering") /\ UNCHANGED port

\* A process ends for another reason: its ssh session, an error.
Die(p) ==
    /\ End(p)
    /\ stage' = [stage EXCEPT ![p] = "dead"]
    /\ UNCHANGED <<pid_file, target, velocityOf>>

\* A command arrives, or the last one is too old (DriveListener).
Commanded(p, v) ==
    /\ stage[p] = "serving"
    /\ velocityOf' = [velocityOf EXCEPT ![p] = v]
    /\ UNCHANGED <<stage, pid_file, target, port, dutyOf>>

\* A pass of the driving thread.
Pass(p) ==
    /\ Driving(p)
    /\ dutyOf' = [dutyOf EXCEPT ![p] = velocityOf[p]]
    /\ UNCHANGED <<stage, pid_file, target, port, velocityOf>>

RestartNext ==
    \E p \in Procs :
        \/ Start(p)
        \/ /\ \/ SetUpPins(p) \/ ReadPidFile(p) \/ Kill(p) \/ Wake(p)
              \/ Truncate(p) \/ WritePid(p) \/ StartDriving(p) \/ Bind(p) \/ Die(p)
              \/ \E v \in {"zero", "moving"} : Commanded(p, v)
              \/ Pass(p)
           /\ UNCHANGED overlapped

RestartSpec == RestartInit /\ [][RestartNext]_restartVars
-----------------------------------------------------------------------------
Moving == {p \in Procs : dutyOf[p] = "moving"}

\* Two processes never move the car at the same time, and one that moves it is
\* the one that clients reach: its commands can still stop it.
MoverIsServing == \A p \in Moving : port = p

\* Starting over, one start after the other: from the kill until the new process
\* has bound the port, no older one is left that moves the car or has the port.
OldMoverIsKilled ==
    ~overlapped =>
        \A p \in Procs :
            stage[p] \in {"wait", "truncate", "write", "drive", "bind"} =>
                Moving = {} /\ port = Nobody
=============================================================================
