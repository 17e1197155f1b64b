---------------------------- MODULE PoserThreads ----------------------------
(***************************************************************************)
(* Who computes poses (repos/libsurvive/src): the polling thread hands the *)
(* syncs of a tracker to the thread of its poser (poser.c); that thread,   *)
(* and the one that solves for the lighthouses                             *)
(* (driver_global_scene_solver.c), take the lock of the context and give   *)
(* it up again while the optimizer runs (poser_mpfit.c).  A tracker that   *)
(* is pulled out, and the close of the context, end these threads.         *)
(*                                                                         *)
(* A stretch of code under one hold of the lock of the context, or of the  *)
(* mutex of a condition variable, is one step unless the lock is given up  *)
(* in it.  So only the polling thread is seen to hold the lock; the other  *)
(* threads need it free.                                                   *)
(***************************************************************************)
EXTENDS Integers, Sequences

CONSTANTS Devices, None,
          MaxSyncs    \* bound: the syncs of each device

ASSUME PoserAssumption == None \notin Devices /\ MaxSyncs \in [Devices -> Nat]

VARIABLES lock,     \* of the context: "poll", "free", or "aborted" with the program
          phase,    \* "open", "solver" and "devices" being closed, "closed"
          leaving,  \* the device whose thread survive_poll waits for, or None
          dev,      \* "away", "in", "out", or "gone" when it is freed
          objs, ct, \* objs and objs_ct: what is beyond ct is stale
          pc, active, new, data, basis,    \* the thread of each device's poser
          gpc, gactive, needs, ootx,        \* the solver's
          using     \* the devices it works with while it has not got the lock

poser == <<pc, active, new, data, basis>>
solver == <<gpc, gactive, needs, ootx, using>>
world == <<leaving, phase, dev, objs, ct>>
vars == <<lock, world, poser, solver>>

(***************************************************************************)
(* Where a thread is.  "awake" and "back": about to look for work, after a *)
(* wait or a run; "found": the solver's, its flag not cleared yet; "want": *)
(* wants the lock; "solve": in the optimizer, without it.                  *)
(***************************************************************************)
Places == {"start", "wait", "awake", "back", "found", "want", "solve", "ended"}

TypeOK ==
    /\ lock \in {"poll", "free", "aborted"}
    /\ phase \in {"open", "solver", "devices", "closed"}
    /\ leaving \in Devices \cup {None}
    /\ dev \in [Devices -> {"away", "in", "out", "gone"}]
    /\ objs \in Seq(Devices) /\ ct \in 0 .. Len(objs)
    /\ pc \in [Devices -> Places \ {"found"}]
    /\ active \in [Devices -> BOOLEAN] /\ new \in [Devices -> BOOLEAN]
    /\ data \in [Devices -> Nat] /\ basis \in [Devices -> Nat]
    /\ gpc \in Places /\ {gactive, needs, ootx} \subseteq BOOLEAN
    /\ using \subseteq Devices

Init ==
    /\ lock = "poll" /\ phase = "open" /\ leaving = None
    /\ dev = [d \in Devices |-> "away"] /\ objs = <<>> /\ ct = 0
    /\ pc = [d \in Devices |-> "ended"] /\ gpc = "start" /\ gactive = TRUE
    /\ active = [d \in Devices |-> FALSE] /\ new = [d \in Devices |-> FALSE]
    /\ data = [d \in Devices |-> 0] /\ basis = [d \in Devices |-> 0]
    /\ needs = FALSE /\ ootx = FALSE /\ using = {}

\* The polling thread is at work, with the lock.
Polling == lock = "poll" /\ leaving = None

\* OGSignalCond: a thread that does not wait misses it.
Signalled(at) == IF at = "wait" THEN "awake" ELSE at

----------------------------------------------------------------------------
\* The polling thread gives the lock up while it waits for the bus.
Yield == Polling /\ phase = "open" /\ lock' = "free" /\ UNCHANGED <<world, poser, solver>>

Take == lock = "free" /\ leaving = None /\ lock' = "poll" /\ UNCHANGED <<world, poser, solver>>

\* survive_add_object: stored after the others, over what is stale.
Added(d) ==
    /\ objs' = [i \in 1 .. (IF ct = Len(objs) THEN ct + 1 ELSE Len(objs)) |->
                   IF i = ct + 1 THEN d ELSE objs[i]]
    /\ ct' = ct + 1

\* survive_create_device, with the thread of its poser: from the callback of a
\* configuration, while the polling thread waits for the bus without the lock.
Attach(d) ==
    /\ lock = "free" /\ leaving = None /\ phase = "open" /\ dev[d] = "away"
    /\ dev' = [dev EXCEPT ![d] = "in"]
    /\ Added(d)
    /\ pc' = [pc EXCEPT ![d] = "start"]
    /\ active' = [active EXCEPT ![d] = TRUE]
    /\ UNCHANGED <<lock, phase, leaving, new, data, basis, solver>>

\* Mutant: the solver is told only with the scene itself.
CheckScenesMutant(add, late) ==
    IF gpc = "solve" THEN UNCHANGED <<needs, gpc>>
    ELSE /\ needs' = (needs \/ (add /\ ootx))
         /\ gpc' = IF needs' /\ add THEN Signalled(gpc) ELSE gpc

(***************************************************************************)
(* check_for_new_objects and check_object, after every packet: both try    *)
(* the lock of the scenes, which is the solver's while it solves.  add: a  *)
(* scene is taken; late: a second has passed since the last one.           *)
(***************************************************************************)
CheckScenes(add, late) ==
    IF gpc = "solve" THEN UNCHANGED <<needs, gpc>>
    ELSE /\ needs' = (needs \/ (add /\ ootx))
         /\ gpc' = IF needs' /\ late THEN Signalled(gpc) ELSE gpc

\* Mutant: the flag is left to the signal.
HandOverMutant(d) ==
    /\ data' = [data EXCEPT ![d] = @ + 1]
    /\ new' = [new EXCEPT ![d] = @ \/ pc[d] = "wait"]
    /\ pc' = [pc EXCEPT ![d] = Signalled(@)]

\* POSERDATA_SYNC of survive_threaded_poser_fn: copied, over what is there.
HandOver(d) ==
    /\ data' = [data EXCEPT ![d] = @ + 1]
    /\ new' = [new EXCEPT ![d] = TRUE]
    /\ pc' = [pc EXCEPT ![d] = Signalled(@)]

Sync(d) ==
    /\ Polling /\ phase = "open" /\ dev[d] = "in" /\ data[d] < MaxSyncs[d]
    /\ HandOver(d)
    /\ \E add, late \in BOOLEAN : CheckScenes(add, late)
    /\ UNCHANGED <<lock, world, active, basis, gactive, ootx, using>>

\* imu_fn and light_pulse_fn.
Packet(d, add, late) ==
    /\ Polling /\ phase = "open" /\ dev[d] = "in"
    /\ CheckScenes(add, late)
    /\ UNCHANGED <<lock, world, poser, gactive, ootx, using>>

\* ootx_recv, when the last lighthouse is known.
OotxReceived ==
    /\ Polling /\ phase = "open" /\ ct > 0
    /\ ootx' = TRUE /\ needs' = TRUE
    /\ UNCHANGED <<lock, world, poser, gpc, gactive, using>>

----------------------------------------------------------------------------
\* survive_destroy_device: the last object takes its place.
Removed(d) ==
    /\ objs' = [i \in 1 .. Len(objs) |-> IF objs[i] = d /\ i <= ct THEN objs[ct] ELSE objs[i]]
    /\ ct' = ct - 1

\* Mutant: the lock is kept.
DisassociateMutant(d) ==
    /\ active' = [active EXCEPT ![d] = FALSE]
    /\ pc' = [pc EXCEPT ![d] = Signalled(@)]
    /\ lock' = lock /\ leaving' = d

\* POSERDATA_DISASSOCIATE of survive_threaded_poser_fn, up to its join.
Disassociate(d) ==
    /\ active' = [active EXCEPT ![d] = FALSE]
    /\ pc' = [pc EXCEPT ![d] = Signalled(@)]
    /\ lock' = "free" /\ leaving' = d

\* A tracker is pulled out, or the driver that owns it is closed.
Destroy(d) ==
    /\ Polling /\ phase \in {"open", "devices"} /\ dev[d] = "in"
    /\ dev' = [dev EXCEPT ![d] = "out"]
    /\ Removed(d) /\ Disassociate(d)
    /\ UNCHANGED <<phase, new, data, basis, solver>>

\* The rest: the thread has ended, the lock is back, the poser is freed.
Joined ==
    /\ leaving # None /\ pc[leaving] = "ended" /\ lock = "free"
    /\ dev' = [dev EXCEPT ![leaving] = "gone"]
    /\ lock' = "poll" /\ leaving' = None
    /\ UNCHANGED <<phase, objs, ct, poser, solver>>

\* Mutant: the solver is not told.
CloseSolverMutant ==
    /\ Polling /\ phase = "open" /\ phase' = "solver"
    /\ needs' = FALSE /\ gactive' = FALSE
    /\ UNCHANGED <<lock, leaving, dev, objs, ct, poser, gpc, ootx, using>>

\* survive_close, DriverRegGlobalSceneSolverClose: a join, and the lock kept.
CloseSolver ==
    /\ Polling /\ phase = "open" /\ phase' = "solver"
    /\ needs' = FALSE /\ gactive' = FALSE /\ gpc' = Signalled(gpc)
    /\ UNCHANGED <<lock, leaving, dev, objs, ct, poser, ootx, using>>

\* Mutant: the devices are closed without waiting for the solver.
SolverJoinedMutant ==
    /\ Polling /\ phase = "solver"
    /\ phase' = "devices"
    /\ UNCHANGED <<lock, leaving, dev, objs, ct, poser, solver>>

\* On with the devices, once the solver's thread has ended.
SolverJoined ==
    /\ Polling /\ phase = "solver" /\ gpc = "ended"
    /\ phase' = "devices"
    /\ UNCHANGED <<lock, leaving, dev, objs, ct, poser, solver>>

Closed ==
    /\ Polling /\ phase = "devices" /\ ct = 0
    /\ phase' = "closed"
    /\ UNCHANGED <<lock, leaving, dev, objs, ct, poser, solver>>

----------------------------------------------------------------------------
\* survive_threaded_poser_thread_fn: first it waits, then it looks.
Start(d) ==
    /\ pc[d] = "start"
    /\ pc' = [pc EXCEPT ![d] = IF active[d] THEN "wait" ELSE "ended"]
    /\ UNCHANGED <<lock, world, active, new, data, basis, solver>>

\* Mutant: one look for each wait.
LookMutant(d) ==
    /\ pc[d] \in {"awake", "back"}
    /\ new' = [new EXCEPT ![d] = @ /\ pc[d] = "back"]
    /\ pc' = [pc EXCEPT ![d] = IF new[d] /\ @ = "awake" THEN "want"
                               ELSE IF active[d] THEN "wait" ELSE "ended"]
    /\ UNCHANGED <<lock, world, active, data, basis, solver>>

\* The loop over has_new_data, cleared before the data is used.
Look(d) ==
    /\ pc[d] \in {"awake", "back"}
    /\ new' = [new EXCEPT ![d] = FALSE]
    /\ pc' = [pc EXCEPT ![d] = IF new[d] THEN "want" ELSE IF active[d] THEN "wait" ELSE "ended"]
    /\ UNCHANGED <<lock, world, active, data, basis, solver>>

\* pthread_cond_wait may return for no reason.
Spurious(d) ==
    /\ pc[d] = "wait" /\ pc' = [pc EXCEPT ![d] = "awake"]
    /\ UNCHANGED <<lock, world, active, new, data, basis, solver>>

\* PoserMPFIT up to the optimizer, or all of it when there is nothing to compute.
Run(d) ==
    /\ pc[d] = "want" /\ lock = "free"
    /\ basis' = [basis EXCEPT ![d] = data[d]]
    /\ \E at \in {"solve", "back"} : pc' = [pc EXCEPT ![d] = at]
    /\ UNCHANGED <<lock, world, active, new, data, solver>>

\* handle_results: the pose gets the time that is in data now.
Report(d) ==
    /\ pc[d] = "solve" /\ lock = "free"
    /\ pc' = [pc EXCEPT ![d] = "back"]
    /\ UNCHANGED <<lock, world, active, new, data, basis, solver>>

----------------------------------------------------------------------------
\* survive_threaded_gss_thread_fn.
SolverStart ==
    /\ gpc = "start" /\ gpc' = IF gactive THEN "wait" ELSE "ended"
    /\ UNCHANGED <<lock, world, poser, gactive, needs, ootx, using>>

SolverLook ==
    /\ gpc \in {"awake", "back"}
    /\ gpc' = IF needs THEN "found" ELSE IF gactive THEN "wait" ELSE "ended"
    /\ UNCHANGED <<lock, world, poser, gactive, needs, ootx, using>>

SolverSpurious ==
    /\ gpc = "wait" /\ gpc' = "awake"
    /\ UNCHANGED <<lock, world, poser, gactive, needs, ootx, using>>

\* The flag is cleared with neither lock held.
SolverClear ==
    /\ gpc = "found" /\ gpc' = "want" /\ needs' = FALSE
    /\ UNCHANGED <<lock, world, poser, gactive, ootx, using>>

(***************************************************************************)
(* run_optimization: the poser of objs[0] is asked, through the function   *)
(* that asserts it is there, and gives up the lock to solve what can be:   *)
(* with the data of that poser and the devices of its scenes (taken).      *)
(* These may be of any device that was ever there: a scene is not removed  *)
(* with its device.                                                        *)
(***************************************************************************)
Solve ==
    /\ gpc = "want" /\ lock = "free"
    /\ IF dev[objs[1]] = "gone" THEN lock' = "aborted" /\ gpc' = "back" /\ using' = {}
       ELSE /\ lock' = lock
            /\ \/ gpc' = "back" /\ using' = {}
               \/ \E taken \in SUBSET {d \in Devices : dev[d] # "away"} :
                     taken # {} /\ gpc' = "solve" /\ using' = taken \cup {objs[1]}
    /\ UNCHANGED <<world, poser, gactive, needs, ootx>>

\* The lock is back, the result is used, and after that none of the devices.
Solved ==
    /\ gpc = "solve" /\ lock = "free" /\ gpc' = "back"
    /\ using' = {}
    /\ UNCHANGED <<lock, world, poser, gactive, needs, ootx>>

----------------------------------------------------------------------------
PollStep(d) ==
    Attach(d) \/ Sync(d) \/ Destroy(d) \/ \E add, late \in BOOLEAN : Packet(d, add, late)

PoserStep(d) == Start(d) \/ Look(d) \/ Run(d) \/ Report(d)

SolverStep == SolverStart \/ SolverLook \/ SolverClear \/ Solve \/ Solved

Next ==
    \/ Yield \/ Take \/ OotxReceived \/ Joined \/ CloseSolver \/ SolverJoined \/ Closed
    \/ \E d \in Devices : PollStep(d) \/ PoserStep(d) \/ Spurious(d)
    \/ SolverStep \/ SolverSpurious

(***************************************************************************)
(* The threads go on and, as the polling thread waits for the bus without  *)
(* the lock, each gets the lock now and then.  A tracker that is in sends  *)
(* motion several hundred times a second.                                  *)
(***************************************************************************)
Fairness ==
    /\ WF_vars(Yield) /\ WF_vars(Take) /\ SF_vars(Joined)
    /\ WF_vars(SolverJoined) /\ WF_vars(Closed) /\ SF_vars(SolverStep)
    /\ \A d \in Devices :
          /\ SF_vars(PoserStep(d)) /\ SF_vars(Packet(d, FALSE, TRUE))
          /\ WF_vars(phase = "devices" /\ Destroy(d))

Spec == Init /\ [][Next]_vars /\ Fairness

----------------------------------------------------------------------------
\* A pose is stamped with the time of another sync than it was computed from
\* (poser_mpfit.c:1131) only if that sync is still to be run: such a pose is
\* never the last one.
SkewIsPending ==
    \A d \in Devices : pc[d] = "solve" /\ basis[d] # data[d] => new[d]

\* A sync is waited on, instead of used, only when its signal was sent before
\* the thread first waited (poser.c:433).
MissedOnlyAtFirst ==
    \A d \in Devices : pc[d] = "wait" /\ new[d] => basis[d] = 0

\* A device is freed when nothing uses it any more: not its own thread, wherever
\* that was, and not the solver, which works without the lock (poser_mpfit.c:930).
\* The close sees to both, in its order.  A device that is pulled out while the
\* solver works with it is freed all the same: nothing in the code prevents it.
FreedUnused ==
    [][\A d \in Devices : dev[d] # "gone" /\ dev'[d] = "gone" =>
           pc[d] = "ended" /\ (d \in using => phase = "open")]_vars

\* The close keeps the lock and waits for a thread that wants it.
Stuck == phase = "solver" /\ gpc \in {"found", "want", "solve"}

\* The newest sync of a device is used in the end, unless its signal was missed
\* or the device was pulled out before its thread first waited.
NewestIsUsed ==
    \A d \in Devices :
        new[d] ~> ~new[d] \/ pc[d] \in {"wait", "ended"} \/ Stuck \/ lock = "aborted"

\* A tracker that is pulled out is freed in the end: its thread cannot be
\* waiting for the lock that the waiting thread holds.
LeavingEnds == \A d \in Devices : dev[d] = "out" ~> dev[d] = "gone" \/ lock = "aborted"

\* When the lighthouses have to be solved for they are, while a tracker is in.
NeedIsServed == needs ~> ~needs \/ ct = 0 \/ phase # "open" \/ lock = "aborted"

\* Closing ends, unless the solver wants the lock which the close keeps
\* (driver_global_scene_solver.c:281).
CloseEnds == phase = "solver" ~> phase = "closed" \/ Stuck

\* assert(self) of poser.c:467: an object that is given data has a poser.
PoserIsThere == lock # "aborted"
=============================================================================
