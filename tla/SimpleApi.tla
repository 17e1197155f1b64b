------------------------------ MODULE SimpleApi ------------------------------
(***************************************************************************)
(* The simple API of libsurvive (repos/libsurvive/src/survive_api.c), the  *)
(* interface through which an application sees poses and events.           *)
(*                                                                         *)
(* The hooks run on the threads of libsurvive, one at a time under the     *)
(* lock of the context, and take poll_mutex for what they change.  The     *)
(* application calls survive_simple_wait_for_event in a loop: it pops an   *)
(* event under poll_mutex or else, without it, looks through the list of   *)
(* objects for an update.  The wait before that ends with a notification   *)
(* or after 100 ms, so it never keeps the application from going on.       *)
(***************************************************************************)
EXTENDS EventRing, Functions

CONSTANTS Tracked,      \* objects of the devices
          Lighthouses,  \* objects of the base stations
          Externals,    \* objects of external poses
          Known,        \* what survive_simple_init may find, as sequences
          MaxPoses,     \* bound: poses per object
          MaxInserted   \* bound: events

Objects == Tracked \cup Lighthouses \cup Externals

ASSUME ApiAssumption ==
    /\ Known \subseteq Seq(Tracked \cup Lighthouses)
    /\ \A known \in Known : /\ IsInjective(known)
                            /\ Len(known) <= MaxEventSize /\ Len(known) <= MaxInserted
    /\ Events = {"added", "button", "config"} \X Objects \X (1 .. MaxInserted)
    /\ MaxPoses \in Nat \ {0} /\ MaxInserted \in Nat

VARIABLES objects,    \* the list
          hasUpdate, pose,
          hook,       \* the hook that runs: its object and where it is
          running, thread,   \* of survive_simple_start_thread
          app,        \* the application: where it is, and at which object
          told,       \* history: the last pose the application was given
          inserted,   \* history: the number of events so far
          late        \* history: something was written after the application last looked

apiVars == <<objects, hasUpdate, pose, hook, running, thread, app, told, inserted, late>>
vars == <<ringVars, apiVars>>
-----------------------------------------------------------------------------
NoHook == [at |-> "idle", object |-> "none"]
Listed(o) == \E i \in DOMAIN objects : objects[i] = o
MutexFree == hook.at \notin {"flag", "pose"}

ApiTypeOK ==
    /\ objects \in Seq(Objects) /\ IsInjective(objects)
    /\ hasUpdate \in [Objects -> BOOLEAN]
    /\ pose \in [Objects -> 0 .. MaxPoses] /\ told \in [Objects -> 0 .. MaxPoses]
    /\ hook \in [at : {"idle", "announce", "located", "flag", "pose"},
                object : Objects \cup {"none"}]
    /\ running \in BOOLEAN /\ thread \in {"polling", "ended"}
    /\ app \in [at : {"pop", "scan", "clear", "pose", "running", "shutdown", "join", "closed"},
               next : 0 .. Len(objects) + 1]
    /\ inserted \in 0 .. MaxInserted
    /\ late \in BOOLEAN

TypeOK == RingTypeOK /\ ApiTypeOK

\* The application has got its context: survive_simple_init has listed and
\* announced what it knows, and survive_simple_start_thread has been called.  A
\* known lighthouse may have a position already.
Init ==
    /\ objects \in Known
    /\ events = [i \in Indices |->
                    IF i < Len(objects) THEN <<"added", objects[i + 1], i + 1>> ELSE Invalid]
    /\ eventsCnt = Len(objects) /\ eventNextWrite = Len(objects) % MaxEventSize
    /\ popped = <<>>
    /\ hasUpdate \in [Objects -> BOOLEAN]
    /\ \A o \in Objects : hasUpdate[o] => o \in Lighthouses /\ Listed(o)
    /\ pose = [o \in Objects |-> IF hasUpdate[o] THEN 1 ELSE 0]
    /\ hook = NoHook /\ running = TRUE /\ thread = "polling"
    /\ app = [at |-> "pop", next |-> 0]
    /\ told = [o \in Objects |-> 0] /\ inserted = Len(objects) /\ late = FALSE
-----------------------------------------------------------------------------
(* The hooks. *)

\* insert_into_event_buffer.
InsertEvent(kind, o) ==
    /\ inserted < MaxInserted
    /\ inserted' = inserted + 1
    /\ Insert(<<kind, o, inserted + 1>>)

HookAt(point) == hook.at = point
Wrote == late' = (app.at # "pop")
HookOnly == UNCHANGED <<running, thread, app, told>>
Starts == HookAt("idle") /\ thread = "polling"

\* new_object_fn: the object is listed before poll_mutex is taken.
NewObject(o) ==
    /\ Starts /\ o \in Tracked /\ ~Listed(o)
    /\ inserted < MaxInserted
    /\ objects' = Append(objects, o)
    /\ hook' = [at |-> "announce", object |-> o]
    /\ HookOnly /\ UNCHANGED <<ringVars, hasUpdate, pose, inserted, late>>

AnnounceObject ==
    /\ HookAt("announce")
    /\ InsertEvent("added", hook.object)
    /\ hook' = NoHook /\ Wrote
    /\ HookOnly /\ UNCHANGED <<objects, hasUpdate, pose>>

Config(o) ==
    /\ Starts /\ o \in Tracked /\ Listed(o)
    /\ InsertEvent("config", o) /\ Wrote
    /\ HookOnly /\ UNCHANGED <<objects, hasUpdate, pose, hook>>

Button(o) ==
    /\ Starts /\ o \in Tracked /\ Listed(o)
    /\ hasUpdate' = [hasUpdate EXCEPT ![o] = TRUE]
    /\ InsertEvent("button", o) /\ Wrote
    /\ HookOnly /\ UNCHANGED <<objects, pose, hook>>

\* pose_fn: the pose, then the flag; poll_mutex is held until then.
TrackedPose(o) ==
    /\ Starts /\ o \in Tracked /\ Listed(o) /\ pose[o] < MaxPoses
    /\ pose' = [pose EXCEPT ![o] = @ + 1]
    /\ hook' = [at |-> "flag", object |-> o]
    /\ HookOnly /\ UNCHANGED <<ringVars, objects, hasUpdate, inserted, late>>

\* survive_default_raw_lighthouse_pose_process writes the pose of a lighthouse
\* before any hook of this file runs, without poll_mutex.
LighthousePose(o) ==
    /\ Starts /\ o \in Lighthouses /\ pose[o] < MaxPoses
    /\ ~Listed(o) => inserted < MaxInserted
    /\ pose' = [pose EXCEPT ![o] = @ + 1]
    /\ hook' = [at |-> "located", object |-> o]
    /\ HookOnly /\ UNCHANGED <<ringVars, objects, hasUpdate, inserted, late>>

\* lh_fn, which lists and announces a lighthouse that it sees first; such a one
\* has PositionSet, and so an update, from the start.
EnterLighthouse ==
    /\ HookAt("located")
    /\ hook' = [hook EXCEPT !.at = "flag"]
    /\ IF Listed(hook.object)
       THEN UNCHANGED <<ringVars, objects, hasUpdate, inserted, late>>
       ELSE /\ objects' = Append(objects, hook.object)
            /\ hasUpdate' = [hasUpdate EXCEPT ![hook.object] = TRUE]
            /\ InsertEvent("added", hook.object) /\ Wrote
    /\ HookOnly /\ UNCHANGED pose

RaiseFlag ==
    /\ HookAt("flag")
    /\ hasUpdate' = [hasUpdate EXCEPT ![hook.object] = TRUE]
    /\ hook' = NoHook /\ Wrote
    /\ HookOnly /\ UNCHANGED <<ringVars, objects, pose, inserted>>

\* external_pose_fn and external_velocity_fn: the flag, then the pose.
External(o) ==
    /\ Starts /\ o \in Externals /\ pose[o] < MaxPoses
    /\ objects' = IF Listed(o) THEN objects ELSE Append(objects, o)
    /\ hasUpdate' = [hasUpdate EXCEPT ![o] = TRUE]
    /\ hook' = [at |-> "pose", object |-> o]
    /\ HookOnly /\ UNCHANGED <<ringVars, pose, inserted, late>>

ExternalPose ==
    /\ HookAt("pose")
    /\ pose' = [pose EXCEPT ![hook.object] = @ + 1]
    /\ hook' = NoHook /\ Wrote
    /\ HookOnly /\ UNCHANGED <<ringVars, objects, hasUpdate, inserted>>

StartHook ==
    \E o \in Objects : \/ NewObject(o) \/ Config(o) \/ Button(o)
                       \/ TrackedPose(o) \/ LighthousePose(o) \/ External(o)
FinishHook == AnnounceObject \/ EnterLighthouse \/ RaiseFlag \/ ExternalPose
-----------------------------------------------------------------------------
(* __simple_thread.  It ends with the lock of the context held: no hook runs *)
(* then.                                                                   *)

ThreadEnds ==
    /\ thread = "polling" /\ HookAt("idle")
    /\ thread' = "ended" /\ running' = FALSE
    /\ UNCHANGED <<ringVars, objects, hasUpdate, pose, hook, app, told, inserted, late>>
-----------------------------------------------------------------------------
(* The application. *)

AppAt(point) == app.at = point
AppGoes(point) == app' = [app EXCEPT !.at = point]
AppOnly == UNCHANGED <<objects, pose, hook, running, thread, inserted>>

\* survive_simple_next_event: an event if there is one.
PopEvent ==
    /\ AppAt("pop") /\ MutexFree
    /\ late' = FALSE
    /\ \/ Pop /\ UNCHANGED app
       \/ /\ eventsCnt = 0
          /\ app' = [at |-> "scan", next |-> 1]
          /\ UNCHANGED ringVars
    /\ AppOnly /\ UNCHANGED <<hasUpdate, told>>

\* survive_simple_get_next_updated looks at the next object of the list.
\* Mutant: the search ends at the first object that has no update.
ScanMutant ==
    /\ AppAt("scan")
    /\ AppGoes(IF app.next <= Len(objects) /\ hasUpdate[objects[app.next]] THEN "clear" ELSE "running")
    /\ AppOnly /\ UNCHANGED <<ringVars, hasUpdate, told, late>>

Scan ==
    /\ AppAt("scan")
    /\ \/ /\ app.next > Len(objects)
          /\ AppGoes("running")
       \/ /\ app.next <= Len(objects) /\ hasUpdate[objects[app.next]]
          /\ AppGoes("clear")
       \/ /\ app.next <= Len(objects) /\ ~hasUpdate[objects[app.next]]
          /\ app' = [app EXCEPT !.next = @ + 1]
    /\ AppOnly /\ UNCHANGED <<ringVars, hasUpdate, told, late>>

ClearFlag ==
    /\ AppAt("clear")
    /\ hasUpdate' = [hasUpdate EXCEPT ![objects[app.next]] = FALSE]
    /\ AppGoes("pose")
    /\ AppOnly /\ UNCHANGED <<ringVars, told, late>>

\* Mutant: the pose is read without poll_mutex.
ReadPoseMutant ==
    /\ AppAt("pose")
    /\ told' = [told EXCEPT ![objects[app.next]] = pose[objects[app.next]]]
    /\ app' = [at |-> "pop", next |-> 0]
    /\ AppOnly /\ UNCHANGED <<ringVars, hasUpdate, late>>

\* survive_simple_object_get_latest_pose.
ReadPose ==
    /\ AppAt("pose") /\ MutexFree
    /\ told' = [told EXCEPT ![objects[app.next]] = pose[objects[app.next]]]
    /\ app' = [at |-> "pop", next |-> 0]
    /\ AppOnly /\ UNCHANGED <<ringVars, hasUpdate, late>>

\* Mutant: the end of the thread is not looked at.
CheckRunningMutant ==
    /\ AppAt("running")
    /\ app' = [at |-> "pop", next |-> 0]
    /\ AppOnly /\ UNCHANGED <<ringVars, hasUpdate, told, late>>

CheckRunning ==
    /\ AppAt("running")
    /\ app' = [at |-> IF running THEN "pop" ELSE "shutdown", next |-> 0]
    /\ AppOnly /\ UNCHANGED <<ringVars, hasUpdate, told, late>>

\* survive_simple_close, between two calls or after the shutdown.
Close ==
    /\ AppAt("pop") \/ AppAt("shutdown")
    /\ app' = [at |-> "join", next |-> 0]
    /\ running' = FALSE
    /\ UNCHANGED <<ringVars, objects, hasUpdate, pose, hook, thread, told, inserted, late>>

Joined ==
    /\ AppAt("join") /\ thread = "ended"
    /\ AppGoes("closed")
    /\ AppOnly /\ UNCHANGED <<ringVars, hasUpdate, told, late>>

App == PopEvent \/ Scan \/ ClearFlag \/ ReadPose \/ CheckRunning \/ Joined

Next == StartHook \/ FinishHook \/ ThreadEnds \/ App \/ Close

Spec == Init /\ [][Next]_vars

\* The application calls again and again, a hook that began returns, and the
\* thread sees running = false.  No device need send anything.
FairSpec ==
    /\ Spec
    /\ WF_vars(App) /\ WF_vars(FinishHook) /\ WF_vars(~running /\ ThreadEnds)
-----------------------------------------------------------------------------
\* No update is lost between the hooks and the unlocked look at has_update: an
\* object with a pose that the application was not given is flagged, or about to
\* be read, or its hook is about to raise the flag.
NoUpdateIsLost ==
    \A o \in Objects : told[o] # pose[o] =>
        \/ hasUpdate[o]
        \/ hook.at \in {"located", "flag"} /\ hook.object = o
        \/ app.at = "pose" /\ objects[app.next] = o

\* "Shutdown" comes last: when the application gets it, the thread has ended and
\* there is neither an event nor a pose that it has not got, unless one was
\* written after this call looked for it.
ShutdownComesLast ==
    AppAt("shutdown") =>
        /\ ~running
        /\ ~late => eventsCnt = 0 /\ \A o \in Objects : told[o] = pose[o]

\* When the thread has ended, for whatever reason, the application is told.
ShutdownIsTold ==
    thread = "ended" ~> AppAt("shutdown") \/ AppAt("closed")
=============================================================================
