------------------------ MODULE PoserThreads_proofs -------------------------
(***************************************************************************)
(* For any devices and any number of syncs: how a poser's thread, the      *)
(* syncs handed to it and the life of its device go together.              *)
(***************************************************************************)
EXTENDS PoserThreads, TLAPS

\* The part of the type invariant that the invariants of a poser's thread rest on.
ThreadTypes ==
    /\ leaving \in Devices \cup {None}
    /\ dev \in [Devices -> {"away", "in", "out", "gone"}]
    /\ pc \in [Devices -> Places \ {"found"}]
    /\ active \in [Devices -> BOOLEAN] /\ new \in [Devices -> BOOLEAN]
    /\ data \in [Devices -> Nat] /\ basis \in [Devices -> Nat]

\* A device that is not there yet has no thread, and a thread that has not waited
\* has used nothing.
NotBegun ==
    \A d \in Devices :
        /\ dev[d] = "away" => pc[d] = "ended"
        /\ dev[d] = "away" \/ pc[d] = "start" => basis[d] = 0

IInv ==
    /\ ThreadTypes /\ NotBegun
    /\ SkewIsPending /\ MissedOnlyAtFirst

\* The invariant holds at first: no device is there.
LEMMA InitIInv == Init => IInv
  BY PoserAssumption DEF Init, IInv, ThreadTypes, NotBegun, SkewIsPending,
     MissedOnlyAtFirst, Places

\* A signal wakes a thread that waits and leaves any other where it is.
LEMMA SignalledType ==
  ASSUME NEW at \in Places \ {"found"}
  PROVE  /\ Signalled(at) \in Places \ {"found", "wait"}
         /\ at # "wait" => Signalled(at) = at
         /\ at = "wait" => Signalled(at) = "awake"
  BY DEF Signalled, Places

\* The polling thread adds a device: a new thread, which has used nothing.
LEMMA AttachIInv ==
  ASSUME IInv, NEW d \in Devices, Attach(d)
  PROVE  IInv'
  BY PoserAssumption DEF Attach, Added, Polling, solver, IInv, ThreadTypes, NotBegun,
     SkewIsPending, MissedOnlyAtFirst, Places

\* A sync is handed over: it is pending, and its thread does not wait.
LEMMA SyncIInv ==
  ASSUME IInv, NEW d \in Devices, Sync(d)
  PROVE  IInv'
<1>1. /\ data' = [data EXCEPT ![d] = @ + 1]
      /\ new' = [new EXCEPT ![d] = TRUE]
      /\ pc' = [pc EXCEPT ![d] = Signalled(@)]
      /\ dev[d] = "in"
      /\ UNCHANGED <<leaving, dev, active, basis>>
  BY DEF Sync, HandOver, world
<1>2. pc[d] \in Places \ {"found"}
  BY DEF IInv, ThreadTypes
<1>3. /\ Signalled(pc[d]) \in Places \ {"found", "wait"}
      /\ pc[d] # "wait" => Signalled(pc[d]) = pc[d]
      /\ pc[d] = "wait" => Signalled(pc[d]) = "awake"
  BY <1>2, SignalledType
<1>4. ThreadTypes'
  BY <1>1, <1>3 DEF IInv, ThreadTypes
<1>5. NotBegun'
  BY <1>1, <1>3 DEF IInv, ThreadTypes, NotBegun
<1>6. SkewIsPending' /\ MissedOnlyAtFirst'
  BY <1>1, <1>3 DEF IInv, ThreadTypes, SkewIsPending, MissedOnlyAtFirst, Places
<1> QED  BY <1>4, <1>5, <1>6 DEF IInv

\* A device is taken out: its thread is told, and waited for.
LEMMA DestroyIInv ==
  ASSUME IInv, NEW d \in Devices, Destroy(d)
  PROVE  IInv'
<1>1. /\ active' = [active EXCEPT ![d] = FALSE]
      /\ pc' = [pc EXCEPT ![d] = Signalled(@)]
      /\ dev[d] = "in" /\ dev' = [dev EXCEPT ![d] = "out"]
      /\ leaving' = d /\ leaving = None
      /\ UNCHANGED <<new, data, basis>>
  BY DEF Destroy, Disassociate, Polling
<1>2. pc[d] \in Places \ {"found"}
  BY DEF IInv, ThreadTypes
<1>3. /\ Signalled(pc[d]) \in Places \ {"found", "wait"}
      /\ pc[d] # "wait" => Signalled(pc[d]) = pc[d]
      /\ pc[d] = "wait" => Signalled(pc[d]) = "awake"
  BY <1>2, SignalledType
<1>4. ThreadTypes'
  BY <1>1, <1>3 DEF IInv, ThreadTypes
<1>5. NotBegun'
  BY <1>1, <1>3 DEF IInv, ThreadTypes, NotBegun
<1>6. SkewIsPending' /\ MissedOnlyAtFirst'
  BY <1>1, <1>3 DEF IInv, ThreadTypes, SkewIsPending, MissedOnlyAtFirst, Places
<1> QED  BY <1>4, <1>5, <1>6 DEF IInv

\* The thread has ended, and its device is freed.
LEMMA JoinedIInv ==
  ASSUME IInv, Joined
  PROVE  IInv'
<1>1. leaving \in Devices
  BY DEF IInv, ThreadTypes, Joined
<1> QED
  BY <1>1, PoserAssumption DEF Joined, poser, IInv, ThreadTypes, NotBegun,
     SkewIsPending, MissedOnlyAtFirst

\* The steps of a poser's thread.
LEMMA PoserStepIInv ==
  ASSUME IInv, NEW d \in Devices, PoserStep(d) \/ Spurious(d)
  PROVE  IInv'
<1> USE DEF IInv, ThreadTypes, NotBegun, SkewIsPending, MissedOnlyAtFirst,
        Places, world
<1>1. CASE Start(d)     BY <1>1 DEF Start
<1>2. CASE Look(d)      BY <1>2 DEF Look
<1>3. CASE Run(d)       BY <1>3 DEF Run
<1>4. CASE Report(d)    BY <1>4 DEF Report
<1>5. CASE Spurious(d)  BY <1>5 DEF Spurious
<1> QED  BY <1>1, <1>2, <1>3, <1>4, <1>5 DEF PoserStep

\* The invariant reads nothing else.
LEMMA UnchangedIInv ==
  ASSUME IInv, UNCHANGED <<leaving, dev, poser>>
  PROVE  IInv'
  BY DEF poser, IInv, ThreadTypes, NotBegun, SkewIsPending, MissedOnlyAtFirst

\* Every step keeps the invariant.
LEMMA NextIInv == IInv /\ [Next]_vars => IInv'
<1> SUFFICES ASSUME IInv, [Next]_vars
             PROVE  IInv'
  OBVIOUS
<1>1. CASE Yield \/ Take \/ OotxReceived \/ CloseSolver \/ SolverJoined \/ Closed
  <2>1. UNCHANGED <<leaving, dev, poser>>
    BY <1>1 DEF Yield, Take, OotxReceived, CloseSolver, SolverJoined, Closed, world
  <2> QED  BY <2>1, UnchangedIInv
<1>2. CASE SolverStep \/ SolverSpurious
  <2>1. UNCHANGED <<leaving, dev, poser>>
    BY <1>2 DEF SolverStep, SolverSpurious, SolverStart, SolverLook, SolverClear, Solve, Solved, world
  <2> QED  BY <2>1, UnchangedIInv
<1>3. CASE Joined
  BY <1>3, JoinedIInv
<1>4. ASSUME NEW d \in Devices, PollStep(d)
      PROVE  IInv'
  <2>1. CASE Attach(d)   BY <2>1, AttachIInv
  <2>2. CASE Sync(d)     BY <2>2, SyncIInv
  <2>3. CASE Destroy(d)  BY <2>3, DestroyIInv
  <2>4. CASE \E add, late \in BOOLEAN : Packet(d, add, late)
    <3>1. UNCHANGED <<leaving, dev, poser>>
      BY <2>4 DEF Packet, world
    <3> QED  BY <3>1, UnchangedIInv
  <2> QED  BY <1>4, <2>1, <2>2, <2>3, <2>4 DEF PollStep
<1>5. ASSUME NEW d \in Devices, PoserStep(d) \/ Spurious(d)
      PROVE  IInv'
  BY <1>5, PoserStepIInv
<1>6. CASE UNCHANGED vars
  <2>1. UNCHANGED <<leaving, dev, poser>>
    BY <1>6 DEF vars, world
  <2> QED  BY <2>1, UnchangedIInv
<1> QED  BY <1>1, <1>2, <1>3, <1>4, <1>5, <1>6 DEF Next

LEMMA SpecIInv == Spec => []IInv
  BY InitIInv, NextIInv, PTL DEF Spec

\* A device that is in is in the list, which therefore has one to remove; and the
\* list never gives up what is stale.
ListInv ==
    /\ objs \in Seq(Devices) /\ ct \in 0 .. Len(objs)
    /\ \A d \in Devices : dev[d] = "in" => \E i \in 1 .. ct : objs[i] = d

LEMMA AddedListInv ==
  ASSUME IInv, ListInv, NEW d \in Devices, Attach(d)
  PROVE  ListInv'
<1>1. objs' = [i \in 1 .. (IF ct = Len(objs) THEN ct + 1 ELSE Len(objs)) |->
                  IF i = ct + 1 THEN d ELSE objs[i]]
      /\ ct' = ct + 1 /\ dev' = [dev EXCEPT ![d] = "in"]
  BY DEF Attach, Added
<1> DEFINE n == IF ct = Len(objs) THEN ct + 1 ELSE Len(objs)
<1>2. n \in Nat /\ ct \in Nat /\ ct + 1 \in 1 .. n /\ \A i \in 1 .. ct : i \in 1 .. Len(objs) /\ i \in 1 .. n
  BY DEF ListInv
<1>3. \A i \in 1 .. n : (IF i = ct + 1 THEN d ELSE objs[i]) \in Devices
  BY <1>2 DEF ListInv
<1>4. objs' \in [1 .. n -> Devices] /\ objs' \in Seq(Devices) /\ Len(objs') = n
  BY <1>1, <1>2, <1>3
<1>5. ct' \in 0 .. Len(objs')
  BY <1>1, <1>2, <1>4
<1>6. \A i \in 1 .. ct : objs'[i] = objs[i]
  BY <1>1, <1>2
<1>7. objs'[ct + 1] = d /\ ct + 1 \in 1 .. ct'
  BY <1>1, <1>2
<1>8. ASSUME NEW e \in Devices, dev'[e] = "in"
      PROVE  \E i \in 1 .. ct' : objs'[i] = e
  <2>1. CASE e = d  BY <1>7, <2>1
  <2>2. CASE e # d
    <3>1. dev[e] = "in"
      BY <1>1, <1>8, <2>2 DEF IInv, ThreadTypes
    <3>2. PICK i \in 1 .. ct : objs[i] = e
      BY <3>1 DEF ListInv
    <3> QED  BY <1>1, <1>2, <1>6, <3>2
  <2> QED  BY <2>1, <2>2
<1> QED  BY <1>4, <1>5, <1>8 DEF ListInv

LEMMA RemovedListInv ==
  ASSUME IInv, ListInv, NEW d \in Devices, Destroy(d)
  PROVE  ListInv'
<1>1. objs' = [i \in 1 .. Len(objs) |-> IF objs[i] = d /\ i <= ct THEN objs[ct] ELSE objs[i]]
      /\ ct' = ct - 1 /\ dev[d] = "in" /\ dev' = [dev EXCEPT ![d] = "out"]
  BY DEF Destroy, Removed
<1>2. PICK j \in 1 .. ct : objs[j] = d
  BY <1>1 DEF ListInv
<1>3. Len(objs) \in Nat /\ ct \in 1 .. Len(objs) /\ \A i \in 1 .. Len(objs) : objs[i] \in Devices
  BY <1>2 DEF ListInv
<1>4. objs' \in [1 .. Len(objs) -> Devices]
  BY <1>1, <1>3
<1>5. objs' \in Seq(Devices) /\ Len(objs') = Len(objs) /\ ct' \in 0 .. Len(objs')
  BY <1>1, <1>3, <1>4
<1>6. ASSUME NEW e \in Devices, dev'[e] = "in"
      PROVE  \E i \in 1 .. ct' : objs'[i] = e
  <2>1. e # d /\ dev[e] = "in"
    BY <1>1, <1>6 DEF IInv, ThreadTypes
  <2>2. PICK i \in 1 .. ct : objs[i] = e
    BY <2>1 DEF ListInv
  <2>3. CASE i # ct
    BY <1>1, <1>3, <2>1, <2>2, <2>3
  <2>4. CASE i = ct
    BY <1>1, <1>2, <1>3, <2>1, <2>2, <2>4
  <2> QED  BY <2>3, <2>4
<1> QED  BY <1>5, <1>6 DEF ListInv

\* The locks and the solver's variables.
RestTypes ==
    /\ lock \in {"poll", "free", "aborted"}
    /\ phase \in {"open", "solver", "devices", "closed"}
    /\ gpc \in Places /\ gactive \in BOOLEAN /\ needs \in BOOLEAN /\ ootx \in BOOLEAN
    /\ using \subseteq Devices

\* The solver is asked for only when a device has been there, so that objs[0] is
\* the entry of one, if it is only a stale one.
Asked == needs \/ ootx \/ gpc \in {"found", "want", "solve"} => objs # <<>>

LEMMA ScenesTypes ==
  ASSUME RestTypes, NEW add \in BOOLEAN, NEW late \in BOOLEAN, CheckScenes(add, late)
  PROVE  gpc' \in Places /\ needs' \in BOOLEAN
<1>1. Signalled(gpc) \in Places
  BY DEF Signalled, RestTypes, Places
<1> QED  BY <1>1 DEF CheckScenes, RestTypes

LEMMA NextRest == RestTypes /\ ListInv /\ Asked /\ [Next]_vars => RestTypes'
<1> SUFFICES ASSUME RestTypes, ListInv, Asked, [Next]_vars PROVE RestTypes'
  OBVIOUS
<1>1. CASE Yield \/ Take \/ OotxReceived \/ Joined \/ SolverJoined \/ Closed
  BY <1>1 DEF Yield, Take, OotxReceived, Joined, SolverJoined, Closed, RestTypes, world, solver
<1>2. CASE CloseSolver
  <2>1. Signalled(gpc) \in Places
    BY DEF Signalled, RestTypes, Places
  <2> QED  BY <1>2, <2>1 DEF CloseSolver, RestTypes
<1>3. CASE SolverStep \/ SolverSpurious
  <2>1. CASE Solve
    <3>1. objs[1] \in Devices
      <4>1. objs \in Seq(Devices) /\ objs # <<>>
        BY <2>1 DEF Solve, Asked, ListInv
      <4> QED  BY <4>1
    <3> QED  BY <2>1, <3>1 DEF Solve, RestTypes, Places, world
  <2>2. CASE SolverStart \/ SolverLook \/ SolverClear \/ Solved \/ SolverSpurious
    BY <2>2 DEF SolverSpurious, SolverStart, SolverLook, SolverClear, Solved, RestTypes, Places,
       world
  <2> QED  BY <1>3, <2>1, <2>2 DEF SolverStep
<1>4. ASSUME NEW d \in Devices, PollStep(d) \/ PoserStep(d) \/ Spurious(d)
      PROVE  RestTypes'
  <2>1. CASE Sync(d)
    BY <2>1, ScenesTypes DEF Sync, RestTypes, world
  <2>2. CASE \E add, late \in BOOLEAN : Packet(d, add, late)
    BY <2>2, ScenesTypes DEF Packet, RestTypes, world
  <2>3. CASE Attach(d) \/ Destroy(d)
    BY <2>3 DEF Attach, Destroy, Disassociate, RestTypes, solver
  <2>4. CASE PoserStep(d) \/ Spurious(d)
    BY <2>4 DEF PoserStep, Start, Look, Run, Report, Spurious, RestTypes, world, solver
  <2> QED  BY <1>4, <2>1, <2>2, <2>3, <2>4 DEF PollStep
<1>5. CASE UNCHANGED vars
  BY <1>5 DEF vars, world, solver, RestTypes
<1> QED  BY <1>1, <1>2, <1>3, <1>4, <1>5 DEF Next

\* The list only grows, and what asks for the solver finds a device in it.
LEMMA NextAsked == IInv /\ ListInv /\ Asked /\ [Next]_vars => Asked'
<1> SUFFICES ASSUME IInv, ListInv, Asked, [Next]_vars PROVE Asked'
  OBVIOUS
<1>0. objs \in Seq(Devices) /\ Len(objs) \in Nat /\ (objs # <<>> <=> Len(objs) > 0)
  BY DEF ListInv
<1>1. CASE Yield \/ Take \/ Joined \/ SolverJoined \/ Closed
  BY <1>1 DEF Yield, Take, Joined, SolverJoined, Closed, world, solver, Asked
<1>2. CASE OotxReceived
  BY <1>0, <1>2 DEF OotxReceived, ListInv, world, Asked
<1>3. CASE CloseSolver
  BY <1>3 DEF CloseSolver, Signalled, Asked
<1>4. CASE SolverStep \/ SolverSpurious
  BY <1>4 DEF SolverStep, SolverSpurious, SolverStart, SolverLook, SolverClear, Solve, Solved,
     world, Asked
<1>5. ASSUME NEW d \in Devices, PollStep(d) \/ PoserStep(d) \/ Spurious(d)
      PROVE  Asked'
  <2>1. CASE Attach(d)
    <3>1. ListInv' /\ dev'[d] = "in"
      BY <2>1, AddedListInv DEF Attach, IInv, ThreadTypes
    <3>2. objs' \in Seq(Devices) /\ Len(objs') > 0
      BY <3>1 DEF ListInv
    <3> QED  BY <3>2 DEF Asked
  <2>2. CASE Destroy(d)
    <3>1. objs' = [i \in 1 .. Len(objs) |-> IF objs[i] = d /\ i <= ct THEN objs[ct] ELSE objs[i]]
      BY <2>2 DEF Destroy, Removed
    <3>2. \A i \in 1 .. Len(objs) : objs[i] \in Devices
      BY <1>0
    <3>3. ct \in 1 .. Len(objs)
      BY <1>0, <2>2 DEF Destroy, ListInv
    <3>4. objs' \in [1 .. Len(objs) -> Devices]
      BY <1>0, <3>1, <3>2, <3>3
    <3>5. Len(objs') = Len(objs) /\ objs' \in Seq(Devices)
      BY <1>0, <3>4
    <3>6. objs # <<>> => objs' # <<>>
      BY <1>0, <3>5
    <3> QED  BY <2>2, <3>6 DEF Destroy, solver, Asked
  <2>3. CASE Sync(d) \/ \E add, late \in BOOLEAN : Packet(d, add, late)
    BY <2>3 DEF Sync, Packet, CheckScenes, Signalled, world, Asked
  <2>4. CASE PoserStep(d) \/ Spurious(d)
    BY <2>4 DEF PoserStep, Start, Look, Run, Report, Spurious, world, solver, Asked
  <2> QED  BY <1>5, <2>1, <2>2, <2>3, <2>4 DEF PollStep
<1>6. CASE UNCHANGED vars
  BY <1>6 DEF vars, world, solver, Asked
<1> QED  BY <1>1, <1>2, <1>3, <1>4, <1>5, <1>6 DEF Next

\* In which order the close goes: the devices are waited for only when the solver
\* has ended, and it works with nothing then.
CloseOrder ==
    /\ gpc # "solve" => using = {}
    /\ phase \in {"devices", "closed"} => gpc = "ended"
    /\ leaving # None => phase \in {"open", "devices"}

LEMMA NextCloseOrder == CloseOrder /\ [Next]_vars => CloseOrder'
<1> SUFFICES ASSUME CloseOrder, [Next]_vars PROVE CloseOrder'
  OBVIOUS
<1>1. CASE Yield \/ Take \/ OotxReceived \/ Joined \/ SolverJoined \/ Closed
  BY <1>1 DEF Yield, Take, OotxReceived, Joined, SolverJoined, Closed, Polling, world, solver,
     CloseOrder
<1>2. CASE CloseSolver
  BY <1>2 DEF CloseSolver, Polling, Signalled, CloseOrder
<1>3. CASE SolverStep \/ SolverSpurious
  BY <1>3 DEF SolverStep, SolverSpurious, SolverStart, SolverLook, SolverClear, Solve, Solved,
     world, CloseOrder
<1>4. ASSUME NEW d \in Devices, PollStep(d) \/ PoserStep(d) \/ Spurious(d)
      PROVE  CloseOrder'
  <2>1. CASE Attach(d) \/ Destroy(d)
    BY <2>1 DEF Attach, Destroy, Disassociate, Polling, solver, CloseOrder
  <2>2. CASE Sync(d) \/ \E add, late \in BOOLEAN : Packet(d, add, late)
    BY <2>2 DEF Sync, Packet, CheckScenes, Signalled, Polling, world, CloseOrder
  <2>3. CASE PoserStep(d) \/ Spurious(d)
    BY <2>3 DEF PoserStep, Start, Look, Run, Report, Spurious, world, solver, CloseOrder
  <2> QED  BY <1>4, <2>1, <2>2, <2>3 DEF PollStep
<1>5. CASE UNCHANGED vars
  BY <1>5 DEF vars, world, solver, CloseOrder
<1> QED  BY <1>1, <1>2, <1>3, <1>4, <1>5 DEF Next

\* Only a device that comes or goes changes the list.
LEMMA NextList == IInv /\ ListInv /\ [Next]_vars => ListInv'
<1> SUFFICES ASSUME IInv, ListInv, [Next]_vars PROVE ListInv'
  OBVIOUS
<1>1. CASE UNCHANGED <<dev, objs, ct>>
  BY <1>1 DEF ListInv
<1>2. CASE Joined
  <2>1. UNCHANGED <<objs, ct>> /\ \A d \in Devices : dev'[d] = "in" => dev[d] = "in"
    BY <1>2, PoserAssumption DEF Joined, IInv, ThreadTypes
  <2> QED  BY <2>1 DEF ListInv
<1>3. CASE Yield \/ Take \/ OotxReceived \/ CloseSolver \/ SolverJoined \/ Closed
  BY <1>1, <1>3 DEF Yield, Take, OotxReceived, CloseSolver, SolverJoined, Closed, world
<1>4. CASE SolverStep \/ SolverSpurious
  BY <1>1, <1>4 DEF SolverStep, SolverSpurious, SolverStart, SolverLook, SolverClear, Solve, Solved, world
<1>5. ASSUME NEW d \in Devices, PollStep(d) \/ PoserStep(d) \/ Spurious(d)
      PROVE  ListInv'
  <2>1. CASE Attach(d)   BY <2>1, AddedListInv
  <2>2. CASE Destroy(d)  BY <2>2, RemovedListInv
  <2>3. CASE Sync(d) \/ \E add, late \in BOOLEAN : Packet(d, add, late)
    BY <1>1, <2>3 DEF Sync, Packet, world
  <2>4. CASE PoserStep(d) \/ Spurious(d)
    BY <1>1, <2>4 DEF PoserStep, Start, Look, Run, Report, Spurious, world
  <2> QED  BY <1>5, <2>1, <2>2, <2>3, <2>4 DEF PollStep
<1>6. CASE UNCHANGED vars
  BY <1>1, <1>6 DEF vars, world
<1> QED  BY <1>2, <1>3, <1>4, <1>5, <1>6 DEF Next

LEMMA SpecRest == Spec => [](ListInv /\ RestTypes /\ Asked)
<1>1. Init => ListInv /\ RestTypes /\ Asked
  <2> SUFFICES ASSUME Init PROVE ListInv /\ RestTypes /\ Asked
    OBVIOUS
  <2>1. objs = <<>> /\ ct = 0 /\ Len(objs) = 0 /\ objs \in Seq(Devices)
    BY DEF Init
  <2>2. \A d \in Devices : dev[d] # "in"
    BY DEF Init
  <2>3. ListInv
    BY <2>1, <2>2 DEF ListInv
  <2>4. RestTypes /\ Asked
    BY DEF Init, RestTypes, Places, Asked
  <2> QED  BY <2>3, <2>4
<1>2. IInv /\ ListInv /\ RestTypes /\ Asked /\ [Next]_vars => (ListInv /\ RestTypes /\ Asked)'
  BY NextList, NextRest, NextAsked
<1> QED  BY <1>1, <1>2, SpecIInv, PTL DEF Spec

\* Locks, list and threads stay in their types: in particular no device is taken
\* out of an empty list, for one that is in is in the list (survive_default_devices.c:659).
THEOREM PoserTypeCorrect == Spec => []TypeOK
<1>1. IInv /\ ListInv /\ RestTypes => TypeOK
  BY DEF IInv, ThreadTypes, ListInv, RestTypes, TypeOK
<1> QED  BY <1>1, SpecRest, SpecIInv, PTL

\* A pose that is stamped with the time of a newer sync (poser_mpfit.c:1131) is
\* never the last one: that sync is still to be run.
THEOREM SkewIsPendingAlways == Spec => []SkewIsPending
<1>1. IInv => SkewIsPending
  BY DEF IInv
<1> QED  BY <1>1, SpecIInv, PTL

\* Only a signal sent before the thread first waited is missed (poser.c:433).
THEOREM MissedOnlyAtFirstAlways == Spec => []MissedOnlyAtFirst
<1>1. IInv => MissedOnlyAtFirst
  BY DEF IInv
<1> QED  BY <1>1, SpecIInv, PTL

\* No device is freed under its own thread, and none under the solver but one that
\* is pulled out while the context is open: the close waits for both (survive.c:1021).
THEOREM FreedUnusedAlways == Spec => FreedUnused
<1>1. Init => CloseOrder
  BY DEF Init, CloseOrder
<1>2. CloseOrder /\ IInv /\ [Next]_vars =>
         [\A d \in Devices : dev[d] # "gone" /\ dev'[d] = "gone" =>
              pc[d] = "ended" /\ (d \in using => phase = "open")]_vars
  <2> SUFFICES ASSUME CloseOrder, IInv, [Next]_vars, NEW d \in Devices,
                      dev[d] # "gone", dev'[d] = "gone"
               PROVE  pc[d] = "ended" /\ (d \in using => phase = "open")
    OBVIOUS
  <2>1. dev \in [Devices -> {"away", "in", "out", "gone"}]
    BY DEF IInv, ThreadTypes
  <2>2. CASE Joined
    <3>1. leaving = d /\ pc[leaving] = "ended" /\ leaving # None
      BY <2>1, <2>2 DEF Joined
    <3> QED  BY <3>1 DEF CloseOrder
  <2>3. CASE ~Joined
    <3>1. \/ UNCHANGED dev
          \/ \E e \in Devices : dev' = [dev EXCEPT ![e] = "in"] \/ dev' = [dev EXCEPT ![e] = "out"]
      BY <2>3 DEF Next, vars, world, PollStep, PoserStep, SolverStep, SolverSpurious, Yield, Take,
         OotxReceived, CloseSolver, SolverJoined, Closed, Attach, Sync, Destroy, Packet, Start,
         Look, Run, Report, Spurious, SolverStart, SolverLook, SolverClear, Solve, Solved
    <3> QED  BY <2>1, <3>1
  <2> QED  BY <2>2, <2>3
<1> QED  BY <1>1, <1>2, NextCloseOrder, SpecIInv, PTL DEF Spec, FreedUnused
=============================================================================
