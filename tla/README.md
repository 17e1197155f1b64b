# Verification of valve_car_tracker

A small car with a Raspberry Pi carries a tracker of a room-scale tracking
system.  Its operator drives it over the network, from the keyboard or from a
learning environment, and records where the tracker is.  This directory holds
TLA+ specifications of the parts of that system in which threads, processes and
connections get in each other's way, the configurations with which TLC checks
them, and proofs that TLAPS checks.

Paths below are relative to `src/`.  `L` stands for `repos/libsurvive/src`.
Line numbers of every definition are in the "map" of `PROJECT.json`.

## 1. The system

```
 operator's machine                                      car (Raspberry Pi)
 +--------------------------------------+                +---------------------------+
 | main/record_trajectory.py            |   websocket    | repos/car_code/           |
 | main/env.py                          |  (ssh starts   |   drive_listener.py       |
 |   keypress or Env.step               |   the other    |    socket_response        |
 |     -> next_action -> send_action ---+---- side) ---->|     -> LiveValues         |
 |   record_position_func               |                |    send_car_commands      |
 |     ^ poses                          |                |     -> car_controller.Car |
 +-----|--------------------------------+                |         -> pins, PWM      |
       |                                                 +---------------------------+
 +-----+--------------------------------+
 | repos/libsurvive: survive_api.c  <- hooks <- survive.c: lock, polling, button     |
 |   application of the simple API              servicer <- drivers (USB), posers    |
 +-----------------------------------------------------------------------------------+
```

| Component | State it keeps | Operations | How others reach it |
|---|---|---|---|
| Motor outputs, `car_controller.py` | duty and direction pins of four wheels, the remembered action | `drive`, `go`, `spin`, the atexit handler | calls of the driving thread; the main thread at exit |
| Drive listener, `drive_listener.py` | `LiveValues` (velocity, steer, time of the last command), the global `websocket` | `socket_response`, `send_car_commands` | shared fields without a lock; websocket messages |
| Start of the listener, `drive_listener.py:28-49` | pid file, port | kill the old process, write the pid, bind | files and signals between processes |
| Command link, `record_trajectory.py`, `env.py` | `next_action`, attempts left, a connection | keypress or `Env.step`, `send_action` | one global without a lock |
| Button events, `L/survive.c`, `L/driver_vive.c` | ring of events, semaphore, masks and axes of an object | `registerButtonEvent`, `button_servicer`, `survive_close` | ring and semaphore between threads, the lock of the context |
| Event ring, `L/survive_api.c` | ring of events, write index, count | insert, pop | `poll_mutex` |
| Simple API, `L/survive_api.c` | list of objects with pose and `has_update`, `running` | hooks, wait, next event, next update, close | hooks on the threads of libsurvive, calls of the application |
| Context lock and polling, `L/survive.c` | the lock, drivers, objects | `survive_poll`, `survive_close`, startup | every thread of libsurvive |
| USB devices, `L/driver_vive.c`, `L/driver_vive.libusb.h`, `L/driver_vive.config.h` | per device: one transfer per endpoint, the step of its configuration, `active_transfers`, requests to close and to open again | hotplug callback, `survive_config_poll`, the callbacks of transfers, `survive_close_usb_device`, close | everything on the polling thread; libusb decides when a transfer ends |
| Threaded poser, `L/poser.c` | the newest sync, `has_new_data`, a thread per tracker | hand-over, the thread, `POSERDATA_DISASSOCIATE` | its own mutex and condition variable, and the lock of the context |
| Global scene solver, `L/driver_global_scene_solver.c` | scenes, `needsSolve`, a thread | checks after every packet, the thread, close | lock of the scenes, the lock of the context, `ctx->objs` |
| OOTX decoder, `L/ootx_decoder.c` | bits of a packet | `ootx_pump_bit` | called with each sync of a lighthouse |
| Lighthouse indices, `L/survive.c`, `L/survive_process_gen2.c` | `bsd`, `bsd_map`, a decoder and the tracker it listens to per slot | `survive_get_bsd_idx`, sync, packet callback, reset | with the lock of the context |
| Position recorder, `main/record_trajectory.py` (and the listener of `main/env.py`, `main/receive_vr_position.py`) | the global `position`, a file with a process id, `prev_quat` | start of the server, listener, recorder, interrupt | a global without a lock, a websocket |
| Asynchronous optimizer, `L/survive_async_optimizer.c` | two buffers | submit, thread | none: nothing calls `survive_async_optimizer_init` |

Recording and configuration files, the numerical posers and optimizers, the
disambiguators, other drivers, generated and vendored code, bindings and tools
complete the repository; `PROJECT.json` lists each with the reason it is not
modelled.

### What is hard here

* **Threads without locks**: `LiveValues`, `next_action`, `has_update` and
  `nextReadIndex` are written by one thread while another reads or writes them.
* **Two clocks**: the age of the last command is the only thing that stops a car
  whose operator is gone.
* **Faults**: connections that are refused, lost unnoticed, or noticed late;
  processes that die half-way through their start.
* **Order at the end**: the atexit handler against the driving thread,
  `survive_close` against the servicer and the drivers, the shutdown event
  against the last poses.
* **The life of a transfer**: it is freed by whichever callback sees it last,
  and a device may be freed only when the count of its transfers is zero.
* **Two locks**: a poser's thread gives its own up and takes the context's; the
  thread that waits for it to end must not hold either.
* **A wake-up that is missed**: the first sync may be signalled before the
  thread of the poser has begun to wait.
* **A stream without an end**: a decoder that comes in the middle of a frame,
  misses bits, or is the wrong lighthouse's.
* **Rings at their limit**: full, wrapping, read while they wrap.

`PROJECT.json` lists these hazards one by one, each at its line, with the
properties that would show it going wrong.

## 2. The modules

### CarController (`repos/car_code/car_controller.py`)

The pins, the memo of the last action, and the writes that are still to be made
by the driving thread and by the atexit handler.  `Drive` is the body of
`Car.drive` up to the first write: the clamp, the split of the velocity into a
slow and a fast side, the comparison with the memo.  `Write` is one pin write;
it is an action of its own because the two threads' writes interleave.
`ExitHandler` is the atexit handler's stop.  Velocities are integers and
`Full` stands for 100; the code only adds, compares and negates them.

### DriveListener (`repos/car_code/drive_listener.py`)

Extends CarController with the main thread (`Connect`, `Receive`, `Stamp`,
`StoreVelocity`, `StoreSteer`), the driving thread (`CheckAge` to `StoreBack`,
one action per access to a shared value), the clock, and the end of the process
(Control-C once, and again).  `age` counts whole ticks and stops one above the
timeout, for the code only compares it with `timeout_size`.  The JSON of a
message is a record with two fields, each a number, something else
(`NotANumber`) or missing.  `drv = "dead"` is the thread after an exception.

### ListenerRestart (`repos/car_code/drive_listener.py`)

Several processes that start: pins, pid file, kill, wait, write, thread, port.
`dutyOf` and `velocityOf` of a process are reduced to off, zero and moving; what
goes on inside a listener is DriveListener's matter.  `Die` is an end for any
other reason.  The two modules share no name, so that one module can prove
theorems about both.

### CommandLink (`main/record_trajectory.py`, `main/env.py`)

Commands are numbers in the order in which they were stored.  `Check`, `Dump`,
`Send` and `Clear` are the four accesses of `send_action`; `Fail` is what its
two handlers of exceptions have in common; a connection can be closed, or dead
without anybody knowing yet.  The listener is external here and handles what
arrives in order, per connection.  `lost` is the newest command that went down
with its connection: sent on one that was dead already, or not yet handled when
it broke.

### ButtonQueue (`L/survive.c`, `L/driver_vive.c`, `L/driver_usbmon.c`)

`registerButtonEvent` as the sequence of steps that another thread can see:
`Compose` (fill the entry, update the masks), `CheckFull`, `Publish` (mark and
move the write index), `Post` (semaphore, clear the next entry).  It runs on
the polling thread (`UsbPacket`) or on a driver's (`DriverPacket`), under the
lock.  `button_servicer` is `Wake` to `Wrap`; it reads the ring without the
lock and stores `nextReadIndex` twice when it wraps.  `survive_close` is
`Close` to `JoinDriver`.  The inputs of a packet are a sequence of names: those
in `Buttons` go through `registerButtonOnOff`, which tests for a null entry,
the others do not.  A packet of a driver's thread may come at any moment; in the
code that thread first spins until it has seen the ring empty
(`driver_usbmon.c:598`), so the model has every order that the code has, and more.

### EventRing and SimpleApi (`L/survive_api.c`)

EventRing is the buffer of events: `Insert` and `Pop`.  SimpleApi extends it
with the hooks, split where the application can come in between (between
`has_update`, which it reads and clears without `poll_mutex`, and the pose,
which it reads under it), and the application as a loop of
`survive_simple_wait_for_event`.  The pose of a lighthouse is written by
`survive_default_raw_lighthouse_pose_process` before any hook runs, without
the mutex (`LighthousePose`); poses are counted rather than computed.
The wait for a notification can always end after 100 ms, so it is no step.

### Fifo

The abstract specification of both rings: a bounded queue that either refuses
an element or displaces its oldest.  `EventRing` and `ButtonQueue` instantiate
it with what their indices say is in the ring; `IsAQueue` states that every
step of the ring is a step of the queue or none.

### UsbDevices (`L/driver_vive.c`, `L/driver_vive.libusb.h`, `L/driver_vive.config.h`)

`usb[d]` is the `SurviveUSBInfo` of one arrival of a device.  `tx` is where its
control transfer is (due, in flight, cancelled, not sent), `cfg` what it asks
for, `iface[e]` where the interrupt transfer of an endpoint is.  The functions
that the callbacks share are operators on this record: `Attach`
(`AttachInterface` for every endpoint), `Cleanup` (the end of
`handle_config_tx`), `CloseDevice` (`survive_close_usb_device`), `Free` (the
label `shutdown` of `handle_transfer`).  The actions are the polls
(`PollConfig`, `PollClose`), the ends of a control transfer (`ConfigStalls`,
`ConfigFails`, `ConfigAnswer`, `ConfigUnknown`, `ConfigCancelled`), those of an
interrupt transfer (`Completed`, `TimedOut`, `Failed`, `Cancelled`, and `Late`
for one that was freed in flight), `Arrive`, `Unplug`, and the two ends of
`survive_vive_close`.  Feature reports (haptics, pairing, the switch of the mode)
are transfers that `active_transfers` does not count: `report` says whether one is
in flight, `Completed` and `SendReport` send one, `ReportEnds` is its callback.
"quiet" is a transfer that timed out and was not
submitted again: the code counts to three, but never gets past one, so that its
path of a tracker that was turned off (`TurnedOff`, the reopen in `PollClose`) is
modelled as written and never taken.

### PoserThreads (`L/poser.c`, `L/poser_mpfit.c`, `L/driver_global_scene_solver.c`, `L/survive.c`)

The polling thread, which has the lock except while it waits for the bus
(`Yield`, `Take`); per tracker the thread of its poser (`Start`, `Look`, `Run`,
`Report`); the solver's thread (`SolverStart` to `Solved`).  What happens between
two accesses to what another thread may change is one step, because it is
under one of the locks; `Run` ends where the optimizer gives the lock of the
context up.  `HandOver` overwrites the newest sync and signals; `Signalled`
says that a thread which does not wait misses it.  `Destroy` and `Joined` are
the two halves of destroying a device, `objs` and `ct` the list of objects,
with what is stale beyond `ct`.  `using` is what the solver works with while it
has not the lock: the data of the poser that it asked, and the devices of its
scenes, which stay when a device goes.  `Attach` runs in the callback of the
configuration, in the window in which the polling thread has given the lock up.

### OotxDecoder and Lighthouses (`L/ootx_decoder.c`, `L/survive.c`, `L/survive_process_gen2.c`)

OotxDecoder is `ootx_pump_bit` as an operator on a record (`Pump`), for words,
bytes, buffers and checksums of any size.  What is sent ends with a word and has
the length that its first word says (`PacketAssumption`), which is how the code
finds the end of a packet; and every packet is some lighthouse's.  Lighthouses
composes the decoder with the table: each lighthouse sends its frame over and over, one bit with each sync
(`Turn`, or `Unheard` when no tracker makes anything of it), the slot is looked
up (`LookUp`), the decoder of the slot takes the bit if it comes from the
tracker that it listens to, and a packet sets the slot.  `Detect` is the first
sync, with or without the reset of the table.

### PositionLink (`main/record_trajectory.py`, and the same listener elsewhere)

The main thread (`Kill`, `StartServer`, `Listen`, `Connected`, `Interrupt`,
`Joined`), the server of an earlier run and the new one, the listener
(`Connect`, `Receive`, `Fail`) and the recorder, which reads the global position
twice: to test it (`Look`) and to unpack it (`Record`).  A pose is its place in
the order, and whether it can be unpacked.  After an interrupt the main thread
joins the listener, the recorder and `send_action` (`action`).  A thread sees the
flag that stops it at its next line of Python, so a listener in `recv` runs into
it only with a message (`MessageStops`) or with the loss of its connection
(`ListenerStops`).  The interrupt may end the new server too, which has the same
terminal; it sits behind `sudo`, so that is left open.

### MC modules and proofs

`MCCarController`, `MCDriveListener`, `MCListenerRestart`, `MCButtonQueue`,
`MCSimpleApi`, `MCUsbDevices`, `MCPoserThreads`, `MCLighthouses` and
`MCPositionLink` give the constants their values.  The theorems (section 5) are in
`DriveListener_proofs` (with CarController and ListenerRestart),
`SimpleApi_proofs` (with EventRing), `Lighthouses_proofs` (with OotxDecoder),
`ButtonQueue_proofs`, `CommandLink_proofs`, `UsbDevices_proofs`,
`PoserThreads_proofs` and `PositionLink_proofs`.

Every module that has variables states in `TypeOK` (`CarTypeOK`, `RestartTypeOK`,
`RingTypeOK`) what values each takes.  The runs are about behaviour and do not
list it; it is a theorem for every one of them but Fifo, which is abstract.

## 3. The runs

| Run | Question | Bounds |
|---|---|---|
| `car_controller` | Do pins, memo and command agree at every write? | `Full = 2`, commands from -3 to 3 in both arguments: zero, both signs, at and beyond the clamp |
| `drive_listener` | Do the wheels follow the live values, and stop on silence and at exit? | four messages (turn, crawl in the dead zone, no direction, no velocity), one tick per timeout |
| `drive_listener_deadman` | Does the car stop when commands stop, whatever came before? (no) | one message with a direction that is a string |
| `command_link` | Is the newest command sent, once, in order? | 5 attempts, 5 keypresses, 3 faults |
| `listener_restart` | Who moves the car when listeners start? | 3 processes, two starting at a time, with symmetry |
| `button_queue` | Is the ring a queue, does the application hear everything, does closing end the servicer? | ring of 3, so that it fills and wraps; an axis and a button; two values |
| `simple_api` | Does the application get every event, update and the end? | one tracker, one lighthouse (known or not), one external; ring of 2 for 3 events, 2 poses each |
| `usb_devices` | Do the counted transfers of a device end before it is freed, and do close and release come to an end? | two devices, two endpoints each, two failures of devices that are plugged in |
| `poser_threads` | Is the newest sync used, a tracker freed when its threads are through with it, and does the close end? | two trackers, of which one sends two syncs and both send motion |
| `poser_threads_assert` | Has every object that is asked a poser? (no) | the same |
| `lighthouses` | Is every lighthouse learnt, for what it is? | two lighthouses, one of which is heard for ever; words of 4 bits, packets of one word (one of them all zeros), a buffer of 7 bytes; two slots, two trackers, one missed sync, every remembered table |
| `position_link` | Is the newest position recorded, and does an interrupt end the program? | three poses, each usable or not; two faults; an old server or none |

**Why the bounds are enough.**  Every branch that depends on a number is met on
both sides: the rings fill, wrap and (in SimpleApi) overflow; the dead zone has
a value inside and values outside on both sides; attempts run out more than
once; each kind of hook, of message and of fault occurs.  Three processes are
needed for two starts to overlap while an old listener is there.  Two endpoints
are needed for one to fail while another runs, and two failures for a request
that is lost on top of it.  Two syncs are needed for one to be handed over while
the other is run, a second tracker for the list of objects to be reordered.  A
frame of `lighthouses` has the same parts as the code's (preamble, length,
payload, checksum, a one after each word); its buffer is one byte longer than
the packet, so that garbage overruns it; a payload of zeros comes within a bit
of a preamble.  Three poses let one come between the two looks of the recorder
and one after them.  What does not
depend on sizes is proved for all of them (section 5).

Bounds are constants or named: `MaxPosts`, `MaxFaults`, `MaxPoses`,
`MaxInserted`, `Overlap`, `MaxSyncs`, `MaxMissed`, `MaxTurns` (syncs of a
lighthouse that is not steady); `MaxAge` caps the clock; `Bounded` in ButtonQueue
lets no further packet begin once a producer has looked at `nextReadIndex`
between its two stores, because from then on the ring may take a full lap for
none (see below).

**What the runs show.**  Under the interleavings above:
* Pins and memo never disagree when no write is pending (`MemoMatchesPins`), so
  skipping a repeated action is safe as long as only `Car` writes the pins.
* After two undisturbed passes the wheels show exactly the live values
  (`WheelsFollowLiveValues`), although passes can mix two commands and write old
  values back; a car that hears nothing stops (`SilenceStops`).
* A command that the sender erases unsent was always stored while an older one
  was on its way (`NewestAccountedFor`): the race of `next_action = None` loses
  at most that one.  No command is sent twice (`SentOnce`).
* Whatever overlapping starts do, only the process that has the port moves the
  car (`MoverIsServing`): a start that lost the race has zeros for ever.  Starts
  one after the other leave nobody else who moves it (`OldMoverIsKilled`).
* The ring of button events is a queue (`IsAQueue`) and every post matches an
  entry (`PostsMatchEntries`), until the read index is seen between its two stores.
* No pose is lost to the unlocked flag of the simple API (`NoUpdateIsLost`),
  and the shutdown comes last (`ShutdownComesLast`).
* When the operator stops, the newest command is handled, whatever failed and
  fails yet, unless it was erased or lost with a connection (`NewestIsHandled`).
* Closing ends the servicer of button events, unless it has taken an event and
  wants the lock which the close holds (`CloseEndsServicer`).
* The count of transfers is right through every handler, for every order of
  failures, timeouts and cancellations (`CountsTransfers`), so every transfer
  that is counted ends before its device is freed (`CountedEndFirst`).  Feature
  reports are not counted, and a device can be freed with one in flight; the other
  exception is the transfer that the code frees after submitting it again
  (`driver_vive.libusb.h:231`), and then nothing else of the device is read
  (`GivenUpWhole`).  Close and release end unless a transfer was counted and
  left: one that timed out, or one that could not be submitted.
* A pose with the time of another sync is never the last one (`SkewIsPending`);
  a sync waits unused only if it was signalled before the thread first waited
  (`MissedOnlyAtFirst`); a tracker is freed after its thread, wherever that thread
  was, and not under the solver, unless it is pulled out while the context is open
  (`FreedUnused`, `LeavingEnds`).
* A lighthouse whose frame was received whole is learnt, whatever the decoder had
  before (`WholeFrameIsTaken`), and never for another one (`LearntIsOwn`), as long
  as the table was not reset; a decoder whose tracker is pulled out waits for it
  for ever (`HeardIsLearnt`).
* The recorder ends only over a pose that cannot be unpacked (`RecorderLives`);
  records follow the poses and each other (`RecordsFollow`); an interrupt at any
  point ends the program, unless the listener waits for ever on a connection that
  stays open and says nothing (`InterruptEnds`): a tracker that is off is enough.

### Where code and comments disagree

Two runs expect a violation; each quotes, in `findings`, the line it refutes.

1. `drive_listener.py:101` "sending all zeros": a value that is no number ends
   the driving thread, and with it the dead-man's timeout
   (`DeadManAlwaysStops`).
2. `L/poser.c:467` `assert(self)`: the solver asks the poser of `objs[0]` without
   looking at the number of objects; when the last tracker has gone, that is the
   one that was freed (`PoserIsThere`).

The models have more steps in which the code does not do what is written beside
it, or what its reader would expect.  They have no run of their own: the
properties name them as exceptions, so that everything else is checked around
them.

* `drive_listener.py:116` "if no new command given": a command that arrives
  between the read and the write-back, or between the test of the time and the
  zeroing, is overwritten.  `WheelsFollowLiveValues` speaks of what is stored.
* `drive_listener.py:31` "make sure port is available": two overlapping starts
  miss each other.  `OldMoverIsKilled` is about starts that do not overlap.
* `L/survive.c:173` "should never happen": the read index is stored twice when it
  wraps, and a producer that looks in between takes the ring for emptier than it
  is (`torn` in ButtonQueue).
* `L/survive.c:1006` "so the thread can kill itself": it is joined with the lock
  held that it may be waiting for.  The solver is joined in the same way
  (`L/driver_global_scene_solver.c:281`, `Stuck` in PoserThreads); the posers are
  not, for `POSERDATA_DISASSOCIATE` gives the lock up.
* `L/driver_vive.c:1172` "Clear it out and move along": with a full ring the next
  axis of the packet is written through a null pointer (`crashed` in
  ButtonQueue).
* `L/driver_vive.libusb.h:222`: a transfer that timed out once is not submitted
  again, though the third timeout in a row is waited for; the interface stays
  silent, and close waits for it for ever (`LeftBehind`).
* `L/driver_vive.libusb.h:231`: a transfer that failed is submitted again and
  freed on the same path (`Mishandled`).
* `L/driver_vive.libusb.h:39`: what is sent with `update_feature_report` is not
  counted by `active_transfers`, and `driver_vive.c:901` closes the handle without
  asking for it (`report`, which `CountedEndFirst` says nothing of).
* `L/driver_vive.libusb.h:219`: the third timeout in a row, which is to mean that a
  tracker was turned off, is never seen.
* `L/poser_mpfit.c:930`: the solver gives the lock up with pointers to a poser's
  data and to trackers; nothing keeps a tracker that is pulled out from being freed
  meanwhile (`FreedUnused` speaks of the close and of the posers' own threads).
  Its scenes keep pointing at the tracker after that.
* `main/record_trajectory.py:72`: the listener is joined, though the flag that is
  to stop it is not looked at in `recv` (line 131); the joins before the end of the
  program then have no end (`InterruptEnds`).
* `L/driver_usbmon.c:598`: a driver's thread waits for the ring of events to be
  emptied; if the servicer has ended first, the close joins it for ever.
* `L/survive_process_gen2.c:446`: the reset of the table leaves the map of
  channels, so that two lighthouses can come to share a slot (`kept`, `Shared`).
* `L/poser.c:433`: a thread waits before it has looked for work.

## 4. Fairness

* **DriveListener**: both Python threads are runnable whenever they have a next
  step (no step of theirs waits for the other), and the interpreter switches
  between them: `WF(Driver)`, `WF(Handler)`, `WF(ExitWrite \/ Finalize)`.
  Messages, connections, Control-C and the clock are under no fairness; a car
  that is "stale" is so because the clock has moved.
* **CommandLink**: the thread runs; the listener that ssh starts comes up; TCP
  notices a dead connection in the end; the listener handles what has arrived.
  Keypresses and faults are free, and faults are finite (`MaxFaults`).
* **ButtonQueue**: every thread that can go on does.  The lock is a semaphore
  without an order of its waiters, but `survive_poll` lets go of it in every
  round for as long as libusb waits, so a waiter gets it: strong fairness for
  those who wait.  Packets and the close are free.
* **SimpleApi**: the application calls in a loop, a hook that has begun
  returns, and the thread sees `running = false`.  Hooks need not begin.

* **UsbDevices**: `survive_poll` is called until the close, and the loop of the
  close polls until it is done; control transfers have a timeout; libusb ends
  what was cancelled and what belonged to a device that is gone.  Nothing is
  assumed of a device that is plugged in: it may have nothing to say.
* **PoserThreads**: threads go on; as the polling thread waits for the bus
  without the lock, whoever wants it gets it now and then (strong fairness); a
  tracker that is plugged in sends motion several hundred times a second, some
  of it a second after the last scene was taken.
* **Lighthouses**: a lighthouse in `Steady` is heard by the tracker of its
  decoder again and again.  The others may fall silent.
* **PositionLink**: threads run, a process that was told to die does, a lost
  connection is noticed.  Nothing is assumed of the server: the tracker may be off,
  and then no message comes.  A thread sees the flag that stops it at its next line
  of Python: `WF(ListenerStops)` is for sleeps, for the attempts to connect, which
  time out, and for a lost connection; `MessageStops` is under no fairness.

Deadlock is not checked in these runs (`CHECK_DEADLOCK FALSE`) because all of
them can stop: the process has ended, the context is closed, the keypresses
are used up, the devices are gone.  `car_controller` checks it.

## 5. What is proved

TLAPS checks the following for every value of the constants, from the named
assumptions of the modules and nothing else.

Every safety invariant that a passing run checks is a theorem here, except that
`LearntIsOwn` is proved under a condition (see Lighthouses_proofs), and so are
the refinement of `Fifo` by both rings and the type of every module.

**DriveListener_proofs** has three parts.

*The motor outputs* (`FullAssumption`, `InputAssumption`: `Full` is a positive
number, commands are integers).  `CarInv` is inductive; it adds to the four
properties what a pending call still has to write, because `MemoMatchesPins` says
nothing while writes are pending.  From it `CarTypeCorrect`,
`MemoAlwaysMatchesPins`, `VelocityAlwaysSplit`, `DutyAlwaysWithinCommand`.

*The process on the car* (`ListenerAssumption`: the dead zone is positive, zero is
a velocity and a direction, and what is no number or missing is no number).
`ListenerDrivesTheCar` says that every behaviour of the process is one of
CarController's: each step is one of its steps or none, so what was proved of the
pins holds of the process (`ListenerMemoMatchesPins`).  For its own type
(`ListenerTypeCorrect`) and the two properties of the live values `ListenerInv`
adds:
* `ExitInv`: what the atexit handler has written stays zero unless the loop has
  written too (`raced`), and the process ends only when it has written all.  From
  it `ExitAlwaysStops`.
* `PassInv`: what the driving thread knows, step by step, in a pass that began
  after the last change of a live value (`settled >= 1`): at the clamp that the
  velocity it compared is the one still stored, at the call that the values it
  passes are, at the write-back that what it stores is what is there.  This is
  where the race would bite, and `WheelsFollowLiveValues` alone says nothing of it.
* `SettledInv`: after two passes nothing is pending and the memo is the live
  values, corrected for the dead zone.  Why two: the first can end with writes of
  what it read before the change.  With `CarInv` this is `WheelsAlwaysFollow`.

*The start of the listener* (`RestartAssumption`: at least one start at a time, no
process is called "nobody").  `OnlyServerMoves` ties the pins, the live values and
the port of a process together; `OneAfterTheOther` is the history of starts that
do not overlap: the pid file names the process that is left, the next start has
read that name when it kills, and after the kill there is no other.  From these
`RestartTypeCorrect`, `MoverIsServingAlways`, `OldMoverIsKilledAlways`.

**ButtonQueue_proofs** (`QueueAssumption`: the ring is longer than one entry, a
packet has at least one input, buttons are inputs).  `QueueInv` has:
* `LockInv` and `AtInv`: who holds the lock and where the others can be
  meanwhile; where `registerButtonEvent` is with an input.
* `RingInv`: as long as the read index was not seen between its two stores
  (`torn`), the semaphore counts the entries between the indices, but for the one
  that the servicer works on, the one that is published and not yet posted, and the
  post that ends the servicer (`PostsCounted`); all entries between the indices are
  filled (`HeldFilled`); a ring that was not full stays so until the entry is in
  (`RoomToPublish`); the post of the close is not taken for one of an entry
  (`JoinPosted`).  None of these is inductive without the others.  From it
  `QueueTypeCorrect`, `PopulatedAlwaysWhenWoken`, `PostsAlwaysMatchEntries`.
* The proof computes without `%`: `Read`, `Held` and `Place` are the indices with
  the wrap written out, and `CountIsHeld`, `PlaceIs` show that they are the code's.
* `ButtonsAreAQueue` (`Spec => IsAQueue`) looks at what is unread as a sequence:
  a `Publish` appends to it, the one step of the servicer that moves the read index
  past an entry drops its head, every other step keeps it, the second store of a
  wrap included.
* `ApplicationIsAlwaysCurrent` needs to know of every input where its value is to
  be found (`ToldInv`): its last unread event has it, or, if there is none, the
  application was told; except for the input whose event is on its way into the
  ring, and as long as no event was refused by a full ring.

**CommandLink_proofs** (assumption: at least one attempt per start of ssh).
`NewestWaits` says that what waits is the newest command, stays from the look at
it until it is cleared, and is newer than what was sent; `ReadInOrder` the same of
what json.dumps has read.  `NewestAccountedFor` follows at the one step that
erases; what is `lost` is a command or none (`LoseTypes`).  From these
`LinkTypeCorrect`, `NewestAlwaysAccountedFor` and the action
property `SentOnceAlways`.

**SimpleApi_proofs**, the ring (`RingAssumption`: it has at least one entry and the
mark for "no event" is no event).  `RingInv` joins the type, `ValidWhereCounted` and
`NeverPopsInvalid`: a pop hands out a valid entry only because the valid ones
are where the count says.  The proof looks at the ring by *age*: entry i was
written `Age(i)` writes ago, and it is valid exactly if its age is below the
count.  In this form a step needs only linear arithmetic; `ModOnce` removes the
`%` once and for all.  From it `RingNeverPopsInvalid`,
`RingAlwaysValidWhereCounted`, and `RingIsAQueue`: the contents, read off the
indices oldest first, change as a bounded queue does — a pop is `Take`, an
insert `Put`, or `Displace` when the ring is full.

The API (`ApiAssumption`: what `survive_simple_init` finds fits into
the ring and lists no object twice).  `ApiInv` adds to the type and
`NoUpdateIsLost`: where a hook and the application can be together
(`HookSound`, `CursorSound`), that `external_pose_fn` raises its flag before
the pose (`FlagBeforePose`), that only listed objects have updates, that no
hook runs after the thread (`EndedSound`), and that what the application has
looked at since its last pop is still without update unless something was
written (`Looked`).  `Kept` is `ApiInv` without the ring; there is one lemma per
action.  The ring's part needs no second proof: every step of the API is a step
of the ring or none (`StepOfRing`).  From it `ApiTypeCorrect`,
`UpdatesAreNeverLost`, `ShutdownAlwaysLast`, `ApiEventsAreAQueue`.

**UsbDevices_proofs** (assumption: the endpoints are finitely many).  A step
changes one device, or all of them alike, so the invariant is one of a device
(`Good`).  `CountsTransfers` alone is inductive only with the order of things
around it: nothing is attached before the configuration is done (`ConfigFirst`),
or `Cleanup` would count endpoints twice; and a device that is to be closed has
nothing left (`ClosedQuiet`), which follows from the count being zero only
because a device with a transfer freed in flight is set apart.  There is one
lemma for each function that the handlers share (`FreeGood`, `CloseDeviceGood`,
`CleanupGood`, `RequestGood`, `TransferGood`), and the handlers are put together
from these.  A report changes nothing of this (`ReportGood`), for none of it asks
for reports; that is why the theorem can speak of counted transfers only.  From it `UsbTypeCorrect`, `TransfersAreCounted`,
`CountedEndFirstAlways`, `FailedAreGivenUpWhole`.

**PoserThreads_proofs** (assumption: `None` is no device, syncs are numbers).
`IInv` joins the types of the threads, `NotBegun` (a thread that has not waited
has used nothing) and two invariants, which are inductive only together: a sync
is pending when it is newer than what the thread runs, because the thread clears
the flag before it reads.  From it `SkewIsPendingAlways`,
`MissedOnlyAtFirstAlways`.  The action property `FreedUnusedAlways` rests on
`CloseOrder`: the devices are destroyed by the close only after the solver's thread
has ended, and it works with nothing outside of `solve`.
`PoserTypeCorrect` needs two facts more: a device that is plugged in is in the
list (`ListInv`), through every removal, which moves the last entry into the place
of the one removed; and the solver is asked for only when there is an entry, if
only a stale one (`Asked`).

**PositionLink_proofs** (assumption: `None` is no pose).  The invariant adds to
`RecorderLives` that the position is one that came, usable unless `unusable`, and
that the remembered quaternion is that of the last record.  From it
`PositionTypeCorrect`, `RecorderLivesAlways` and the action property
`RecordsFollowAlways`.

**Lighthouses_proofs** (`DecoderAssumption`, `PacketAssumption`,
`LighthouseAssumption`: a word is two bytes, packets fit into the buffer, end with
a word and have the length that they say; there are slots for all lighthouses).
The part on OotxDecoder is about one bit: what `Pump` does to a decoder that is at
bit k of a frame (`InFrame`: the zeros of the preamble so far; or, within the
payload, the place and exactly the bits of the packet up to it).  `FrameStep` says
that the next bit of the frame leads to the next place, whatever the decoder held
when the frame began, for a frame of any length; at its last bit the packet is
complete, and not before (`CompleteAtTheEnd`), and is the one that was sent.
`LighthouseInv` joins to that the types, that a lighthouse that is seen from the
start of its frame has a slot and a tracker, and that the table gives no slot
twice unless it was reset (`KeptInv`).  From it `LighthouseTypeCorrect`,
`WholeFrameAlwaysTaken`, `SlotsAreOwnUnlessReset`.

`OwnWhenAllIsSeen` is `LearntIsOwn` for `MaxMissed = 0`: a tracker may be pulled
out, a decoder may begin at any bit of any frame, but a tracker that is there sees
every sync.  The invariant says that a decoder which has had bits of one
lighthouse only, begun anywhere, has found no preamble before the true one (the
one after each word of data breaks any run of zeros), so that it holds the packet's own
bits or nothing (`OfFrame`).  With missed syncs the statement is false for
arbitrary packets: a skipped bit leaves in the buffer what an earlier packet left
there, and one that is not seen at all shifts those that follow, so that the bits
of one packet can turn into those of another, which the ideal checksum takes.
(Two packets of the size of the run that differ in one bit are enough: TLC finds
the counterexample with one missed sync.)  The packets of the run are too far
apart for the one sync that it misses; that case stays with TLC, which follows
whole frames of the steady lighthouse only.

**Only model-checked**: `LearntIsOwn` with missed syncs, and everything that has
to do with liveness
(`SilenceStops`, `CommandIsSent`, `NewestIsHandled`,
`FoundIsDelivered`, `CloseEndsServicer`, `ShutdownIsTold`, `CloseEnds`,
`UnpluggedIsReleased`, `NewestIsUsed`, `LeavingEnds`, `NeedIsServed`,
`HeardIsLearnt`, `NewestIsRecorded`, `InterruptEnds`): liveness under fairness
and `ENABLED` are out of this prover's reach.  So is induction over data with the
library's theorems, which take an operator; for the one fact that needed it (the
number a word of bits stands for is a natural number, `NumberIsNat`) the
induction is over a set of numbers (`SetInduction`), which needs none.
`VelocityIsSplit`, `ValidWhereCounted` and `GivenUpWhole` are stated and proved,
and no run lists them.  No module uses a `RECURSIVE` operator.

## 6. What is left out, and why

* Values that no decision depends on: wording, printing, the numbers in a pose.
* The notification of the simple API: it only shortens a wait that ends anyway.
* `handled` in CommandLink stands for the listener; the two are not composed,
  because the properties of each speak of one side only.
* Reuse of process ids, and file systems that fail.
* Python's memory model below single attribute accesses, which the interpreter
  lock makes atomic; in C, loads and stores of an `int` are taken as atomic, and
  a build that keeps `nextReadIndex` in a register is a special case of the
  model (no step comes between its two stores).
* UsbDevices: the two devices of a headset that share a record, dongles without
  a codename, the build with HIDAPI, the limit `MAX_USB_DEVS`, and what is in a
  packet (its buttons are in ButtonQueue).
* PoserThreads: what a poser computes, what is in a scene, and which scenes are
  worth taking (a free choice of `CheckScenes`); the 32 slots of the scenes, which
  the model does not run out of: a scene may be of any tracker that was ever there.
* ListenerRestart: the level of the pins after SIGTERM, for which no exit handler
  runs; what is kept of a process that has ended is that it writes no more.
* OotxDecoder: the checksum is ideal (a packet is taken exactly if it is one that
  is sent), so nothing is said of the odds of an error that CRC-32 does not see;
  the fields of the payload.  Lighthouses: those of the first generation, whose
  channel is their slot.
* PositionLink: ends of the main thread other than an interrupt, and a second
  interrupt during the joins; process ids.
* Most lines of the repository are numerical (generated derivatives, optimizers,
  Kalman filters: floating point), vendored, or file formats.  They keep no state
  that a step of another thread could find half-done, so there is nothing in them
  for these methods.
* The parts of the repository that `PROJECT.json` lists as not modelled.

Hazards that no property covers, beside those in `PROJECT.json`:
* `repos/car_code/car_controller.py:166`: the direction pin changes before the duty.
* `L/driver_vive.c:1355`: the mask of a packet has 8 bits, those of the object 32.
* `L/driver_vive.c:755`: a device that arrives is stored without a look at
  `MAX_USB_DEVS`.
* `L/survive.c:1010`: the semaphore is deleted before the drivers' threads stop.
* `L/survive.c:712`: a tracker that is there at startup gets a second poser.
* `L/survive_api.c:270`, `388`, `594`: an update may come before the event that
  announces its device; an object early in the list can starve later ones; pose and
  velocity are read under two holds of the mutex.
* `L/driver_global_scene_solver.c:69`, `149`, `223`: scenes keep pointers to objects,
  are counted past the slots there are, and their times are indexed by place.
* `L/ootx_decoder.c:156`: a length that noise produced pads to 0.
* `main/record_trajectory.py:166`, `256`, `257`: a pose that is old is recorded again;
  the process id is of an earlier run; the new server fails while the old one is there.

## 7. Plan

Next theorems, in this order:

1. `LearntIsOwn` of Lighthouses with missed syncs, under an assumption on how many
   bits the packets differ in; it needs to count, beside the place of the decoder,
   the bits it has missed since the preamble.
2. Action properties of the remaining modules, as `SentOnce` and `RecordsFollow`
   are for theirs.

Next models: the table of drivers in `survive.c`, with drivers that are removed
while others are polled; the widths of masks in a packet
(`driver_vive.c:1355`); the disambiguator's timestamps, which wrap at 32 bits.
