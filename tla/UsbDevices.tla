----------------------------- MODULE UsbDevices -----------------------------
(***************************************************************************)
(* The trackers on the USB bus (repos/libsurvive/src/driver_vive.c with    *)
(* driver_vive.libusb.h and driver_vive.config.h): a device arrives, is    *)
(* asked for its configuration one control transfer at a time, then read   *)
(* through one interrupt transfer per endpoint, until it is pulled out,    *)
(* fails, or the context is closed.  It may be freed only when libusb has  *)
(* nothing of it left, which active_transfers is there to tell: of the     *)
(* configuration and the interfaces.  A feature report (a change of mode,  *)
(* a haptic pulse, a pairing) is an asynchronous control transfer too,     *)
(* which nothing counts.                                                   *)
(*                                                                         *)
(* Everything runs on the polling thread: survive_vive_usb_poll, and the   *)
(* callbacks that libusb_handle_events makes.  A device here is one        *)
(* arrival; pulled out and put back it is another one.                     *)
(***************************************************************************)
EXTENDS Integers, FiniteSets

CONSTANTS Devices, Endpoints,
          MaxFaults   \* bound: failures that are not an unplugged device's

ASSUME UsbAssumption == IsFiniteSet(Endpoints) /\ Endpoints # {} /\ MaxFaults \in Nat

VARIABLES plug,     \* "away", "in" or "out": where the device is
          usb,      \* its SurviveUSBInfo
          phase,    \* of the context: "open", "closing" or "closed"
          faults

vars == <<plug, usb, phase, faults>>

\* What the control transfer asks for next; "none" is cfg_user = 0.
Steps == {"none", "readmode", "read", "magics", "version", "scales"}

(***************************************************************************)
(* Where a transfer is.  "timed": in flight with a timeout; "cancelled":   *)
(* in flight and cancelled; "quiet": timed out and not submitted again;    *)
(* "failed": could not be submitted; "freed"; "dangling": freed while in   *)
(* flight; "twice": the callback ran on the freed one all the same.        *)
(***************************************************************************)
Running == {"flight", "timed"}
InFlight == Running \cup {"cancelled"}
Transfers == InFlight \cup {"none", "quiet", "failed", "freed", "dangling", "twice"}
Requests == {"none", "due", "flight", "cancelled", "failed", "dropped"}

Absent == [open |-> FALSE, so |-> FALSE, active |-> 0, shutdown |-> FALSE,
           close |-> FALSE, reopen |-> FALSE, report |-> FALSE, cfg |-> "none", tx |-> "none",
           iface |-> [e \in Endpoints |-> "none"], missed |-> [e \in Endpoints |-> 0]]

Info == [open: BOOLEAN, so: BOOLEAN, active: Int, shutdown: BOOLEAN,
         close: BOOLEAN, reopen: BOOLEAN,
         report: BOOLEAN,   \* a feature report is in flight
         cfg: Steps, tx: Requests,
         iface: [Endpoints -> Transfers], missed: [Endpoints -> 0 .. 3]]

TypeOK ==
    /\ plug \in [Devices -> {"away", "in", "out"}]
    /\ usb \in [Devices -> Info]
    /\ phase \in {"open", "closing", "closed"}
    /\ faults \in 0 .. MaxFaults

Init ==
    /\ plug = [d \in Devices |-> "away"]
    /\ usb = [d \in Devices |-> Absent]
    /\ phase = "open" /\ faults = 0

\* libusb refuses a transfer of a device that is gone, and may refuse another.
Submit(d, ok) ==
    /\ ok => plug[d] = "in"
    /\ faults' = IF ok \/ plug[d] = "out" THEN faults ELSE faults + 1
    /\ faults' <= MaxFaults

\* The device is well and gives an answer that is not the one it should be.
Fault == faults < MaxFaults /\ faults' = faults + 1

Set(d, u) == usb' = [usb EXCEPT ![d] = u]

----------------------------------------------------------------------------
\* survive_start_get_config, as the last part of survive_vive_add_usb_device.
Added == [Absent EXCEPT !.open = TRUE, !.active = 1, !.cfg = "readmode", !.tx = "due"]

\* Mutant: a transfer that could not be submitted is not counted.
AttachMutant(u, ok) ==
    [u EXCEPT !.active = @ + Cardinality(ok),
              !.iface = [e \in Endpoints |-> IF e \in ok THEN "flight" ELSE "failed"]]

\* AttachInterface, for the endpoints in ok with success: counted either way.
Attach(u, ok) ==
    [u EXCEPT !.active = @ + Cardinality(Endpoints),
              !.iface = [e \in Endpoints |-> IF e \in ok THEN "flight" ELSE "failed"]]

\* Mutant: a device that is shut down is not closed with its last transfer.
CleanupMutant(u, ok) ==
    LET v == IF u.shutdown THEN u ELSE Attach(u, ok)
    IN  [v EXCEPT !.cfg = "none", !.tx = "none", !.active = @ - 1]

\* cleanup of handle_config_tx: the device is read from now on.
Cleanup(u, ok) ==
    LET v == IF u.shutdown THEN u ELSE Attach(u, ok)
    IN  [v EXCEPT !.cfg = "none", !.tx = "none", !.active = @ - 1,
                  !.close = @ \/ (u.shutdown /\ v.active = 1)]

\* Mutant: the interfaces are not cancelled.
CloseDeviceMutant(u, sent) ==
    [u EXCEPT !.shutdown = TRUE,
              !.close = @ \/ u.active = 0,
              !.tx = IF @ = "flight" \/ (@ = "due" /\ sent) THEN "cancelled"
                     ELSE IF @ = "due" THEN "failed" ELSE @]

\* survive_close_usb_device: a request that is due is sent to be cancelled.
CloseDevice(u, sent) ==
    [u EXCEPT !.shutdown = TRUE,
              !.close = @ \/ u.active = 0,
              !.tx = IF @ = "flight" \/ (@ = "due" /\ sent) THEN "cancelled"
                     ELSE IF @ = "due" THEN "failed" ELSE @,
              !.iface = [e \in Endpoints |->
                            IF @[e] \in Running THEN "cancelled" ELSE @[e]]]

\* Mutant: any transfer that is freed closes the device.
FreeMutant(u, e, as) == [u EXCEPT !.iface[e] = as, !.active = @ - 1, !.close = TRUE]

\* shutdown of handle_transfer: the transfer is freed, as what it then is.
Free(u, e, as) ==
    [u EXCEPT !.iface[e] = as, !.active = @ - 1, !.close = @ \/ u.active = 1]

----------------------------------------------------------------------------
\* The hotplug callback: the device is opened, or cannot be.
Arrive(d) ==
    /\ phase = "open" /\ plug[d] = "away"
    /\ plug' = [plug EXCEPT ![d] = "in"]
    /\ \/ Set(d, Added) /\ UNCHANGED faults
       \/ Fault /\ UNCHANGED usb
    /\ UNCHANGED phase

Unplug(d) ==
    /\ plug[d] = "in"
    /\ plug' = [plug EXCEPT ![d] = "out"]
    /\ UNCHANGED <<usb, phase, faults>>

\* survive_config_poll.
PollConfig(d) ==
    LET u == usb[d]
        dropped == [u EXCEPT !.tx = "dropped", !.active = @ - 1]
    IN  /\ phase = "open" /\ u.open /\ u.tx = "due"
        /\ \E ok \in BOOLEAN :
              /\ Submit(d, ok)
              /\ Set(d, IF ok THEN [u EXCEPT !.tx = "flight"] ELSE CloseDevice(dropped, ok))
        /\ UNCHANGED <<plug, phase>>

\* survive_handle_close_request_flag: libusb_close and free.  What is in flight
\* stays to be seen; that of a handle that is closed gets no callback.  The
\* device is never opened again here (see TurnedOff).
PollClose(d) ==
    LET u == usb[d] IN
    /\ u.open /\ u.close
    /\ Set(d, IF u.reopen /\ plug[d] = "in" THEN Added
              ELSE [u EXCEPT !.open = FALSE, !.so = FALSE])
    /\ UNCHANGED <<plug, phase, faults>>

\* The endpoints in ok can be submitted; what that and the failure before it cost.
Attached(d, ok, failure) ==
    /\ plug[d] # "in" => ok = {}
    /\ faults' = IF plug[d] = "in" THEN faults + failure + Cardinality(Endpoints \ ok) ELSE faults
    /\ faults' <= MaxFaults

\* handle_config_tx, for a device that is shut down.
ConfigCancelled(d) ==
    /\ usb[d].open /\ usb[d].tx = "cancelled"
    /\ Set(d, Cleanup(usb[d], {}))
    /\ UNCHANGED <<plug, phase, faults>>

\* A stall or a timeout: asked again later.
ConfigStalls(d) ==
    /\ usb[d].open /\ usb[d].tx = "flight"
    /\ Set(d, [usb[d] EXCEPT !.tx = "due"])
    /\ UNCHANGED <<plug, phase, faults>>

\* Another status, or a configuration that cannot be unpacked.
ConfigFails(d) ==
    /\ usb[d].open /\ usb[d].tx = "flight"
    /\ \E ok \in SUBSET Endpoints : Attached(d, ok, 1) /\ Set(d, Cleanup(usb[d], ok))
    /\ UNCHANGED <<plug, phase>>

\* What may be asked after an answer to a step: again, or what comes next.
NextStep(s) ==
    CASE s = "readmode" -> {"read"}
      [] s = "read"     -> {"read", "readmode", "magics"}
      [] s = "magics"   -> {"magics", "version"}
      [] s = "version"  -> {"version", "scales"}
      [] s = "scales"   -> {"none"}

\* An answer: the next request is sent; or it cannot be, or there is none.
ConfigAnswer(d) ==
    LET u == [usb[d] EXCEPT !.so = TRUE] IN
    /\ u.open /\ u.tx = "flight"
    /\ \E s \in NextStep(u.cfg) :
          \/ s # "none" /\ plug[d] = "in" /\ Set(d, [u EXCEPT !.cfg = s]) /\ UNCHANGED faults
          \/ \E ok \in SUBSET Endpoints :
                /\ Attached(d, ok, IF s = "none" THEN 0 ELSE 1)
                /\ Set(d, Cleanup(u, ok))
    /\ UNCHANGED <<plug, phase>>

\* An answer to CONFIG that is none: the callback returns and asks no more.
ConfigUnknown(d) ==
    /\ usb[d].open /\ usb[d].tx = "flight" /\ usb[d].cfg \in {"readmode", "read"}
    /\ Fault
    /\ Set(d, [usb[d] EXCEPT !.so = TRUE, !.tx = "failed"])
    /\ UNCHANGED <<plug, phase>>

----------------------------------------------------------------------------
\* handle_transfer with data: submitted again, or freed.  The callback for the
\* data may find the tracker in the wrong mode: vive_switch_mode sends a report.
Completed(d, e) ==
    LET u == usb[d] IN
    /\ u.open /\ u.iface[e] \in Running
    /\ \E ok \in BOOLEAN, switch \in BOOLEAN :
          /\ Submit(d, ok)
          /\ Set(d, IF ok THEN [u EXCEPT !.iface[e] = IF u.so THEN "timed" ELSE @, !.missed[e] = 0,
                                          !.report = @ \/ (switch /\ u.so)]
                    ELSE Free(u, e, "freed"))
    /\ UNCHANGED <<plug, phase>>

\* survive_haptic, called by the application, or a receiver asked to pair: a
\* report that is not sent from the callback of another transfer.
SendReport(d) ==
    /\ phase = "open" /\ usb[d].open /\ plug[d] = "in"
    /\ Set(d, [usb[d] EXCEPT !.report = TRUE])
    /\ UNCHANGED <<plug, phase, faults>>

\* monitor_transfer, the callback of the last report in flight.  It asserts that
\* the report was done; in the build of the Makefile (RelWithDebInfo) assertions
\* are left out, and a report that failed is freed like any other.
ReportEnds(d) ==
    /\ usb[d].open /\ usb[d].report
    /\ Set(d, [usb[d] EXCEPT !.report = FALSE])
    /\ UNCHANGED <<plug, phase, faults>>

\* object_turned_off of handle_transfer, once three timeouts have been seen.  As
\* written it is never reached, nor is what reopen asks for: the first timeout is
\* the last, for it does not submit the transfer again (UsbDevices_proofs shows
\* it as NoneMissed).
TurnedOff(u, e) == Free(CloseDevice([u EXCEPT !.reopen = TRUE], FALSE), e, "freed")

\* handle_transfer after a timeout: the first two return without a submit.
TimedOut(d, e) ==
    LET u == [usb[d] EXCEPT !.missed[e] = @ + 1] IN
    /\ u.open /\ u.iface[e] = "timed"
    /\ Set(d, IF u.missed[e] >= 3 THEN TurnedOff(u, e) ELSE [u EXCEPT !.iface[e] = "quiet"])
    /\ UNCHANGED <<plug, phase, faults>>

\* handle_transfer after an error: submitted again and, even so, freed.
Failed(d, e) ==
    LET u == usb[d] IN
    /\ u.open /\ u.iface[e] \in Running
    /\ \E again \in BOOLEAN :
          /\ again => plug[d] = "in"
          /\ Set(d, IF again THEN Free(CloseDevice(u, FALSE), e, "dangling") ELSE Free(u, e, "freed"))
    /\ IF plug[d] = "in" THEN Fault ELSE UNCHANGED faults
    /\ UNCHANGED <<plug, phase>>

\* handle_transfer, for a device that is shut down.
Cancelled(d, e) ==
    /\ usb[d].open /\ usb[d].iface[e] = "cancelled"
    /\ Set(d, Free(usb[d], e, "freed"))
    /\ UNCHANGED <<plug, phase, faults>>

\* The callback of a transfer that was freed, if its memory is still as it was.
Late(d, e) ==
    /\ usb[d].open /\ usb[d].iface[e] = "dangling"
    /\ Set(d, Free(usb[d], e, "twice"))
    /\ UNCHANGED <<plug, phase, faults>>

----------------------------------------------------------------------------
\* survive_vive_close, up to its loop.
Close ==
    /\ phase = "open" /\ phase' = "closing"
    /\ \E sent \in [Devices -> BOOLEAN] :
          /\ \A d \in Devices : sent[d] <=> plug[d] = "in" /\ usb[d].tx = "due"
          /\ usb' = [d \in Devices |->
                        IF usb[d].open THEN CloseDevice(usb[d], sent[d]) ELSE usb[d]]
    /\ UNCHANGED <<plug, faults>>

\* The end of its loop.
Closed ==
    /\ phase = "closing" /\ \A d \in Devices : ~usb[d].open
    /\ phase' = "closed"
    /\ UNCHANGED <<plug, usb, faults>>

ConfigCallback(d) ==
    ConfigCancelled(d) \/ ConfigStalls(d) \/ ConfigFails(d) \/ ConfigAnswer(d) \/ ConfigUnknown(d)

Callback(d, e) == Completed(d, e) \/ TimedOut(d, e) \/ Failed(d, e) \/ Cancelled(d, e) \/ Late(d, e)

Next ==
    \/ \E d \in Devices : Arrive(d) \/ Unplug(d) \/ PollConfig(d) \/ PollClose(d) \/ ConfigCallback(d)
    \/ \E d \in Devices : SendReport(d) \/ ReportEnds(d)
    \/ \E d \in Devices, e \in Endpoints : Callback(d, e)
    \/ Close \/ Closed

(***************************************************************************)
(* survive_poll goes on until the close, and the close until it is done;   *)
(* control transfers have a timeout; libusb ends what was cancelled and    *)
(* what belonged to a device that is out.  Nothing is said of a device     *)
(* that is in: it may have nothing to say.                                 *)
(***************************************************************************)
Fairness ==
    /\ WF_vars(Closed)
    /\ \A d \in Devices :
          WF_vars(PollConfig(d)) /\ WF_vars(PollClose(d)) /\ WF_vars(ConfigCallback(d))
    /\ \A d \in Devices, e \in Endpoints :
          WF_vars(Cancelled(d, e)) /\ WF_vars(plug[d] = "out" /\ (Completed(d, e) \/ Failed(d, e)))

Spec == Init /\ [][Next]_vars /\ Fairness

----------------------------------------------------------------------------
\* What of u is counted, and is not in the hands of libusb, nor to be sent.
LeftBehind(u) == u.tx = "failed" \/ \E e \in Endpoints : u.iface[e] \in {"quiet", "failed"}

\* A transfer that failed was freed although it had been submitted again.
Mishandled(u) == \E e \in Endpoints : u.iface[e] \in {"dangling", "twice"}

\* active_transfers is the number of interrupt transfers that are not freed, and
\* of the request for the configuration, whichever handlers they went through; a
\* callback on a freed one counts it off twice.
CountsTransfers ==
    \A d \in Devices : LET u == usb[d] IN
        u.active = Cardinality({e \in Endpoints : u.iface[e] \in InFlight \cup {"quiet", "failed"}})
                   + Cardinality({u.cfg} \ (IF u.tx = "dropped" THEN {u.cfg} ELSE {"none"}))
                   - Cardinality({e \in Endpoints : u.iface[e] = "twice"})

\* When a device is freed, its interrupt transfers and the request for its
\* configuration are over: none is with libusb, is to be sent yet, or was left
\* allocated.  Two things are not said, because the code does not see to them: a
\* transfer freed in flight (driver_vive.libusb.h:231) may be there still, and so
\* may a feature report, which is not counted.
CountedEndFirst ==
    \A d \in Devices : LET u == usb[d] IN
        ~u.open /\ ~Mishandled(u) =>
            /\ u.tx \in {"none", "dropped"}
            /\ \A e \in Endpoints : u.iface[e] \in {"none", "freed"}

\* A device of which one interface has failed is given up as a whole: no other
\* interface goes on to deliver light or motion on its own.
GivenUpWhole ==
    \A d \in Devices : LET u == usb[d] IN
        Mishandled(u) => \A e \in Endpoints : u.iface[e] \notin Running

\* Closing the context ends, unless a transfer was left behind uncounted for:
\* then survive_vive_close waits in its loop for ever.
CloseEnds == phase = "closing" ~> phase = "closed" \/ \E d \in Devices : LeftBehind(usb[d])

\* A device that is pulled out leaves the list of devices, and its tracker the
\* context, unless a transfer of it was left behind.
UnpluggedIsReleased ==
    \A d \in Devices : plug[d] = "out" ~> ~usb[d].open \/ LeftBehind(usb[d])
=============================================================================
