------------------------- MODULE UsbDevices_proofs --------------------------
(***************************************************************************)
(* For any devices, any endpoints and any number of failures: what         *)
(* active_transfers counts, and that a device is freed only when all that  *)
(* it counts is over.  A step changes one device, or all of them in the    *)
(* same way, so the invariant is one of a device (Good), and there is one  *)
(* lemma for each operator that the handlers are put together from.        *)
(***************************************************************************)
EXTENDS UsbDevices, TLAPS, FiniteSetTheorems

\* What is counted of a device: its transfers, less those counted off twice,
\* and the request for its configuration.
Live(u) == {e \in Endpoints : u.iface[e] \in InFlight \cup {"quiet", "failed"}}
Twice(u) == {e \in Endpoints : u.iface[e] = "twice"}
Request(u) == IF u.cfg = "none" \/ u.tx = "dropped" THEN 0 ELSE 1

Counted(u) == u.active = Cardinality(Live(u)) + Request(u) - Cardinality(Twice(u))

\* libusb has nothing of the device that is counted, nor will it be given any.
Quiet(u) == u.tx \in {"none", "dropped"} /\ Live(u) = {}

\* The interfaces are attached when the configuration is done, not before.
ConfigFirst(u) ==
    /\ u.cfg = "none" <=> u.tx = "none"
    /\ u.cfg # "none" => \A e \in Endpoints : u.iface[e] = "none" /\ u.missed[e] = 0

GivenUp(u) == Mishandled(u) => u.shutdown /\ \A e \in Endpoints : u.iface[e] \notin Running

\* Both what is to be closed and what is closed.
ClosedQuiet(u) == (u.close \/ ~u.open) /\ ~Mishandled(u) => Quiet(u)

\* A timeout is the first since the transfer was last submitted.
NoneMissed(u) == \A e \in Endpoints : u.iface[e] \in Running => u.missed[e] = 0

Good(u) ==
    /\ u \in Info
    /\ Counted(u) /\ ConfigFirst(u) /\ GivenUp(u) /\ ClosedQuiet(u) /\ NoneMissed(u)

IInv ==
    /\ plug \in [Devices -> {"away", "in", "out"}]
    /\ usb \in [Devices -> Info] /\ \A d \in Devices : Good(usb[d])
    /\ phase \in {"open", "closing", "closed"}
    /\ faults \in 0 .. MaxFaults

----------------------------------------------------------------------------
\* The counted sets are finite, so that they have a size to add up.
LEMMA Sizes ==
  ASSUME NEW u
  PROVE  /\ IsFiniteSet(Live(u)) /\ Cardinality(Live(u)) \in Nat
         /\ IsFiniteSet(Twice(u)) /\ Cardinality(Twice(u)) \in Nat
<1>1. IsFiniteSet(Endpoints)
  BY UsbAssumption
<1>2. Live(u) \subseteq Endpoints /\ Twice(u) \subseteq Endpoints
  BY DEF Live, Twice
<1>3. IsFiniteSet(Live(u)) /\ IsFiniteSet(Twice(u))
  BY <1>1, <1>2, FS_Subset
<1>. QED
  BY <1>3, FS_CardinalityType

\* The device with some of its fields set, and what becomes of the others.
WithoutRequest(u, n, close) ==
    [u EXCEPT !.cfg = "none", !.tx = "none", !.active = n, !.close = close]

WithOpen(u, open, n, cfg, tx) ==
    [u EXCEPT !.open = open, !.active = n, !.cfg = cfg, !.tx = tx]

WithInterfaces(u, n, iface) == [u EXCEPT !.active = n, !.iface = iface]

LEMMA WithoutRequestIs ==
  ASSUME NEW u \in Info, NEW n \in Int, NEW close \in BOOLEAN
  PROVE  LET v == WithoutRequest(u, n, close)
         IN  /\ v \in Info /\ v.cfg = "none" /\ v.tx = "none" /\ v.active = n
             /\ v.open = u.open /\ v.iface = u.iface /\ v.missed = u.missed
<1>1. "none" \in Steps /\ "none" \in Requests
  BY DEF Steps, Requests
<1>. QED
  BY <1>1 DEF Info, WithoutRequest

LEMMA WithoutRequestStaysOpen ==
  ASSUME NEW u \in Info, NEW n \in Int
  PROVE  LET v == WithoutRequest(u, n, u.close)
         IN  /\ v \in Info /\ v.cfg = "none" /\ v.tx = "none" /\ v.active = n
             /\ v.close = u.close
             /\ v.open = u.open /\ v.iface = u.iface /\ v.missed = u.missed
<1>1. "none" \in Steps /\ "none" \in Requests
  BY DEF Steps, Requests
<1>2. WithoutRequest(u, n, u.close) \in Info
  BY <1>1 DEF Info, WithoutRequest
<1>. QED
  BY <1>2 DEF Info, WithoutRequest

LEMMA WithOpenIs ==
  ASSUME NEW u \in Info, NEW cfg \in Steps, NEW tx \in Requests, NEW n \in Int,
         NEW open \in BOOLEAN
  PROVE  WithOpen(u, open, n, cfg, tx) \in Info
  BY DEF Info, WithOpen

LEMMA WithInterfacesIs ==
  ASSUME NEW u \in Info, NEW n \in Int, NEW iface \in [Endpoints -> Transfers]
  PROVE  LET v == WithInterfaces(u, n, iface)
         IN  /\ v \in Info /\ v.active = n /\ v.iface = iface /\ v.close = u.close
             /\ v.open = u.open /\ v.shutdown = u.shutdown /\ v.missed = u.missed
  BY DEF Info, WithInterfaces

\* A device that is not there, and one that was just added, is good.
LEMMA NewGood == Good(Absent) /\ Good(Added)
<1>1. Absent \in Info /\ Added \in Info
  <2>1. [e \in Endpoints |-> "none"] \in [Endpoints -> Transfers]
    BY DEF Transfers
  <2>2. [e \in Endpoints |-> 0] \in [Endpoints -> 0 .. 3]
    OBVIOUS
  <2>3. Absent \in Info
    BY <2>1, <2>2 DEF Absent, Info, Steps, Requests
  <2>4. "readmode" \in Steps /\ "due" \in Requests /\ 1 \in Int /\ TRUE \in BOOLEAN
    BY DEF Steps, Requests
  <2>5. Added = WithOpen(Absent, TRUE, 1, "readmode", "due")
    BY DEF Added, WithOpen
  <2>. QED
    BY <2>3, <2>4, <2>5, WithOpenIs, Zenon
<1>2. Live(Absent) = {} /\ Live(Added) = {} /\ Twice(Absent) = {} /\ Twice(Added) = {}
  BY DEF Live, Twice, Absent, Added, InFlight, Running
<1>3. Request(Absent) = 0 /\ Request(Added) = 1
  BY DEF Request, Absent, Added
<1>4. Counted(Absent) /\ Counted(Added)
  <2>1. Absent.active = 0 /\ Added.active = 1
    BY DEF Absent, Added
  <2>2. Cardinality({}) = 0
    BY FS_EmptySet
  <2>. QED
    BY <1>2, <1>3, <2>1, <2>2 DEF Counted
<1>5. ~Mishandled(Absent) /\ ~Mishandled(Added)
  BY DEF Mishandled, Absent, Added
<1>. QED
  BY <1>1, <1>2, <1>4, <1>5
  DEF Good, ConfigFirst, GivenUp, ClosedQuiet, NoneMissed, Quiet, Absent, Added, Running

\* A transfer is freed once: its count goes, and with the last one the device.
LEMMA FreeGood ==
  ASSUME NEW u, Good(u), u.open, NEW e \in Endpoints, u.iface[e] \in InFlight,
         NEW as \in {"freed", "dangling"},
         as = "dangling" => u.shutdown /\ \A f \in Endpoints : u.iface[f] \notin Running
  PROVE  Good(Free(u, e, as))
<1>. DEFINE v == Free(u, e, as)
<1>1. u \in Info
  BY DEF Good
<1>2. /\ v.iface = [u.iface EXCEPT ![e] = as] /\ v.active = u.active - 1
      /\ v.close = (u.close \/ u.active = 1)
      /\ v.cfg = u.cfg /\ v.tx = u.tx /\ v.shutdown = u.shutdown /\ v.open = u.open
      /\ v.missed = u.missed
  BY <1>1 DEF Free, Info
<1>3. v \in Info
  <2>1. [u.iface EXCEPT ![e] = as] \in [Endpoints -> Transfers]
    BY <1>1 DEF Info, Transfers
  <2>2. (u.close \/ u.active = 1) \in BOOLEAN /\ u.active - 1 \in Int
    BY <1>1 DEF Info
  <2>. QED
    BY <1>1, <2>1, <2>2 DEF Free, Info
<1>4. e \in Live(u) /\ e \notin Twice(u)
  BY DEF Live, Twice, InFlight, Running
<1>5. Live(v) = Live(u) \ {e} /\ Twice(v) = Twice(u)
  <2>1. \A f \in Endpoints : v.iface[f] = IF f = e THEN as ELSE u.iface[f]
    BY <1>1, <1>2 DEF Info
  <2>. QED
    BY <2>1, <1>4 DEF Live, Twice, InFlight, Running
<1>6. Cardinality(Live(v)) = Cardinality(Live(u)) - 1
  BY <1>4, <1>5, FS_RemoveElement, Sizes
<1>7. Counted(v)
  <2>1. Request(v) = Request(u) /\ Request(u) \in {0, 1}
    BY <1>2 DEF Request
  <2>2. u.active = Cardinality(Live(u)) + Request(u) - Cardinality(Twice(u))
    BY DEF Good, Counted
  <2>3. v.active = Cardinality(Live(v)) + Request(v) - Cardinality(Twice(v))
    BY <1>2, <1>5, <1>6, <2>1, <2>2, Sizes
  <2>. QED
    BY <2>3 DEF Counted
<1>8. u.cfg = "none" /\ u.tx = "none"
  BY DEF Good, ConfigFirst, InFlight, Running
<1>9. ConfigFirst(v)
  BY <1>2, <1>8 DEF ConfigFirst
<1>10. GivenUp(v)
  BY <1>1, <1>2 DEF Good, GivenUp, Mishandled, Info, Running
<1>11. ClosedQuiet(v)
  <2>. SUFFICES ASSUME v.close \/ ~v.open, ~Mishandled(v)
                PROVE  Quiet(v)
    BY DEF ClosedQuiet
  <2>1. ASSUME NEW f \in Endpoints
        PROVE  u.iface[f] \notin {"dangling", "twice"}
    <3>1. CASE f = e
      BY <3>1 DEF InFlight, Running
    <3>2. CASE f # e
      <4>1. v.iface[f] = u.iface[f]
        BY <3>2, <1>1, <1>2 DEF Info
      <4>. QED
        BY <4>1 DEF Mishandled
    <3>. QED
      BY <3>1, <3>2
  <2>2. Twice(u) = {} /\ ~Mishandled(u) /\ ~Quiet(u)
    BY <2>1, <1>4 DEF Twice, Mishandled, Quiet
  <2>3. u.active = 1
    BY <1>2, <2>2 DEF Good, ClosedQuiet
  <2>4. Request(u) = 0
    BY <1>8 DEF Request
  <2>5. Cardinality(Live(u)) = 1
    BY <2>2, <2>3, <2>4, FS_EmptySet, Sizes DEF Good, Counted
  <2>6. Live(v) = {}
    <3>1. Cardinality(Live(v)) = 0
      BY <2>5, <1>6
    <3>2. IsFiniteSet(Live(v))
      BY Sizes
    <3>. QED
      BY <3>1, <3>2, FS_EmptySet
  <2>. QED
    BY <2>6, <1>2, <1>8 DEF Quiet
<1>12. NoneMissed(v)
  BY <1>1, <1>2 DEF Good, NoneMissed, Info, Running
<1>. QED
  BY <1>3, <1>7, <1>9, <1>10, <1>11, <1>12 DEF Good

\* The callback on a transfer that was freed in flight counts it off again.
LEMMA LateGood ==
  ASSUME NEW u, Good(u), NEW e \in Endpoints, u.iface[e] = "dangling"
  PROVE  Good(Free(u, e, "twice"))
<1>. DEFINE v == Free(u, e, "twice")
<1>1. u \in Info
  BY DEF Good
<1>2. /\ v.iface = [u.iface EXCEPT ![e] = "twice"] /\ v.active = u.active - 1
      /\ v.cfg = u.cfg /\ v.tx = u.tx /\ v.shutdown = u.shutdown
      /\ v.missed = u.missed
  BY <1>1 DEF Free, Info
<1>3. v \in Info
  <2>1. [u.iface EXCEPT ![e] = "twice"] \in [Endpoints -> Transfers]
    BY <1>1 DEF Info, Transfers
  <2>2. (u.close \/ u.active = 1) \in BOOLEAN /\ u.active - 1 \in Int
    BY <1>1 DEF Info
  <2>. QED
    BY <1>1, <2>1, <2>2 DEF Free, Info
<1>4. e \notin Live(u) /\ e \notin Twice(u)
  BY DEF Live, Twice, InFlight, Running
<1>5. Live(v) = Live(u) /\ Twice(v) = Twice(u) \cup {e}
  <2>1. \A f \in Endpoints : v.iface[f] = IF f = e THEN "twice" ELSE u.iface[f]
    BY <1>1, <1>2 DEF Info
  <2>. QED
    BY <2>1, <1>4 DEF Live, Twice, InFlight, Running
<1>6. Cardinality(Twice(v)) = Cardinality(Twice(u)) + 1
  BY <1>4, <1>5, FS_AddElement, Sizes
<1>7. Counted(v)
  <2>1. Request(v) = Request(u) /\ Request(u) \in {0, 1}
    BY <1>2 DEF Request
  <2>2. u.active = Cardinality(Live(u)) + Request(u) - Cardinality(Twice(u))
    BY DEF Good, Counted
  <2>3. v.active = Cardinality(Live(v)) + Request(v) - Cardinality(Twice(v))
    BY <1>2, <1>5, <1>6, <2>1, <2>2, Sizes
  <2>. QED
    BY <2>3 DEF Counted
<1>8. Mishandled(u) /\ Mishandled(v)
  BY <1>1, <1>2 DEF Mishandled, Info
<1>9. ConfigFirst(v)
  BY <1>1, <1>2 DEF Good, ConfigFirst, Info
<1>10. GivenUp(v)
  BY <1>1, <1>2, <1>8 DEF Good, GivenUp, Info, Running
<1>11. ClosedQuiet(v)
  BY <1>8 DEF ClosedQuiet
<1>12. NoneMissed(v)
  BY <1>1, <1>2 DEF Good, NoneMissed, Info, Running
<1>. QED
  BY <1>3, <1>7, <1>9, <1>10, <1>11, <1>12 DEF Good

\* Nothing that is counted depends on the reports.
LEMMA ReportGood ==
  ASSUME NEW u, Good(u), NEW report \in BOOLEAN
  PROVE  Good([u EXCEPT !.report = report])
<1>. DEFINE v == [u EXCEPT !.report = report]
<1>1. u \in Info
  BY DEF Good
<1>2. /\ v.iface = u.iface /\ v.active = u.active /\ v.missed = u.missed
      /\ v.cfg = u.cfg /\ v.tx = u.tx
      /\ v.shutdown = u.shutdown /\ v.close = u.close /\ v.open = u.open
  BY <1>1 DEF Info
<1>3. v \in Info
  BY <1>1 DEF Info
<1>4. Live(v) = Live(u) /\ Twice(v) = Twice(u) /\ Request(v) = Request(u)
  BY <1>2 DEF Live, Twice, Request
<1>5. Counted(v)
  BY <1>2, <1>4 DEF Good, Counted
<1>6. ConfigFirst(v) /\ NoneMissed(v)
  BY <1>2 DEF Good, ConfigFirst, NoneMissed
<1>7. Mishandled(v) <=> Mishandled(u)
  BY <1>2 DEF Mishandled
<1>8. GivenUp(v)
  BY <1>2, <1>7 DEF Good, GivenUp
<1>9. ClosedQuiet(v)
  BY <1>2, <1>4, <1>7 DEF Good, ClosedQuiet, Quiet
<1>. QED
  BY <1>3, <1>5, <1>6, <1>8, <1>9 DEF Good

\* Closing a device cancels what is running; nothing of it is counted off yet.
LEMMA CloseDeviceGood ==
  ASSUME NEW u, Good(u), NEW sent \in BOOLEAN
  PROVE  /\ Good(CloseDevice(u, sent))
         /\ CloseDevice(u, sent).shutdown /\ CloseDevice(u, sent).open = u.open
         /\ \A e \in Endpoints :
               CloseDevice(u, sent).iface[e] =
                  IF u.iface[e] \in Running THEN "cancelled" ELSE u.iface[e]
<1>. DEFINE v == CloseDevice(u, sent)
<1>1. u \in Info
  BY DEF Good
<1>2. /\ v.shutdown /\ v.close = (u.close \/ u.active = 0) /\ v.open = u.open
      /\ v.active = u.active /\ v.cfg = u.cfg /\ v.missed = u.missed
      /\ v.tx = IF u.tx = "flight" \/ (u.tx = "due" /\ sent) THEN "cancelled"
                ELSE IF u.tx = "due" THEN "failed" ELSE u.tx
      /\ \A e \in Endpoints :
            v.iface[e] = IF u.iface[e] \in Running THEN "cancelled" ELSE u.iface[e]
  BY <1>1 DEF CloseDevice, Info
<1>3. v \in Info
  <2>1. [e \in Endpoints |-> IF u.iface[e] \in Running THEN "cancelled" ELSE u.iface[e]]
           \in [Endpoints -> Transfers]
    BY <1>1 DEF Info, Transfers, InFlight
  <2>2. (u.close \/ u.active = 0) \in BOOLEAN
    OBVIOUS
  <2>3. (IF u.tx = "flight" \/ (u.tx = "due" /\ sent) THEN "cancelled"
         ELSE IF u.tx = "due" THEN "failed" ELSE u.tx) \in Requests
    BY <1>1 DEF Info, Requests
  <2>. QED
    BY <1>1, <2>1, <2>2, <2>3 DEF CloseDevice, Info
<1>4. Live(v) = Live(u) /\ Twice(v) = Twice(u)
  BY <1>2 DEF Live, Twice, InFlight, Running
<1>5. Request(v) = Request(u)
  BY <1>1, <1>2 DEF Request
<1>6. Counted(v)
  BY <1>2, <1>4, <1>5 DEF Good, Counted
<1>7. ConfigFirst(v)
  BY <1>1, <1>2 DEF Good, ConfigFirst, Running
<1>8. GivenUp(v)
  BY <1>2 DEF GivenUp, Running
<1>9. ClosedQuiet(v)
  <2>. SUFFICES ASSUME v.close \/ ~v.open, ~Mishandled(v)
                PROVE  Quiet(v)
    BY DEF ClosedQuiet
  <2>1. ~Mishandled(u)
    BY <1>2 DEF Mishandled, Running
  <2>2. CASE u.close \/ ~u.open
    <3>1. Quiet(u)
      BY <2>1, <2>2 DEF Good, ClosedQuiet
    <3>. QED
      BY <3>1, <1>2, <1>4 DEF Quiet
  <2>3. CASE u.active = 0
    <3>1. Twice(u) = {}
      BY <2>1 DEF Mishandled, Twice
    <3>2. Cardinality(Live(u)) + Request(u) = 0
      BY <2>3, <3>1, FS_EmptySet, Sizes DEF Good, Counted, Request
    <3>3. Cardinality(Live(u)) = 0 /\ Request(u) = 0
      BY <3>2, Sizes DEF Request
    <3>4. Live(u) = {} /\ u.tx \in {"none", "dropped"}
      BY <3>3, FS_EmptySet, Sizes DEF Request, Good, ConfigFirst
    <3>. QED
      BY <3>4, <1>2, <1>4 DEF Quiet
  <2>. QED
    BY <1>2, <2>2, <2>3
<1>10. NoneMissed(v)
  BY <1>2 DEF NoneMissed, Running
<1>. QED
  BY <1>2, <1>3, <1>6, <1>7, <1>8, <1>9, <1>10 DEF Good

\* The end of the configuration: the interfaces are attached and counted, or the
\* device that is shut down is closed.
LEMMA CleanupGood ==
  ASSUME NEW u, Good(u), u.open, u.tx \in {"flight", "cancelled"},
         NEW ok \in SUBSET Endpoints
  PROVE  Good(Cleanup(u, ok))
<1>. DEFINE v == Cleanup(u, ok)
            at == [e \in Endpoints |-> IF e \in ok THEN "flight" ELSE "failed"]
<1>0. 0 \in Int /\ TRUE \in BOOLEAN
  OBVIOUS
<1>1. u \in Info
  BY DEF Good
<1>2. /\ u.cfg # "none" /\ Request(u) = 1
      /\ \A e \in Endpoints : u.iface[e] = "none" /\ u.missed[e] = 0
  BY DEF Good, ConfigFirst, Request
<1>3. Live(u) = {} /\ Twice(u) = {} /\ ~Mishandled(u)
  BY <1>2 DEF Live, Twice, Mishandled, InFlight, Running
<1>4. u.active = 1
  <2>1. Cardinality(Live(u)) = 0 /\ Cardinality(Twice(u)) = 0
    BY <1>3, FS_EmptySet
  <2>. QED
    BY <1>2, <2>1 DEF Good, Counted
<1>5. CASE u.shutdown
  <2>1. v = WithoutRequest(u, 0, TRUE)
    <3>1. u.active - 1 = 0 /\ (u.close \/ (u.shutdown /\ u.active = 1)) = TRUE
      BY <1>4, <1>5
    <3>2. v = [u EXCEPT !.cfg = "none", !.tx = "none", !.active = u.active - 1,
                        !.close = u.close \/ (u.shutdown /\ u.active = 1)]
      BY <1>5 DEF Cleanup
    <3>. QED
      BY <3>1, <3>2 DEF WithoutRequest
  <2>2. /\ v \in Info /\ v.cfg = "none" /\ v.tx = "none" /\ v.active = 0
        /\ v.iface = u.iface /\ v.missed = u.missed
    <3>1. LET r == WithoutRequest(u, 0, TRUE)
          IN  /\ r \in Info /\ r.cfg = "none" /\ r.tx = "none" /\ r.active = 0
              /\ r.iface = u.iface /\ r.missed = u.missed
      BY <1>0, <1>1, WithoutRequestIs, Zenon
    <3>. QED
      BY <2>1, <3>1
  <2>3. Live(v) = {} /\ Twice(v) = {} /\ Request(v) = 0
    BY <1>3, <2>2 DEF Live, Twice, Request
  <2>4. Counted(v)
    <3>1. Cardinality(Live(v)) = 0 /\ Cardinality(Twice(v)) = 0
      BY <2>3, FS_EmptySet
    <3>. QED
      BY <2>2, <2>3, <3>1 DEF Counted
  <2>5. ~Mishandled(v)
    BY <1>2, <2>2 DEF Mishandled
  <2>. QED
    BY <1>2, <2>2, <2>3, <2>4, <2>5
    DEF Good, ConfigFirst, GivenUp, ClosedQuiet, NoneMissed, Quiet, Running
<1>6. CASE ~u.shutdown
  <2>. DEFINE w == Attach(u, ok)
  <2>1. Cardinality(Endpoints) \in Nat
    BY UsbAssumption, FS_CardinalityType
  <2>2. at \in [Endpoints -> Transfers]
    BY DEF Transfers, InFlight, Running
  <2>3. /\ w \in Info /\ w.active = 1 + Cardinality(Endpoints) /\ w.iface = at
        /\ w.close = u.close /\ w.open = u.open /\ w.missed = u.missed
    <3>1. u.active + Cardinality(Endpoints) = 1 + Cardinality(Endpoints)
      BY <1>4
    <3>2. w = WithInterfaces(u, 1 + Cardinality(Endpoints), at)
      BY <3>1 DEF Attach, WithInterfaces
    <3>3. 1 + Cardinality(Endpoints) \in Int
      BY <2>1
    <3>4. LET r == WithInterfaces(u, 1 + Cardinality(Endpoints), at)
          IN  /\ r \in Info /\ r.active = 1 + Cardinality(Endpoints) /\ r.iface = at
              /\ r.close = u.close /\ r.open = u.open /\ r.missed = u.missed
      BY <1>1, <2>2, <3>3, WithInterfacesIs, ZenonT(30)
    <3>. QED
      BY <3>2, <3>4
  <2>4. /\ v \in Info /\ v.cfg = "none" /\ v.tx = "none"
        /\ v.active = Cardinality(Endpoints) /\ v.iface = at
        /\ v.close = u.close /\ v.open = u.open /\ v.missed = u.missed
    <3>1. w.active - 1 = Cardinality(Endpoints)
          /\ (w.close \/ (u.shutdown /\ w.active = 1)) = w.close
      BY <1>1, <1>6, <2>1, <2>3 DEF Info
    <3>2. v = [w EXCEPT !.cfg = "none", !.tx = "none", !.active = w.active - 1,
                        !.close = w.close \/ (u.shutdown /\ w.active = 1)]
      BY <1>6 DEF Cleanup
    <3>3. v = WithoutRequest(w, Cardinality(Endpoints), w.close)
      BY <3>1, <3>2 DEF WithoutRequest
    <3>4. w \in Info /\ Cardinality(Endpoints) \in Int
      BY <2>1, <2>3
    <3>5. LET r == WithoutRequest(w, Cardinality(Endpoints), w.close)
          IN  /\ r \in Info /\ r.cfg = "none" /\ r.tx = "none"
              /\ r.active = Cardinality(Endpoints) /\ r.close = w.close
              /\ r.open = w.open /\ r.iface = w.iface /\ r.missed = w.missed
      BY <3>4, WithoutRequestStaysOpen, ZenonT(30)
    <3>. QED
      BY <2>3, <3>3, <3>5
  <2>5. Live(v) = Endpoints /\ Twice(v) = {} /\ Request(v) = 0
    BY <2>4 DEF Live, Twice, Request, InFlight, Running
  <2>6. Counted(v)
    <3>1. Cardinality(Twice(v)) = 0
      BY <2>5, FS_EmptySet
    <3>. QED
      BY <2>1, <2>4, <2>5, <3>1 DEF Counted
  <2>7. ~Mishandled(v)
    BY <2>4 DEF Mishandled
  <2>8. ClosedQuiet(v)
    BY <1>3, <2>4 DEF Good, ClosedQuiet, Quiet
  <2>9. NoneMissed(v)
    BY <1>2, <2>4 DEF NoneMissed
  <2>. QED
    BY <2>4, <2>6, <2>7, <2>8, <2>9 DEF Good, ConfigFirst, GivenUp
<1>. QED
  BY <1>5, <1>6

\* The request goes on: the same one again, another, or one that was not sent.
LEMMA RequestGood ==
  ASSUME NEW u, Good(u), NEW v \in Info, u.tx \in {"due", "flight"},
         v.tx \in {"due", "flight", "failed"}, v.cfg # "none",
         v.active = u.active, v.iface = u.iface, v.missed = u.missed,
         v.shutdown = u.shutdown, v.close = u.close, v.open = u.open
  PROVE  Good(v)
<1>1. u.cfg # "none"
  BY DEF Good, ConfigFirst
<1>2. Live(v) = Live(u) /\ Twice(v) = Twice(u) /\ Request(v) = Request(u)
  BY <1>1 DEF Live, Twice, Request
<1>3. Counted(v)
  BY <1>2 DEF Good, Counted
<1>4. ConfigFirst(v) /\ GivenUp(v) /\ NoneMissed(v)
  BY <1>1 DEF Good, ConfigFirst, GivenUp, NoneMissed, Mishandled
<1>5. ClosedQuiet(v)
  BY DEF Good, ClosedQuiet, Mishandled, Quiet
<1>. QED
  BY <1>3, <1>4, <1>5 DEF Good

\* A request that could not be sent is freed and counted off.
LEMMA DroppedGood ==
  ASSUME NEW u, Good(u), u.tx = "due"
  PROVE  LET v == [u EXCEPT !.tx = "dropped", !.active = u.active - 1]
         IN  Good(v) /\ v.open = u.open
<1>. DEFINE v == [u EXCEPT !.tx = "dropped", !.active = u.active - 1]
<1>1. u \in Info
  BY DEF Good
<1>2. v \in Info
  <2>1. "dropped" \in Requests /\ u.active - 1 \in Int
    BY <1>1 DEF Requests, Info
  <2>. QED
    BY <1>1, <2>1 DEF Info
<1>3. /\ v.tx = "dropped" /\ v.active = u.active - 1 /\ v.cfg = u.cfg
      /\ v.iface = u.iface /\ v.missed = u.missed /\ v.shutdown = u.shutdown
      /\ v.close = u.close /\ v.open = u.open
  BY <1>1 DEF Info
<1>4. Live(v) = Live(u) /\ Twice(v) = Twice(u)
  BY <1>3 DEF Live, Twice
<1>5. u.cfg # "none" /\ Request(u) = 1 /\ Request(v) = 0
  BY <1>3 DEF Good, ConfigFirst, Request
<1>6. Counted(v)
  BY <1>3, <1>4, <1>5, Sizes DEF Good, Counted
<1>7. ConfigFirst(v) /\ GivenUp(v) /\ NoneMissed(v)
  BY <1>3, <1>5 DEF Good, ConfigFirst, GivenUp, NoneMissed, Mishandled
<1>8. ClosedQuiet(v)
  BY <1>3 DEF Good, ClosedQuiet, Mishandled, Quiet
<1>. HIDE DEF v
<1>9. Good(v) /\ v.open = u.open
  BY <1>2, <1>3, <1>6, <1>7, <1>8 DEF Good
<1>. QED
  BY <1>9 DEF v

\* A transfer is submitted again, or is not after a timeout.
LEMMA TransferGood ==
  ASSUME NEW u, Good(u), NEW v \in Info, NEW e \in Endpoints, u.iface[e] \in Running,
         NEW as \in Running \cup {"quiet"}, v.iface = [u.iface EXCEPT ![e] = as],
         \A f \in Endpoints \ {e} : v.missed[f] = u.missed[f],
         as \in Running => v.missed[e] = 0,
         v.tx = u.tx, v.cfg = u.cfg, v.active = u.active,
         v.shutdown = u.shutdown, v.close = u.close, v.open = u.open
  PROVE  Good(v)
<1>1. u \in Info
  BY DEF Good
<1>2. \A f \in Endpoints : v.iface[f] = IF f = e THEN as ELSE u.iface[f]
  BY <1>1 DEF Info
<1>3. Live(v) = Live(u) /\ Twice(v) = Twice(u) /\ Request(v) = Request(u)
  BY <1>2 DEF Live, Twice, Request, InFlight, Running
<1>4. Counted(v)
  BY <1>3 DEF Good, Counted
<1>5. ConfigFirst(v)
  BY DEF Good, ConfigFirst, Running
<1>6. Mishandled(v) => Mishandled(u)
  BY <1>2 DEF Mishandled, Running
<1>7. ~Mishandled(u)
  BY DEF Good, GivenUp
<1>8. GivenUp(v)
  BY <1>6, <1>7 DEF GivenUp
<1>9. ClosedQuiet(v)
  <2>1. e \in Live(u)
    BY DEF Live, InFlight
  <2>. QED
    BY <1>7, <2>1 DEF Good, ClosedQuiet, Quiet
<1>10. NoneMissed(v)
  BY <1>2 DEF Good, NoneMissed
<1>. QED
  BY <1>4, <1>5, <1>8, <1>9, <1>10 DEF Good

\* A device that was to be closed is: libusb has nothing of it.
LEMMA ClosedGood ==
  ASSUME NEW u, Good(u), u.close
  PROVE  Good([u EXCEPT !.open = FALSE, !.so = FALSE])
<1>. DEFINE v == [u EXCEPT !.open = FALSE, !.so = FALSE]
<1>1. u \in Info
  BY DEF Good
<1>2. v \in Info
  BY <1>1 DEF Info
<1>3. /\ v.tx = u.tx /\ v.active = u.active /\ v.cfg = u.cfg
      /\ v.iface = u.iface /\ v.missed = u.missed /\ v.shutdown = u.shutdown
  BY <1>1 DEF Info
<1>4. Live(v) = Live(u) /\ Twice(v) = Twice(u) /\ Request(v) = Request(u)
  BY <1>3 DEF Live, Twice, Request
<1>5. Counted(v)
  BY <1>3, <1>4 DEF Good, Counted
<1>6. ConfigFirst(v) /\ GivenUp(v) /\ NoneMissed(v)
  BY <1>3 DEF Good, ConfigFirst, GivenUp, NoneMissed, Mishandled
<1>7. Mishandled(v) <=> Mishandled(u)
  BY <1>3 DEF Mishandled
<1>8. ClosedQuiet(v)
  BY <1>3, <1>4, <1>7 DEF Good, ClosedQuiet, Quiet
<1>. HIDE DEF v
<1>9. Good(v)
  BY <1>2, <1>5, <1>6, <1>8 DEF Good
<1>. QED
  BY <1>9 DEF v

----------------------------------------------------------------------------
\* The invariant holds at first: no device is there.
LEMMA InitIInv == Init => IInv
<1>. SUFFICES ASSUME Init PROVE IInv
  OBVIOUS
<1>1. Good(Absent) /\ Absent \in Info
  BY NewGood DEF Good
<1>. QED
  BY <1>1, UsbAssumption DEF Init, IInv

\* What the other variables may do in a step of one device.
Others ==
    /\ plug' \in [Devices -> {"away", "in", "out"}]
    /\ phase' \in {"open", "closing", "closed"} /\ faults' \in 0 .. MaxFaults

\* A step that leaves one device good keeps the invariant.
LEMMA SetGood ==
  ASSUME IInv, Others, NEW d \in Devices, NEW u, Good(u), Set(d, u)
  PROVE  IInv'
<1>1. u \in Info
  BY DEF Good
<1>2. usb' = [usb EXCEPT ![d] = u] /\ usb \in [Devices -> Info]
  BY DEF Set, IInv
<1>3. usb' \in [Devices -> Info]
  BY <1>1, <1>2
<1>4. \A c \in Devices : Good(usb'[c])
  BY <1>2 DEF IInv
<1>. QED
  BY <1>3, <1>4 DEF IInv, Others

\* Failures are counted up to their bound.
LEMMA FaultsTyped ==
  ASSUME IInv, NEW d \in Devices
  PROVE  /\ \A ok \in BOOLEAN : Submit(d, ok) => faults' \in 0 .. MaxFaults
         /\ \A ok \in SUBSET Endpoints, n \in {0, 1} :
               Attached(d, ok, n) => faults' \in 0 .. MaxFaults
         /\ Fault => faults' \in 0 .. MaxFaults
<1>1. faults \in Nat /\ MaxFaults \in Nat /\ faults <= MaxFaults
  BY UsbAssumption DEF IInv
<1>2. ASSUME NEW ok \in SUBSET Endpoints
      PROVE  Cardinality(Endpoints \ ok) \in Nat
  BY UsbAssumption, FS_Subset, FS_CardinalityType
<1>3. ASSUME NEW ok \in SUBSET Endpoints, NEW n \in {0, 1}, Attached(d, ok, n)
      PROVE  faults' \in 0 .. MaxFaults
  BY <1>1, <1>2, <1>3 DEF Attached
<1>. QED
  BY <1>1, <1>3 DEF Submit, Fault

\* A device comes, is asked for the next part of its configuration, or closed.
LEMMA PollIInv ==
  ASSUME IInv, NEW d \in Devices, Arrive(d) \/ Unplug(d) \/ PollConfig(d) \/ PollClose(d)
  PROVE  IInv'
<1>. DEFINE u == usb[d]
<1>1. Good(u) /\ u \in Info
  BY DEF IInv, Good
<1>2. Good(Added)
  BY NewGood
<1>3. CASE Arrive(d)
  <2>1. Others
    BY <1>3, FaultsTyped DEF Arrive, IInv, Others
  <2>2. CASE Set(d, Added)
    BY <1>2, <2>1, <2>2, SetGood
  <2>3. CASE UNCHANGED usb
    BY <2>1, <2>3 DEF IInv, Others
  <2>. QED
    BY <1>3, <2>2, <2>3 DEF Arrive
<1>4. CASE Unplug(d)
  BY <1>4 DEF Unplug, IInv
<1>5. CASE PollConfig(d)
  <2>. DEFINE dropped == [u EXCEPT !.tx = "dropped", !.active = u.active - 1]
              sent == [u EXCEPT !.tx = "flight"]
  <2>1. u.tx = "due"
    BY <1>5 DEF PollConfig
  <2>2. PICK ok \in BOOLEAN :
            /\ Submit(d, ok)
            /\ Set(d, IF ok THEN sent ELSE CloseDevice(dropped, ok))
    BY <1>5 DEF PollConfig
  <2>3. Others
    BY <1>5, <2>2, FaultsTyped DEF PollConfig, IInv, Others
  <2>4. Good(CloseDevice(dropped, ok))
    BY <1>1, <2>1, DroppedGood, CloseDeviceGood
  <2>5. Good(sent)
    <3>1. sent \in Info
      BY <1>1 DEF Info, Requests
    <3>2. /\ sent.tx = "flight" /\ sent.cfg # "none" /\ sent.active = u.active
          /\ sent.iface = u.iface /\ sent.missed = u.missed
          /\ sent.shutdown = u.shutdown /\ sent.close = u.close /\ sent.open = u.open
      BY <1>1, <2>1 DEF Info, Good, ConfigFirst
    <3>. QED
      BY <1>1, <2>1, <3>1, <3>2, RequestGood
  <2>6. Good(IF ok THEN sent ELSE CloseDevice(dropped, ok))
    BY <2>4, <2>5
  <2>. HIDE DEF dropped, sent
  <2>. QED
    BY <2>2, <2>3, <2>6, SetGood
<1>6. CASE PollClose(d)
  <2>. DEFINE w == IF u.reopen /\ plug[d] = "in" THEN Added
                   ELSE [u EXCEPT !.open = FALSE, !.so = FALSE]
  <2>1. Set(d, w) /\ Others
    BY <1>6 DEF PollClose, IInv, Others
  <2>2. Good(w)
    BY <1>1, <1>2, <1>6, ClosedGood DEF PollClose
  <2>. HIDE DEF w
  <2>. QED
    BY <2>1, <2>2, SetGood
<1>. QED
  BY <1>3, <1>4, <1>5, <1>6

\* A control transfer ends, in one of its five ways.
LEMMA ConfigIInv ==
  ASSUME IInv, NEW d \in Devices, ConfigCallback(d)
  PROVE  IInv'
<1>. DEFINE u == usb[d]
<1>1. Good(u) /\ u \in Info
  BY DEF IInv, Good
<1>2. CASE ConfigCancelled(d)
  <2>1. Set(d, Cleanup(u, {})) /\ Others /\ u.open /\ u.tx = "cancelled"
    BY <1>2 DEF ConfigCancelled, IInv, Others
  <2>2. Good(Cleanup(u, {}))
    BY <1>1, <2>1, CleanupGood
  <2>. QED
    BY <2>1, <2>2, SetGood
<1>3. CASE ConfigStalls(d)
  <2>. DEFINE v == [u EXCEPT !.tx = "due"]
  <2>1. Set(d, v) /\ Others /\ u.tx = "flight"
    BY <1>3 DEF ConfigStalls, IInv, Others
  <2>2. v \in Info
    BY <1>1 DEF Info, Requests
  <2>3. /\ v.tx = "due" /\ v.cfg # "none" /\ v.active = u.active
        /\ v.iface = u.iface /\ v.missed = u.missed
        /\ v.shutdown = u.shutdown /\ v.close = u.close /\ v.open = u.open
    BY <1>1, <2>1 DEF Info, Good, ConfigFirst
  <2>4. Good(v)
    BY <1>1, <2>1, <2>2, <2>3, RequestGood
  <2>. HIDE DEF v
  <2>. QED
    BY <2>1, <2>4, SetGood
<1>4. CASE ConfigFails(d)
  <2>1. PICK ok \in SUBSET Endpoints : Attached(d, ok, 1) /\ Set(d, Cleanup(u, ok))
    BY <1>4 DEF ConfigFails
  <2>2. Others
    BY <1>4, <2>1, FaultsTyped DEF ConfigFails, IInv, Others
  <2>3. Good(Cleanup(u, ok))
    BY <1>1, <1>4, CleanupGood DEF ConfigFails
  <2>. QED
    BY <2>1, <2>2, <2>3, SetGood
<1>5. CASE ConfigAnswer(d)
  <2>. DEFINE so == [u EXCEPT !.so = TRUE]
  <2>1. u.tx = "flight" /\ u.open
    BY <1>5 DEF ConfigAnswer
  <2>2. so \in Info
    BY <1>1 DEF Info
  <2>3. /\ so.tx = "flight" /\ so.cfg # "none" /\ so.active = u.active
        /\ so.iface = u.iface /\ so.missed = u.missed
        /\ so.shutdown = u.shutdown /\ so.close = u.close /\ so.open
    BY <1>1, <2>1 DEF Info, Good, ConfigFirst
  <2>4. Good(so)
    BY <1>1, <2>1, <2>2, <2>3, RequestGood
  <2>5. PICK s \in NextStep(so.cfg) :
           \/ s # "none" /\ plug[d] = "in" /\ Set(d, [so EXCEPT !.cfg = s]) /\ UNCHANGED faults
           \/ \E ok \in SUBSET Endpoints :
                 /\ Attached(d, ok, IF s = "none" THEN 0 ELSE 1)
                 /\ Set(d, Cleanup(so, ok))
    BY <1>5 DEF ConfigAnswer
  <2>6. s \in Steps
    <3>1. so.cfg \in Steps /\ so.cfg # "none"
      BY <2>2, <2>3 DEF Info
    <3>. HIDE DEF so
    <3>. QED
      BY <3>1 DEF NextStep, Steps
  <2>7. UNCHANGED <<plug, phase>>
    BY <1>5 DEF ConfigAnswer
  <2>8. CASE s # "none" /\ Set(d, [so EXCEPT !.cfg = s]) /\ UNCHANGED faults
    <3>. DEFINE v == [so EXCEPT !.cfg = s]
    <3>1. Others
      BY <2>7, <2>8 DEF IInv, Others
    <3>2. v \in Info
      BY <2>2, <2>6 DEF Info
    <3>3. /\ v.tx = "flight" /\ v.cfg # "none" /\ v.active = so.active
          /\ v.iface = so.iface /\ v.missed = so.missed
          /\ v.shutdown = so.shutdown /\ v.close = so.close /\ v.open = so.open
      BY <2>2, <2>3, <2>8 DEF Info
    <3>. HIDE DEF so
    <3>4. Good(v)
      BY <2>3, <2>4, <3>2, <3>3, RequestGood
    <3>. HIDE DEF v
    <3>. QED
      BY <2>8, <3>1, <3>4, SetGood DEF v
  <2>9. CASE \E ok \in SUBSET Endpoints :
                /\ Attached(d, ok, IF s = "none" THEN 0 ELSE 1)
                /\ Set(d, Cleanup(so, ok))
    <3>1. PICK ok \in SUBSET Endpoints :
              /\ Attached(d, ok, IF s = "none" THEN 0 ELSE 1)
              /\ Set(d, Cleanup(so, ok))
      BY <2>9
    <3>2. Others
      BY <2>7, <3>1, FaultsTyped DEF IInv, Others
    <3>. HIDE DEF so
    <3>3. Good(Cleanup(so, ok))
      BY <2>3, <2>4, CleanupGood
    <3>. QED
      BY <3>1, <3>2, <3>3, SetGood
  <2>. QED
    BY <2>5, <2>8, <2>9
<1>6. CASE ConfigUnknown(d)
  <2>. DEFINE v == [u EXCEPT !.so = TRUE, !.tx = "failed"]
  <2>1. Set(d, v) /\ Others /\ u.tx = "flight"
    BY <1>6, FaultsTyped DEF ConfigUnknown, IInv, Others
  <2>2. v \in Info
    BY <1>1 DEF Info, Requests
  <2>3. /\ v.tx = "failed" /\ v.cfg # "none" /\ v.active = u.active
        /\ v.iface = u.iface /\ v.missed = u.missed
        /\ v.shutdown = u.shutdown /\ v.close = u.close /\ v.open = u.open
    BY <1>1, <2>1 DEF Info, Good, ConfigFirst
  <2>4. Good(v)
    BY <1>1, <2>1, <2>2, <2>3, RequestGood
  <2>. HIDE DEF v
  <2>. QED
    BY <2>1, <2>4, SetGood
<1>. QED
  BY <1>2, <1>3, <1>4, <1>5, <1>6 DEF ConfigCallback

\* An interrupt transfer ends, in one of its five ways.
LEMMA CallbackIInv ==
  ASSUME IInv, NEW d \in Devices, NEW e \in Endpoints, Callback(d, e)
  PROVE  IInv'
<1>. DEFINE u == usb[d]
<1>1. Good(u) /\ u \in Info
  BY DEF IInv, Good
<1>2. CASE Completed(d, e)
  <2>. DEFINE as == IF u.so THEN "timed" ELSE u.iface[e]
              v == [u EXCEPT !.iface[e] = as, !.missed[e] = 0]
              w(sent) == [v EXCEPT !.report = sent]
  <2>1. PICK ok \in BOOLEAN, switch \in BOOLEAN :
           /\ Submit(d, ok)
           /\ Set(d, IF ok THEN w(u.report \/ (switch /\ u.so)) ELSE Free(u, e, "freed"))
    <3>1. ASSUME NEW sent
          PROVE  w(sent) = [u EXCEPT !.iface[e] = as, !.missed[e] = 0, !.report = sent]
      BY <1>1 DEF Info
    <3>. HIDE DEF w, v
    <3>. QED
      BY <1>2, <3>1 DEF Completed
  <2>2. u.open /\ u.iface[e] \in Running /\ as \in Running
    BY <1>2 DEF Completed, Running
  <2>3. Others
    BY <1>2, <2>1, FaultsTyped DEF Completed, IInv, Others
  <2>4. v \in Info
    <3>1. [u.iface EXCEPT ![e] = as] \in [Endpoints -> Transfers]
      BY <1>1, <2>2 DEF Info, Transfers, InFlight
    <3>2. [u.missed EXCEPT ![e] = 0] \in [Endpoints -> 0 .. 3]
      BY <1>1 DEF Info
    <3>. QED
      BY <1>1, <3>1, <3>2 DEF Info
  <2>5. /\ v.iface = [u.iface EXCEPT ![e] = as] /\ v.missed[e] = 0
        /\ \A f \in Endpoints \ {e} : v.missed[f] = u.missed[f]
        /\ v.tx = u.tx /\ v.cfg = u.cfg /\ v.active = u.active
        /\ v.shutdown = u.shutdown /\ v.close = u.close /\ v.open = u.open
    BY <1>1 DEF Info
  <2>6. Good(v)
    <3>. HIDE DEF v, as, u
    <3>1. as \in Running \cup {"quiet"} /\ (as \in Running => v.missed[e] = 0)
      BY <2>2, <2>5
    <3>2. u.iface[e] \in Running
      BY <2>2
    <3>. QED
      BY <1>1, <2>4, <2>5, <3>1, <3>2, TransferGood
  <2>7. Good(Free(u, e, "freed"))
    BY <1>1, <2>2, FreeGood DEF InFlight
  <2>. HIDE DEF v
  <2>8. (u.report \/ (switch /\ u.so)) \in BOOLEAN
    OBVIOUS
  <2>9. Good(w(u.report \/ (switch /\ u.so)))
    BY <2>6, <2>8, ReportGood
  <2>. HIDE DEF w
  <2>. QED
    BY <2>1, <2>3, <2>7, <2>9, SetGood
<1>3. CASE TimedOut(d, e)
  <2>. DEFINE v == [u EXCEPT !.missed[e] = u.missed[e] + 1]
              w == [v EXCEPT !.iface[e] = "quiet"]
  <2>1. /\ u.open /\ u.iface[e] = "timed" /\ Others
        /\ Set(d, IF v.missed[e] >= 3 THEN TurnedOff(v, e) ELSE w)
    BY <1>3 DEF TimedOut, IInv, Others
  <2>2. u.missed[e] = 0
    BY <1>1, <2>1 DEF Good, NoneMissed, Running
  <2>3. v.missed[e] = 1
    BY <1>1, <2>2 DEF Info
  <2>4. Set(d, w)
    BY <2>1, <2>3
  <2>5. v \in Info /\ v.missed = [u.missed EXCEPT ![e] = 1] /\ v.iface = u.iface
    BY <1>1, <2>2 DEF Info
  <2>6. w \in Info
    BY <2>5 DEF Info, Transfers
  <2>7. /\ w.iface = [u.iface EXCEPT ![e] = "quiet"] /\ w.missed = v.missed
        /\ w.tx = u.tx /\ w.cfg = u.cfg /\ w.active = u.active
        /\ w.shutdown = u.shutdown /\ w.close = u.close /\ w.open = u.open
    BY <1>1 DEF Info
  <2>8. \A f \in Endpoints \ {e} : w.missed[f] = u.missed[f]
    BY <1>1, <2>5, <2>7 DEF Info
  <2>9. Good(w)
    <3>1. "quiet" \in Running \cup {"quiet"} /\ "quiet" \notin Running /\ u.iface[e] \in Running
      BY <2>1 DEF Running
    <3>. HIDE DEF w, v
    <3>. QED
      BY <1>1, <2>6, <2>7, <2>8, <3>1, TransferGood
  <2>. HIDE DEF w
  <2>. QED
    BY <2>1, <2>4, <2>9, SetGood
<1>4. CASE Failed(d, e)
  <2>1. PICK again \in BOOLEAN :
           Set(d, IF again THEN Free(CloseDevice(u, FALSE), e, "dangling") ELSE Free(u, e, "freed"))
    BY <1>4 DEF Failed
  <2>2. u.open /\ u.iface[e] \in Running
    BY <1>4 DEF Failed
  <2>3. Others
    BY <1>4, FaultsTyped DEF Failed, IInv, Others
  <2>4. Good(Free(u, e, "freed"))
    BY <1>1, <2>2, FreeGood DEF InFlight
  <2>5. Good(Free(CloseDevice(u, FALSE), e, "dangling"))
    <3>. DEFINE v == CloseDevice(u, FALSE)
    <3>1. /\ Good(v) /\ v.shutdown /\ v.open = u.open
          /\ \A f \in Endpoints :
                v.iface[f] = IF u.iface[f] \in Running THEN "cancelled" ELSE u.iface[f]
      BY <1>1, CloseDeviceGood
    <3>2. /\ v.open /\ v.iface[e] \in InFlight
          /\ \A f \in Endpoints : v.iface[f] \notin Running
      BY <2>2, <3>1 DEF InFlight, Running
    <3>. HIDE DEF v
    <3>3. Good(Free(v, e, "dangling"))
      BY <3>1, <3>2, FreeGood
    <3>. QED
      BY <3>3 DEF v
  <2>. QED
    BY <2>1, <2>3, <2>4, <2>5, SetGood
<1>5. CASE Cancelled(d, e)
  <2>1. Set(d, Free(u, e, "freed")) /\ Others /\ u.open /\ u.iface[e] = "cancelled"
    BY <1>5 DEF Cancelled, IInv, Others
  <2>2. Good(Free(u, e, "freed"))
    BY <1>1, <2>1, FreeGood DEF InFlight
  <2>. QED
    BY <2>1, <2>2, SetGood
<1>6. CASE Late(d, e)
  <2>1. Set(d, Free(u, e, "twice")) /\ Others /\ u.iface[e] = "dangling"
    BY <1>6 DEF Late, IInv, Others
  <2>2. Good(Free(u, e, "twice"))
    BY <1>1, <2>1, LateGood
  <2>. QED
    BY <2>1, <2>2, SetGood
<1>. QED
  BY <1>2, <1>3, <1>4, <1>5, <1>6 DEF Callback

\* A report is sent, or ends.
LEMMA ReportIInv ==
  ASSUME IInv, NEW d \in Devices, SendReport(d) \/ ReportEnds(d)
  PROVE  IInv'
<1>1. PICK sent \in BOOLEAN : Set(d, [usb[d] EXCEPT !.report = sent])
  BY DEF SendReport, ReportEnds
<1>2. Others
  BY DEF SendReport, ReportEnds, IInv, Others
<1>3. Good([usb[d] EXCEPT !.report = sent])
  BY ReportGood DEF IInv
<1>. QED
  BY <1>1, <1>2, <1>3, SetGood

\* The context is closed: every device in the list, or none, as in the last step.
LEMMA CloseIInv ==
  ASSUME IInv, Close \/ Closed
  PROVE  IInv'
<1>1. CASE Close
  <2>1. PICK sent \in [Devices -> BOOLEAN] :
           usb' = [d \in Devices |-> IF usb[d].open THEN CloseDevice(usb[d], sent[d]) ELSE usb[d]]
    BY <1>1 DEF Close
  <2>2. ASSUME NEW d \in Devices
        PROVE  Good(usb'[d])
    <3>1. usb'[d] = IF usb[d].open THEN CloseDevice(usb[d], sent[d]) ELSE usb[d]
      BY <2>1
    <3>2. Good(usb[d]) /\ sent[d] \in BOOLEAN
      BY DEF IInv
    <3>3. Good(CloseDevice(usb[d], sent[d]))
      BY <3>2, CloseDeviceGood
    <3>. QED
      BY <3>1, <3>2, <3>3
  <2>3. \A d \in Devices : usb'[d] \in Info
    BY <2>2 DEF Good
  <2>4. usb' \in [Devices -> Info]
    BY <2>1, <2>3
  <2>. QED
    BY <1>1, <2>2, <2>4 DEF Close, IInv
<1>2. CASE Closed
  BY <1>2 DEF Closed, IInv
<1>. QED
  BY <1>1, <1>2

\* Every step keeps the invariant.
LEMMA NextIInv == IInv /\ [Next]_vars => IInv'
<1>. SUFFICES ASSUME IInv, [Next]_vars PROVE IInv'
  OBVIOUS
<1>1. ASSUME NEW d \in Devices,
             Arrive(d) \/ Unplug(d) \/ PollConfig(d) \/ PollClose(d) \/ ConfigCallback(d)
      PROVE  IInv'
  BY <1>1, PollIInv, ConfigIInv
<1>2. ASSUME NEW d \in Devices, NEW e \in Endpoints, Callback(d, e)
      PROVE  IInv'
  BY <1>2, CallbackIInv
<1>3. CASE Close \/ Closed
  BY <1>3, CloseIInv
<1>4. CASE UNCHANGED vars
  BY <1>4 DEF vars, IInv
<1>5. ASSUME NEW d \in Devices, SendReport(d) \/ ReportEnds(d)
      PROVE  IInv'
  BY <1>5, ReportIInv
<1>. QED
  BY <1>1, <1>2, <1>3, <1>4, <1>5 DEF Next

LEMMA SpecIInv == Spec => []IInv
<1>. QED
  BY InitIInv, NextIInv, PTL DEF Spec

----------------------------------------------------------------------------
\* The devices, their transfers and the counted faults stay in their types, through
\* every callback of libusb.
THEOREM UsbTypeCorrect == Spec => []TypeOK
<1>1. IInv => TypeOK
  BY DEF IInv, TypeOK
<1>. QED
  BY <1>1, SpecIInv, PTL

\* active_transfers is the number of transfers that are not freed, for any
\* number of endpoints and whichever handlers they went through.
THEOREM TransfersAreCounted == Spec => []CountsTransfers
<1>1. ASSUME NEW u, u \in Info, Good(u)
      PROVE  Cardinality({u.cfg} \ (IF u.tx = "dropped" THEN {u.cfg} ELSE {"none"})) = Request(u)
  <2>1. CASE Request(u) = 0
    <3>1. {u.cfg} \ (IF u.tx = "dropped" THEN {u.cfg} ELSE {"none"}) = {}
      BY <2>1 DEF Request
    <3>. QED
      BY <2>1, <3>1, FS_EmptySet
  <2>2. CASE Request(u) = 1
    <3>1. {u.cfg} \ (IF u.tx = "dropped" THEN {u.cfg} ELSE {"none"}) = {u.cfg}
      BY <2>2 DEF Request
    <3>. QED
      BY <2>2, <3>1, FS_Singleton
  <2>. QED
    BY <2>1, <2>2 DEF Request
<1>2. IInv => CountsTransfers
  <2>. SUFFICES ASSUME IInv, NEW d \in Devices
                PROVE  usb[d].active =
                          Cardinality(Live(usb[d])) + Request(usb[d]) - Cardinality(Twice(usb[d]))
    BY <1>1 DEF IInv, CountsTransfers, Live, Twice
  <2>. QED
    BY DEF IInv, Good, Counted
<1>. QED
  BY <1>2, SpecIInv, PTL

\* No device is freed before every transfer that active_transfers counts is over,
\* for any number of endpoints and failures; except one of which a transfer was
\* freed in flight.  (Of the reports, which are not counted, nothing is said.)
THEOREM CountedEndFirstAlways == Spec => []CountedEndFirst
<1>1. IInv => CountedEndFirst
  <2>. SUFFICES ASSUME IInv, NEW d \in Devices, ~usb[d].open, ~Mishandled(usb[d])
                PROVE  /\ usb[d].tx \in {"none", "dropped"}
                       /\ \A e \in Endpoints : usb[d].iface[e] \in {"none", "freed"}
    BY DEF CountedEndFirst
  <2>1. Quiet(usb[d]) /\ usb[d] \in Info
    BY DEF IInv, Good, ClosedQuiet
  <2>2. ASSUME NEW e \in Endpoints
        PROVE  usb[d].iface[e] \in {"none", "freed"}
    BY <2>1 DEF Info, Transfers, Quiet, Live, Mishandled
  <2>. QED
    BY <2>1, <2>2 DEF Quiet
<1>. QED
  BY <1>1, SpecIInv, PTL

\* And no interface of such a device, freed in flight, goes on to be read.
THEOREM FailedAreGivenUpWhole == Spec => []GivenUpWhole
<1>1. IInv => GivenUpWhole
  BY DEF IInv, GivenUpWhole, Good, GivenUp
<1>. QED
  BY <1>1, SpecIInv, PTL
=============================================================================
