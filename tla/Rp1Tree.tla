-------------------------------- MODULE Rp1Tree --------------------------------
(***************************************************************************)
(* The RP1 bus driver (Rp1BusDxe.c) and, on one of the devices it          *)
(* registers, the Ethernet driver (GemBinding): Start and Stop of both, as *)
(* the firmware core calls them, and ExitBootServices.                     *)
(***************************************************************************)
EXTENDS GemBinding

VARIABLES
  bus,      \* what the bus driver holds: "pci", "data", "protocol", "event"
  kids,     \* the devices registered
  linked,   \* those the core knows to be children of the bus
  msix,     \* the interrupts of the two USB hosts that are routed
  bpc,      \* the bus driver's place: "idle", a step of Start, "stopping"
  left,     \* the devices it has still to register or to stop
  lost      \* history: devices whose link could not be made, or made again

busVars == <<bus, kids, linked, msix, bpc, left, lost>>
vars == <<gemVars, busVars>>

-----------------------------------------------------------------------------
Devices == <<"xhci0", "xhci1", "gem", "i2c">>
Hosts   == {"xhci0", "xhci1"}
Names(s) == {s[i] : i \in 1 .. Len(s)}

Init ==
  /\ GemInit
  /\ bus = {} /\ kids = {} /\ linked = {} /\ msix = {}
  /\ bpc = "idle" /\ left = {} /\ lost = {}

\* The two drivers run in one thread; the core starts no call inside another,
\* but for the Ethernet driver's Stop while its device is uninstalled.
Free == bpc = "idle" /\ pc = "idle" /\ ~exited

\* Devices are registered and stopped in their order.
Turn(d) ==
  /\ d \in left
  /\ \E i \in 1 .. Len(Devices) : Devices[i] = d /\ \A j \in 1 .. i - 1 : Devices[j] \notin left

-----------------------------------------------------------------------------
(* Start of the bus driver.                                                *)

\* Supported and Start open PciIo BY_DRIVER: a controller that is bound refuses.
Rp1BusDriverBindingStart ==
  /\ Free /\ bus = {}
  /\ bus' = {"pci"}
  /\ bpc' = "attributes"
  /\ UNCHANGED <<gemVars, kids, linked, msix, left, lost>>
\* PCI attributes, data, BAR and bus protocol, in this order.
BusSteps == <<"attributes", "data", "bar", "protocol">>
BusAcquire ==
  /\ \E i \in 1 .. Len(BusSteps) :
       /\ bpc = BusSteps[i]
       /\ bpc' = IF i = Len(BusSteps) THEN "register" ELSE BusSteps[i + 1]
       /\ bus' = IF bpc \in {"data", "protocol"} THEN bus \cup {bpc} ELSE bus
       /\ left' = IF bpc = "protocol" THEN Names(Devices) ELSE left
  /\ UNCHANGED <<gemVars, kids, linked, msix, lost>>
\* The label Fail closes PciIo and frees the data; what it uninstalls is not
\* installed.
BusAcquireFails ==
  /\ \E i \in 1 .. Len(BusSteps) : bpc = BusSteps[i]
  /\ Fail
  /\ bus' = {} /\ bpc' = "idle"
  /\ UNCHANGED <<held, step, label, pc, up, dma, exited, kids, linked, msix, left, lost>>

\* Rp1BusRegisterDwc3Controllers, Rp1BusRegisterVendorMmioDevice: the device
\* and its path are installed and linked to the bus.
Register ==
  /\ bpc = "register"
  /\ \E d \in left \ kids :
       /\ Turn(d)
       /\ kids' = kids \cup {d} /\ linked' = linked \cup {d}
       /\ left' = left \ {d}
  /\ UNCHANGED <<gemVars, bus, msix, bpc, lost>>
\* Without memory, or when its path is still there from before, there is no
\* new device, but Start goes on.
RegisterFails ==
  /\ bpc = "register"
  /\ \E d \in left :
       /\ Turn(d)
       /\ Fail \/ (d \in kids /\ UNCHANGED failures)
       /\ left' = left \ {d}
  /\ UNCHANGED <<held, step, label, pc, up, dma, exited, bus, kids, linked, msix, bpc, lost>>
\* A device that cannot be linked stays.
LinkFails ==
  /\ bpc = "register"
  /\ Fail
  /\ \E d \in left \ kids :
       /\ Turn(d)
       /\ kids' = kids \cup {d} /\ lost' = lost \cup {d}
       /\ left' = left \ {d}
  /\ UNCHANGED <<held, step, label, pc, up, dma, exited, bus, linked, msix, bpc>>

\* Rp1BusEnableInterrupts, and the event, without which Start succeeds too.
EnableInterrupts ==
  /\ bpc = "register" /\ left = {}
  /\ msix' = Hosts
  /\ bpc' = "idle"
  /\ \/ bus' = bus \cup {"event"} /\ UNCHANGED failures
     \/ Fail /\ UNCHANGED bus
  /\ UNCHANGED <<held, step, label, pc, up, dma, exited, kids, linked, left, lost>>

-----------------------------------------------------------------------------
(* Stop of the bus driver.                                                 *)

\* The core calls Stop for the children it knows.
StopChildren ==
  /\ Free /\ linked # {}
  /\ left' = linked
  /\ bpc' = "stopping"
  /\ UNCHANGED <<gemVars, bus, kids, linked, msix, lost>>
\* Rp1BusUnregisterNonDiscoverableDevice: the core disconnects the driver of
\* the device, which has to let go of it.
Unregister ==
  /\ bpc = "stopping" /\ pc = "idle"
  /\ \E d \in left :
       /\ Turn(d)
       /\ d = "gem" => held = {}
       /\ kids' = kids \ {d} /\ linked' = linked \ {d}
       /\ left' = left \ {d}
  /\ UNCHANGED <<gemVars, bus, msix, bpc, lost>>

\* Mutant: the link is closed and stays so.
RelinkNot(d) == linked \ {d}
\* OpenProtocol makes the link that was closed before the uninstall again.
Relink(d) == linked
\* A driver does not let go: the device stays, and so does its link, unless
\* there is no memory for it.
UnregisterFails ==
  /\ bpc = "stopping" /\ pc = "idle"
  /\ Fail
  /\ \E d \in left :
       /\ Turn(d)
       /\ left' = left \ {d}
       /\ \/ linked' = Relink(d) /\ UNCHANGED lost
          \/ linked' = linked \ {d} /\ lost' = lost \cup {d}
  /\ UNCHANGED <<held, step, label, pc, up, dma, exited, bus, kids, msix, bpc>>
StoppedChildren ==
  /\ bpc = "stopping" /\ left = {}
  /\ bpc' = "idle"
  /\ UNCHANGED <<gemVars, bus, kids, linked, msix, left, lost>>

\* The core knows of no child any more: interrupts off; event, protocol, data
\* and PciIo given back.
StopBus ==
  /\ Free /\ "protocol" \in bus /\ linked = {}
  /\ msix' = {}
  /\ bus' = {}
  /\ UNCHANGED <<gemVars, kids, linked, bpc, left, lost>>

-----------------------------------------------------------------------------
(* Composition.                                                            *)

\* The Ethernet driver is started on its device, when that is there.
GemStarts ==
  /\ bpc = "idle" /\ ("gem" \in kids \/ pc # "idle")
  /\ Start \/ MacReset \/ Acquire \/ AcquireFails \/ Unwind
  /\ UNCHANGED busVars
\* It is stopped on its own, or because its device goes.
GemStops ==
  /\ bpc = "idle" \/ (bpc = "stopping" /\ Turn("gem"))
  /\ StopChild \/ CloseChild \/ Uninstall \/ UninstallFails \/ StopFree \/ StopController
  /\ UNCHANGED busVars
GemClients == (Initialize \/ Shutdown) /\ UNCHANGED busVars
ExitBootServices ==
  /\ bpc = "idle"
  /\ NotifyExitBootServices
  /\ msix' = IF "event" \in bus THEN {} ELSE msix
  /\ UNCHANGED <<bus, kids, linked, bpc, left, lost>>

Next ==
  \/ Rp1BusDriverBindingStart \/ BusAcquire \/ BusAcquireFails
  \/ Register \/ RegisterFails \/ LinkFails \/ EnableInterrupts
  \/ StopChildren \/ Unregister \/ UnregisterFails \/ StoppedChildren \/ StopBus
  \/ GemStarts \/ GemStops \/ GemClients \/ ExitBootServices
Spec == Init /\ [][Next]_vars

-----------------------------------------------------------------------------
(* Properties.                                                             *)

\* A driver has its device and a device its bus, unless its link was lost; an
\* event has the data it is given; and an operating system gets no interrupt
\* that this driver routed, if it could create the event.
BusUnderDevice ==
  /\ held # {} => "gem" \in kids
  /\ bpc = "idle" /\ bus = {} => kids \subseteq lost /\ msix = {}
  /\ linked \subseteq kids
  /\ "event" \in bus => "data" \in bus /\ ~(exited /\ msix # {})

\* What makes it inductive: a bus that is not up yet has no device but lost
\* ones, a device that is not lost is linked, and after ExitBootServices no
\* call is under way.
TypeOK ==
  /\ GemTypeOK
  /\ bus \subseteq {"pci", "data", "protocol", "event"}
  /\ kids \subseteq Names(Devices) /\ linked \subseteq Names(Devices)
  /\ lost \subseteq Names(Devices) /\ msix \subseteq Hosts
  /\ bpc \in Names(BusSteps) \cup {"idle", "register", "stopping"}
  /\ left \subseteq Names(Devices)
BusSetUp ==
  /\ bus = {} \/ bpc \in Names(BusSteps) => kids \subseteq lost /\ msix = {}
  /\ kids \subseteq linked \cup lost
  /\ bpc \in {"bar", "protocol", "register"} => "data" \in bus
  /\ exited => bpc = "idle"

IInv == TypeOK /\ GemInv /\ BusUnderDevice /\ BusSetUp
=============================================================================
