------------------------------ MODULE PcieProofs ------------------------------
(***************************************************************************)
(* Proofs about PCI Express, from the root complexes to RP1.  The two      *)
(* drivers of the RP1 tree, for every number of calls into the firmware    *)
(* core that fail, and every order of Start, Stop, client calls and        *)
(* ExitBootServices; the root bridges, the memory given back and the ACPI  *)
(* tables, for every setting, memory size and bridge window; and the PCI   *)
(* segment library, for every set of functions.                            *)
(***************************************************************************)
EXTENDS Rp1Tree, ConfigTable, PciSegment, FiniteSetTheorems, WellFoundedInduction, TLAPS

\* The lists of the driver, written out.
LEMMA ThingNames ==
  Things = {"pool", "parent", "desc", "rx", "tx", "path", "wait", "exit", "child", "link"}
<1>1. Len(Order) = 11
  BY DEF Order
<1>2. \A i \in 1 .. 11 : i = 1 \/ i = 2 \/ i = 3 \/ i = 4 \/ i = 5 \/ i = 6 \/ i = 7
                         \/ i = 8 \/ i = 9 \/ i = 10 \/ i = 11
  OBVIOUS
<1>3. {Order[i] : i \in 1 .. 11} = {"pool", "parent", "reset", "desc", "rx", "tx", "path", "wait",
                                    "exit", "child", "link"}
  BY <1>2 DEF Order
<1> QED BY <1>1, <1>3 DEF Things

\* What Start holds when it is at each of its steps.
Before(s) == {Order[i] : i \in 1 .. s - 1} \ {"reset"}
LEMMA BeforeSteps ==
  ASSUME NEW s \in 2 .. 11
  PROVE  /\ Before(2) = {"pool"}
         /\ "pool" \in Before(s)
         /\ "child" \notin Before(s) \/ s = 11
         /\ s <= 4 => Before(s) \cap Rings = {}
         /\ s < 11 => Before(s + 1) = IF Order[s] = "reset" THEN Before(s) ELSE Before(s) \cup {Order[s]}
         /\ s = 11 => Before(s) \cup {Order[s]} = Things
<1>1. Before(2) = {"pool"}
  BY DEF Before, Order
<1>2. \A i \in 1 .. s - 1 : i = 1 \/ i = 2 \/ i = 3 \/ i = 4 \/ i = 5 \/ i = 6 \/ i = 7
                         \/ i = 8 \/ i = 9 \/ i = 10
  OBVIOUS
<1>3. "pool" \in Before(s)
  BY DEF Before, Order
<1>4. "child" \notin Before(s) \/ s = 11
  BY <1>2 DEF Before, Order
<1>5. s <= 4 => Before(s) \cap Rings = {}
  BY <1>2 DEF Before, Order, Rings
<1>6. s < 11 => Before(s + 1) = IF Order[s] = "reset" THEN Before(s) ELSE Before(s) \cup {Order[s]}
  <2>1. 1 .. (s + 1) - 1 = (1 .. s - 1) \cup {s}
    OBVIOUS
  <2> QED BY <2>1 DEF Before
<1>7. s = 11 => Before(s) \cup {Order[s]} = Things
  <2>1. 1 .. 11 = (1 .. 10) \cup {11}
    OBVIOUS
  <2>2. Len(Order) = 11 /\ Order[11] = "link"
    BY DEF Order
  <2> QED BY <2>1, <2>2 DEF Before, Things
<1> QED BY <1>1, <1>3, <1>4, <1>5, <1>6, <1>7

\* What the labels from one on release.
Remaining(l) == UNION {Releases[i] : i \in l .. Len(Labels)}
LEMMA RemainingLabels ==
  /\ Len(Labels) = 7
  /\ \A l \in 1 .. 6 : Remaining(l) = Releases[l] \cup Remaining(l + 1)
  /\ Remaining(7) = {"pool"} /\ Releases[7] = {"pool"}
  /\ Remaining(5) = {"parent", "desc", "rx", "tx", "pool"}
  /\ Remaining(4) = Remaining(5) \cup {"path"}
  /\ Remaining(3) = Remaining(4) \cup {"wait"}
  /\ Remaining(2) = Remaining(3) \cup {"exit"}
  /\ Remaining(1) = Remaining(2) \cup {"child"}
<1>1. Len(Labels) = 7
  BY DEF Labels
<1>2. \A l \in 1 .. 6 : Remaining(l) = Releases[l] \cup Remaining(l + 1)
  <2> TAKE l \in 1 .. 6
  <2>1. l .. 7 = {l} \cup (l + 1 .. 7)
    OBVIOUS
  <2> QED BY <1>1, <2>1 DEF Remaining
<1>3. Remaining(7) = {"pool"} /\ Releases[7] = {"pool"}
  <2>1. 7 .. 7 = {7}
    OBVIOUS
  <2> QED BY <1>1, <2>1 DEF Remaining, Releases
<1>4. /\ Releases[1] = {"child"} /\ Releases[2] = {"exit"} /\ Releases[3] = {"wait"}
      /\ Releases[4] = {"path"} /\ Releases[5] = {"parent"} /\ Releases[6] = {"desc", "rx", "tx"}
  BY DEF Releases, Rings
<1>5. /\ Remaining(1) = Releases[1] \cup Remaining(2) /\ Remaining(2) = Releases[2] \cup Remaining(3)
      /\ Remaining(3) = Releases[3] \cup Remaining(4) /\ Remaining(4) = Releases[4] \cup Remaining(5)
      /\ Remaining(5) = Releases[5] \cup Remaining(6) /\ Remaining(6) = Releases[6] \cup Remaining(7)
  BY <1>2
<1> QED BY <1>1, <1>2, <1>3, <1>4, <1>5

\* Wherever Start fails, the label it jumps to and those after it release
\* all it holds there.
LEMMA FailureReleasesAll ==
  ASSUME NEW s \in 2 .. 11
  PROVE  /\ OnFailure(Order[s]) \in 1 .. 7
         /\ (IF Order[s] \in Rings THEN Before(s) \ Rings ELSE Before(s)) \subseteq Remaining(OnFailure(Order[s]))
<1>1. s = 2 \/ s = 3 \/ s = 4 \/ s = 5 \/ s = 6 \/ s = 7 \/ s = 8 \/ s = 9 \/ s = 10 \/ s = 11
  OBVIOUS
<1>2. /\ Order[2] = "parent" /\ Order[3] = "reset" /\ Order[4] = "desc" /\ Order[5] = "rx" /\ Order[6] = "tx"
      /\ Order[7] = "path" /\ Order[8] = "wait" /\ Order[9] = "exit" /\ Order[10] = "child" /\ Order[11] = "link"
  BY DEF Order
<1>3. /\ Before(2) = {"pool"}
      /\ Before(3) = Before(2) \cup {"parent"} /\ Before(4) = Before(3)
      /\ Before(5) = Before(4) \cup {"desc"} /\ Before(6) = Before(5) \cup {"rx"}
      /\ Before(7) = Before(6) \cup {"tx"} /\ Before(8) = Before(7) \cup {"path"}
      /\ Before(9) = Before(8) \cup {"wait"} /\ Before(10) = Before(9) \cup {"exit"}
      /\ Before(11) = Before(10) \cup {"child"}
  BY <1>2, BeforeSteps
<1>4. /\ OnFailure("parent") = 7 /\ OnFailure("reset") = 5 /\ OnFailure("desc") = 5 /\ OnFailure("rx") = 5
      /\ OnFailure("tx") = 5 /\ OnFailure("path") = 5 /\ OnFailure("wait") = 4 /\ OnFailure("exit") = 3
      /\ OnFailure("child") = 2 /\ OnFailure("link") = 1
  BY DEF OnFailure
<1>5. CASE s \in {2, 3}
  BY <1>2, <1>3, <1>4, <1>5, RemainingLabels DEF Rings
<1>6. CASE s \in {4, 5, 6}
  BY <1>2, <1>3, <1>4, <1>6, RemainingLabels DEF Rings
<1>7. CASE s \in {7, 8, 9}
  BY <1>2, <1>3, <1>4, <1>7, RemainingLabels DEF Rings
<1>8. CASE s \in {10, 11}
  BY <1>2, <1>3, <1>4, <1>8, RemainingLabels DEF Rings
<1> QED BY <1>1, <1>5, <1>6, <1>7, <1>8

-----------------------------------------------------------------------------
(* The Ethernet driver: each of its steps keeps GemInv.                    *)

\* Constants of the type invariant, and the invariant with the operators above.
LEMMA GemInvFacts ==
  ASSUME GemInv
  PROVE  /\ Len(Order) = 11 /\ Len(Labels) = 7
         /\ pc = "start" => step \in 2 .. 11 /\ held = Before(step)
         /\ pc = "unwind" => held \subseteq Remaining(label)
<1>1. Len(Order) = 11 /\ Len(Labels) = 7
  BY DEF Order, Labels
<1> QED BY <1>1 DEF GemInv, GemTypeOK, HeldAtStep, Before, Remaining

LEMMA StartInv == ASSUME GemInv, Start PROVE GemInv'
<1> USE GemInvFacts DEF GemInv, Start
<1>1. GemTypeOK'
  BY ThingNames DEF GemTypeOK
<1>2. AllOrNothing'
  BY DEF AllOrNothing
<1>3. HeldAtStep'
  <2>1. Before(2) = {"pool"}
    BY BeforeSteps
  <2> QED BY <2>1 DEF HeldAtStep, Before
<1>4. held = {} /\ ~up
  BY ThingNames DEF AllOrNothing, RingsInUse, GemTypeOK
<1>5. RingsInUse'
  BY <1>4 DEF RingsInUse
<1>6. DmaOnOwnMemory'
  BY <1>4 DEF RingsInUse, DmaOnOwnMemory, Rings
<1> QED BY <1>1, <1>2, <1>3, <1>5, <1>6

LEMMA MacResetInv == ASSUME GemInv, MacReset PROVE GemInv'
<1> USE GemInvFacts DEF GemInv, MacReset
<1>1. step = 3
  <2>1. step \in 2 .. 11
    OBVIOUS
  <2> QED BY <2>1 DEF Order
<1>2. GemTypeOK' /\ AllOrNothing'
  <2>1. step' \in 1 .. Len(Order)
    BY <1>1
  <2> QED BY <2>1 DEF GemTypeOK, AllOrNothing
<1>3. HeldAtStep'
  <2>1. Before(4) = Before(3)
    BY <1>1, BeforeSteps
  <2> QED BY <1>1, <2>1 DEF HeldAtStep, Before
<1>4. RingsInUse' /\ DmaOnOwnMemory'
  BY <1>1 DEF RingsInUse, DmaOnOwnMemory
<1> QED BY <1>2, <1>3, <1>4

\* Start takes the next thing; after the last it is bound.
LEMMA AcquireInv == ASSUME GemInv, Acquire PROVE GemInv'
<1> USE GemInvFacts DEF GemInv, Acquire
<1>1. step \in 2 .. 11 /\ held = Before(step)
  OBVIOUS
<1>2. Order[step] \in Things
  <2>1. Len(Order) = 11 /\ Order[step] # "reset"
    OBVIOUS
  <2> HIDE DEF Acquire
  <2> QED BY <1>1, <2>1 DEF Things
<1>3. GemTypeOK'
  BY <1>1, <1>2 DEF GemTypeOK
<1>4. AllOrNothing'
  BY <1>1, BeforeSteps DEF AllOrNothing
<1>5. HeldAtStep'
  <2>1. CASE step = 11
    BY <2>1 DEF HeldAtStep
  <2>2. CASE step < 11
    <3>1. held' = Before(step')
      BY <1>1, <2>2, BeforeSteps
    <3> QED BY <1>1, <2>2, <3>1 DEF HeldAtStep, Before
  <2> QED BY <1>1, <2>1, <2>2
<1>6. ~up /\ dma # "driver" /\ ~exited
  BY DEF RingsInUse, GemTypeOK
<1>7. RingsInUse'
  <2>1. step # 3
    BY DEF Order
  <2> QED BY <1>1, <1>6, <2>1 DEF RingsInUse
<1>8. DmaOnOwnMemory'
  <2>1. Order[2] \notin Rings /\ step # 3
    BY DEF Order, Rings
  <2> QED BY <1>1, <1>6, <2>1 DEF DmaOnOwnMemory, RingsInUse
<1> QED BY <1>3, <1>4, <1>5, <1>7, <1>8

LEMMA AcquireFailsInv == ASSUME GemInv, AcquireFails PROVE GemInv'
<1> USE GemInvFacts DEF GemInv, AcquireFails
<1>1. step \in 2 .. 11 /\ held = Before(step)
  OBVIOUS
<1>2. OnFailure(Order[step]) \in 1 .. 7 /\ held' \subseteq Remaining(label')
  BY <1>1, FailureReleasesAll
<1>3. GemTypeOK'
  <2>1. held' \subseteq Things /\ label' \in 1 .. Len(Labels)
    BY <1>2 DEF GemTypeOK
  <2>2. failures' \in 0 .. MaxFailures
    BY BindingAssumption DEF GemTypeOK, Fail
  <2> QED BY <2>1, <2>2 DEF GemTypeOK
<1>4. HeldAtStep'
  BY <1>2 DEF HeldAtStep, Remaining
<1>5. AllOrNothing' /\ RingsInUse' /\ DmaOnOwnMemory'
  BY DEF AllOrNothing, RingsInUse, DmaOnOwnMemory, GemTypeOK
<1> QED BY <1>3, <1>4, <1>5

\* The label's part is released, and what is left is for the labels after it.
LEMMA UnwindInv == ASSUME GemInv, Unwind PROVE GemInv'
<1> USE GemInvFacts DEF GemInv, Unwind
<1>1. label \in 1 .. 7 /\ held \subseteq Remaining(label)
  BY DEF GemTypeOK
<1>2. GemTypeOK'
  BY <1>1 DEF GemTypeOK
<1>3. CASE label = 7
  <2>1. held' = {}
    BY <1>1, <1>3, RemainingLabels
  <2> QED BY <1>2, <1>3, <2>1 DEF AllOrNothing, HeldAtStep, RingsInUse, DmaOnOwnMemory, GemTypeOK
<1>4. CASE label < 7
  <2>1. held' \subseteq Remaining(label')
    BY <1>1, <1>4, RemainingLabels
  <2>2. HeldAtStep' /\ AllOrNothing'
    BY <1>4, <2>1 DEF AllOrNothing, HeldAtStep, Remaining
  <2>3. RingsInUse' /\ DmaOnOwnMemory'
    BY <1>4 DEF RingsInUse, DmaOnOwnMemory, GemTypeOK
  <2> QED BY <1>2, <2>2, <2>3
<1> QED BY <1>1, <1>3, <1>4

\* Stop: the DMA engines are off before anything is given back, and stay off
\* unless a client brings them up again, which the uninstall undoes.
LEMMA StopInv ==
  ASSUME GemInv, StopChild \/ CloseChild \/ Uninstall \/ UninstallFails \/ StopFree \/ StopController
  PROVE  GemInv'
<1> USE ThingNames DEF GemInv
<1>1. CASE StopChild
  BY <1>1 DEF StopChild, GemTypeOK, AllOrNothing, HeldAtStep, RingsInUse, DmaOnOwnMemory
<1>2. CASE CloseChild
  BY <1>2 DEF CloseChild, GemTypeOK, AllOrNothing, HeldAtStep, RingsInUse, DmaOnOwnMemory, Rings
<1>3. CASE Uninstall
  BY <1>3 DEF Uninstall, GemTypeOK, AllOrNothing, HeldAtStep, RingsInUse, DmaOnOwnMemory, Rings
<1>4. CASE UninstallFails
  BY <1>4, BindingAssumption DEF UninstallFails, Fail, GemTypeOK, AllOrNothing, HeldAtStep, RingsInUse, DmaOnOwnMemory, Rings
<1>5. CASE StopFree
  BY <1>5 DEF StopFree, GemTypeOK, AllOrNothing, HeldAtStep, RingsInUse, DmaOnOwnMemory, Rings
<1>6. CASE StopController
  BY <1>6 DEF StopController, GemTypeOK, AllOrNothing, HeldAtStep, RingsInUse, DmaOnOwnMemory, Rings
<1> QED BY <1>1, <1>2, <1>3, <1>4, <1>5, <1>6

LEMMA ClientInv == ASSUME GemInv, Initialize \/ Shutdown \/ NotifyExitBootServices PROVE GemInv'
<1> USE ThingNames DEF GemInv
<1>1. CASE Initialize
  BY <1>1 DEF Initialize, Client, GemTypeOK, AllOrNothing, HeldAtStep, RingsInUse, DmaOnOwnMemory, Rings
<1>2. CASE Shutdown
  BY <1>2 DEF Shutdown, Client, GemTypeOK, AllOrNothing, HeldAtStep, RingsInUse, DmaOnOwnMemory, Rings
<1>3. CASE NotifyExitBootServices
  BY <1>3 DEF NotifyExitBootServices, GemTypeOK, AllOrNothing, HeldAtStep, RingsInUse, DmaOnOwnMemory, Rings
<1> QED BY <1>1, <1>2, <1>3

\* The bus driver's steps leave the Ethernet driver alone; a call of theirs
\* that fails counts.
LEMMA GemUntouched ==
  ASSUME GemInv, UNCHANGED <<held, step, label, pc, up, dma, exited>>, UNCHANGED failures \/ Fail
  PROVE  GemInv'
  BY BindingAssumption DEF GemInv, Fail, GemTypeOK, AllOrNothing, HeldAtStep, RingsInUse, DmaOnOwnMemory

-----------------------------------------------------------------------------
(* The bus driver.                                                         *)

LEMMA BusNames ==
  /\ Len(BusSteps) = 4
  /\ BusSteps[1] = "attributes" /\ BusSteps[2] = "data" /\ BusSteps[3] = "bar" /\ BusSteps[4] = "protocol"
  /\ Names(BusSteps) = {"attributes", "data", "bar", "protocol"}
  /\ Names(Devices) = {"xhci0", "xhci1", "gem", "i2c"}
<1>1. Len(BusSteps) = 4 /\ BusSteps[1] = "attributes" /\ BusSteps[2] = "data" /\ BusSteps[3] = "bar" /\ BusSteps[4] = "protocol"
  BY DEF BusSteps
<1>2. Len(Devices) = 4 /\ Devices[1] = "xhci0" /\ Devices[2] = "xhci1" /\ Devices[3] = "gem" /\ Devices[4] = "i2c"
  BY DEF Devices
<1>3. \A i \in 1 .. 4 : i = 1 \/ i = 2 \/ i = 3 \/ i = 4
  OBVIOUS
<1>4. Names(BusSteps) = {"attributes", "data", "bar", "protocol"}
  BY <1>1, <1>3 DEF Names
<1>5. Names(Devices) = {"xhci0", "xhci1", "gem", "i2c"}
  BY <1>2, <1>3 DEF Names
<1> QED BY <1>1, <1>4, <1>5

LEMMA BusStartInv ==
  ASSUME IInv, Rp1BusDriverBindingStart \/ BusAcquire \/ BusAcquireFails
  PROVE  IInv'
<1> USE DEF IInv
<1>1. GemInv'
  BY GemUntouched DEF Rp1BusDriverBindingStart, BusAcquire, BusAcquireFails, gemVars
<1>2. CASE Rp1BusDriverBindingStart
  <2>1. TypeOK'
    BY <1>1, <1>2, BusNames DEF TypeOK, Rp1BusDriverBindingStart, GemInv
  <2> QED BY <1>1, <1>2, <2>1, BusNames DEF Rp1BusDriverBindingStart, Free, gemVars, BusUnderDevice, BusSetUp
<1>3. CASE BusAcquire
  <2>1. PICK i \in 1 .. 4 :
          /\ bpc = BusSteps[i]
          /\ bpc' = IF i = 4 THEN "register" ELSE BusSteps[i + 1]
          /\ bus' = IF bpc \in {"data", "protocol"} THEN bus \cup {bpc} ELSE bus
          /\ left' = IF bpc = "protocol" THEN Names(Devices) ELSE left
    BY <1>3, BusNames DEF BusAcquire
  <2>2. UNCHANGED <<gemVars, kids, linked, msix, lost>>
    BY <1>3 DEF BusAcquire
  <2>3. TypeOK'
    <3>1. i = 1 \/ i = 2 \/ i = 3 \/ i = 4
      OBVIOUS
    <3>2. bpc' \in Names(BusSteps) \cup {"idle", "register", "stopping"}
      BY <2>1, <3>1, BusNames
    <3>3. bus' \subseteq {"pci", "data", "protocol", "event"} /\ left' \subseteq Names(Devices)
      BY <2>1 DEF TypeOK
    <3> QED BY <1>1, <2>2, <3>2, <3>3 DEF TypeOK, GemInv
  <2>4. BusSetUp' /\ BusUnderDevice'
    BY <2>1, <2>2, BusNames DEF BusSetUp, BusUnderDevice, gemVars, TypeOK
  <2> QED BY <1>1, <2>3, <2>4
<1>4. CASE BusAcquireFails
  <2>1. bpc \in Names(BusSteps)
    BY <1>4, BusNames DEF BusAcquireFails
  <2>2. TypeOK'
    BY <1>1, <1>4, BusNames DEF BusAcquireFails, TypeOK, GemInv
  <2> QED BY <1>1, <1>4, <2>1, <2>2, BusNames DEF BusAcquireFails, BusSetUp, BusUnderDevice
<1> QED BY <1>2, <1>3, <1>4

LEMMA RegisterInv ==
  ASSUME IInv, Register \/ RegisterFails \/ LinkFails \/ EnableInterrupts
  PROVE  IInv'
<1> USE DEF IInv
<1>1. GemInv'
  BY GemUntouched DEF Register, RegisterFails, LinkFails, EnableInterrupts, gemVars
<1>2. bpc = "register" /\ bus # {} /\ ~exited
  BY DEF Register, RegisterFails, LinkFails, EnableInterrupts, BusSetUp
<1>3. CASE Register \/ RegisterFails \/ LinkFails
  <2>1. bus' = bus /\ bpc' = bpc /\ msix' = msix /\ held' = held /\ exited' = exited
    BY <1>3 DEF Register, RegisterFails, LinkFails, gemVars
  <2>2. TypeOK'
    BY <1>1, <1>3, <2>1 DEF TypeOK, GemInv, Register, RegisterFails, LinkFails
  <2>3. BusUnderDevice' /\ BusSetUp'
    BY <1>2, <1>3, <2>1, BusNames DEF Register, RegisterFails, LinkFails, BusUnderDevice, BusSetUp
  <2> QED BY <1>1, <2>2, <2>3
<1>4. CASE EnableInterrupts
  <2>1. TypeOK'
    BY <1>1, <1>4 DEF EnableInterrupts, TypeOK, GemInv
  <2> QED BY <1>1, <1>2, <1>4, <2>1, BusNames DEF EnableInterrupts, BusUnderDevice, BusSetUp
<1> QED BY <1>3, <1>4

\* The device of the Ethernet driver goes only when that holds nothing.
LEMMA StopBusInv ==
  ASSUME IInv, StopChildren \/ Unregister \/ UnregisterFails \/ StoppedChildren \/ StopBus
  PROVE  IInv'
<1> USE DEF IInv
<1>1. GemInv'
  BY GemUntouched DEF StopChildren, Unregister, UnregisterFails, StoppedChildren, StopBus, gemVars
<1>2. CASE StopChildren
  <2>1. TypeOK'
    BY <1>1, <1>2 DEF StopChildren, TypeOK, GemInv
  <2> QED BY <1>1, <1>2, <2>1, BusNames DEF StopChildren, gemVars, Free, BusUnderDevice, BusSetUp
<1>3. CASE Unregister \/ UnregisterFails
  <2>1. bus' = bus /\ bpc' = bpc /\ msix' = msix /\ held' = held /\ exited' = exited
    BY <1>3 DEF Unregister, UnregisterFails, gemVars
  <2>2. TypeOK'
    BY <1>1, <1>3, <2>1 DEF TypeOK, GemInv, Unregister, UnregisterFails, Relink
  <2>3. BusUnderDevice' /\ BusSetUp'
    BY <1>3, <2>1, BusNames DEF Unregister, UnregisterFails, Relink, BusUnderDevice, BusSetUp
  <2> QED BY <1>1, <2>2, <2>3
<1>4. CASE StoppedChildren
  <2>1. TypeOK'
    BY <1>1, <1>4 DEF StoppedChildren, TypeOK, GemInv
  <2> QED BY <1>1, <1>4, <2>1, BusNames DEF StoppedChildren, gemVars, BusUnderDevice, BusSetUp
<1>5. CASE StopBus
  <2>1. TypeOK'
    BY <1>1, <1>5 DEF StopBus, TypeOK, GemInv
  <2> QED BY <1>1, <1>5, <2>1, BusNames DEF StopBus, Free, gemVars, BusUnderDevice, BusSetUp
<1> QED BY <1>2, <1>3, <1>4, <1>5

\* The Ethernet driver starts only where its device is, and every step of it
\* inside a call finds something held.
LEMMA GemStepInv == ASSUME IInv, GemStarts \/ GemStops \/ GemClients PROVE IInv'
<1> USE DEF IInv
<1>1. UNCHANGED busVars
  BY DEF GemStarts, GemStops, GemClients
<1>2. GemInv'
  BY StartInv, MacResetInv, AcquireInv, AcquireFailsInv, UnwindInv, StopInv, ClientInv DEF GemStarts, GemStops, GemClients
<1>3. TypeOK'
  BY <1>1, <1>2 DEF TypeOK, GemInv, busVars
<1>4. exited' = exited
  BY DEF GemStarts, Start, MacReset, Acquire, AcquireFails, Unwind, GemStops, StopChild, CloseChild, Uninstall,
         UninstallFails, StopFree, StopController, GemClients, Initialize, Shutdown
<1>5. held' # {} => "gem" \in kids
  <2>1. CASE GemStarts
    <3>1. CASE Start
      BY <2>1, <3>1 DEF GemStarts, Start
    <3>2. CASE MacReset \/ AcquireFails \/ Unwind
      BY <3>2 DEF MacReset, AcquireFails, Unwind, BusUnderDevice
    <3>3. CASE Acquire
      <4>1. held # {}
        BY <3>3, GemInvFacts, BeforeSteps DEF Acquire
      <4> QED BY <4>1 DEF BusUnderDevice
    <3> QED BY <2>1, <3>1, <3>2, <3>3 DEF GemStarts
  <2>2. CASE GemStops
    <3>1. held # {} => "gem" \in kids
      BY DEF BusUnderDevice
    <3>2. UninstallFails => held # {}
      BY ThingNames DEF GemInv, HeldAtStep, UninstallFails
    <3> QED BY <2>2, <3>1, <3>2 DEF GemStops, StopChild, CloseChild, Uninstall, UninstallFails, StopFree, StopController
  <2>3. CASE GemClients
    BY <2>3 DEF GemClients, Initialize, Shutdown, BusUnderDevice
  <2> QED BY <2>1, <2>2, <2>3
<1>6. BusUnderDevice' /\ BusSetUp'
  BY <1>1, <1>4, <1>5 DEF BusUnderDevice, BusSetUp, busVars
<1> QED BY <1>2, <1>3, <1>6

LEMMA ExitInv == ASSUME IInv, ExitBootServices PROVE IInv'
<1> USE DEF IInv
<1>1. GemInv'
  BY ClientInv DEF ExitBootServices
<1>2. TypeOK'
  BY <1>1 DEF ExitBootServices, TypeOK, GemInv
<1>3. BusUnderDevice' /\ BusSetUp'
  BY BusNames DEF ExitBootServices, NotifyExitBootServices, BusUnderDevice, BusSetUp
<1> QED BY <1>1, <1>2, <1>3

-----------------------------------------------------------------------------
\* IInv holds whatever the core calls, in whatever order, and whatever fails.
THEOREM TreeInvariant == Spec => []IInv
<1>1. Init => IInv
  <2> SUFFICES ASSUME Init PROVE IInv
    OBVIOUS
  <2> USE DEF Init, GemInit
  <2>1. GemInv
    <3>1. 1 \in 1 .. Len(Order) /\ 1 \in 1 .. Len(Labels) /\ 0 \in 0 .. MaxFailures
      BY BindingAssumption DEF Order, Labels
    <3>2. GemTypeOK
      BY <3>1, Zenon DEF GemTypeOK
    <3> QED BY <3>2 DEF GemInv, AllOrNothing, HeldAtStep, RingsInUse, DmaOnOwnMemory
  <2>2. TypeOK
    BY <2>1 DEF TypeOK, GemInv
  <2> QED BY <2>1, <2>2, BusNames DEF IInv, BusUnderDevice, BusSetUp
<1>2. IInv /\ [Next]_vars => IInv'
  <2> SUFFICES ASSUME IInv, [Next]_vars PROVE IInv'
    OBVIOUS
  <2>1. CASE Next
    BY <2>1, BusStartInv, RegisterInv, StopBusInv, GemStepInv, ExitInv DEF Next
  <2>2. CASE UNCHANGED vars
    <3>1. GemInv'
      BY <2>2, GemUntouched DEF IInv, vars, gemVars
    <3> QED BY <2>2, <3>1 DEF IInv, vars, gemVars, busVars, TypeOK, GemInv, BusUnderDevice, BusSetUp
  <2> QED BY <2>1, <2>2
<1> QED BY <1>1, <1>2, PTL DEF Spec

\* Whatever acquisition of Start failed, and whatever Stop could not give
\* back, between two calls the Ethernet driver is bound whole, stopped with
\* its parent open, or holds nothing.
THEOREM BindingIsWhole == Spec => []AllOrNothing
  BY TreeInvariant, PTL DEF IInv, GemInv

\* The MAC's DMA engines run on no memory that was given back, in any
\* interleaving of Start, Stop, a client's timer and ExitBootServices.
THEOREM DmaIsContained == Spec => []DmaOnOwnMemory
  BY TreeInvariant, PTL DEF IInv, GemInv

\* A driver has its device, a device its bus unless its link was lost, and
\* the operating system no interrupt of theirs.
THEOREM TreeIsRooted == Spec => []BusUnderDevice
  BY TreeInvariant, PTL DEF IInv

-----------------------------------------------------------------------------
(* The windows of a root complex: registers and what they decode.          *)

\* Twelve bits of a number are the number.
Twelve(v) ==
  (v % 2) + 2 * ((v \div 2) % 2) + 4 * ((v \div 4) % 2) + 8 * ((v \div 8) % 2)
    + 16 * ((v \div 16) % 2) + 32 * ((v \div 32) % 2) + 64 * ((v \div 64) % 2)
    + 128 * ((v \div 128) % 2) + 256 * ((v \div 256) % 2) + 512 * ((v \div 512) % 2)
    + 1024 * ((v \div 1024) % 2) + 2048 * ((v \div 2048) % 2)
LEMMA TwelveBits ==
  ASSUME NEW v \in Nat
  PROVE  v = 4096 * (v \div 4096) + Twelve(v)
<1>1. v = 2 * (v \div 2) + (v % 2) /\ v \div 2 \in Nat /\ v % 2 \in Nat
  OBVIOUS
<1>2. v \div 2 = 2 * (v \div 4) + ((v \div 2) % 2) /\ v \div 4 \in Nat /\ (v \div 2) % 2 \in Nat
  OBVIOUS
<1>3. v \div 4 = 2 * (v \div 8) + ((v \div 4) % 2) /\ v \div 8 \in Nat /\ (v \div 4) % 2 \in Nat
  OBVIOUS
<1>4. v \div 8 = 2 * (v \div 16) + ((v \div 8) % 2) /\ v \div 16 \in Nat /\ (v \div 8) % 2 \in Nat
  OBVIOUS
<1>5. v \div 16 = 2 * (v \div 32) + ((v \div 16) % 2) /\ v \div 32 \in Nat /\ (v \div 16) % 2 \in Nat
  OBVIOUS
<1>6. v \div 32 = 2 * (v \div 64) + ((v \div 32) % 2) /\ v \div 64 \in Nat /\ (v \div 32) % 2 \in Nat
  OBVIOUS
<1>7. v \div 64 = 2 * (v \div 128) + ((v \div 64) % 2) /\ v \div 128 \in Nat /\ (v \div 64) % 2 \in Nat
  OBVIOUS
<1>8. v \div 128 = 2 * (v \div 256) + ((v \div 128) % 2) /\ v \div 256 \in Nat /\ (v \div 128) % 2 \in Nat
  OBVIOUS
<1>9. v \div 256 = 2 * (v \div 512) + ((v \div 256) % 2) /\ v \div 512 \in Nat /\ (v \div 256) % 2 \in Nat
  OBVIOUS
<1>10. v \div 512 = 2 * (v \div 1024) + ((v \div 512) % 2) /\ v \div 1024 \in Nat /\ (v \div 512) % 2 \in Nat
  OBVIOUS
<1>11. v \div 1024 = 2 * (v \div 2048) + ((v \div 1024) % 2) /\ v \div 2048 \in Nat /\ (v \div 1024) % 2 \in Nat
  OBVIOUS
<1>12. v \div 2048 = 2 * (v \div 4096) + ((v \div 2048) % 2) /\ v \div 4096 \in Nat /\ (v \div 2048) % 2 \in Nat
  OBVIOUS
<1> QED BY <1>1, <1>2, <1>3, <1>4, <1>5, <1>6, <1>7, <1>8, <1>9, <1>10, <1>11, <1>12 DEF Twelve

\* The base: its field holds the twelve bits below 4 GB, which are clear.
LEMMA BaseField ==
  ASSUME NEW cpu \in {98304, 110592, 114688, 126976}, NEW limit \in Nat
  PROVE  RegField(BitsOf(cpu, 4, 28) \cup BitsOf(limit, 20, 12), 4) = 0
<1> DEFINE low == BitsOf(cpu, 4, 28) \cup BitsOf(limit, 20, 12)
<1>1. \A k \in 0 .. 11 : 4 + k \in low => (cpu \div 2^k) % 2 = 1
  BY DEF BitsOf
<1> HIDE DEF low
<1>2. /\ (cpu \div 2^0) % 2 # 1 /\ (cpu \div 2^1) % 2 # 1 /\ (cpu \div 2^2) % 2 # 1
      /\ (cpu \div 2^3) % 2 # 1 /\ (cpu \div 2^4) % 2 # 1 /\ (cpu \div 2^5) % 2 # 1
      /\ (cpu \div 2^6) % 2 # 1 /\ (cpu \div 2^7) % 2 # 1 /\ (cpu \div 2^8) % 2 # 1
      /\ (cpu \div 2^9) % 2 # 1 /\ (cpu \div 2^10) % 2 # 1 /\ (cpu \div 2^11) % 2 # 1
  OBVIOUS
<1>3. /\ 4 + 0 \notin low /\ 4 + 1 \notin low /\ 4 + 2 \notin low /\ 4 + 3 \notin low /\ 4 + 4 \notin low /\ 4 + 5 \notin low
      /\ 4 + 6 \notin low /\ 4 + 7 \notin low /\ 4 + 8 \notin low /\ 4 + 9 \notin low /\ 4 + 10 \notin low /\ 4 + 11 \notin low
  BY <1>1, <1>2
<1>4. RegField(low, 4) = 0
  BY <1>3 DEF RegField
<1> QED BY <1>4 DEF low

\* The limit: the base runs into its lowest bit, which is set.
LEMMA LimitField ==
  ASSUME NEW cpu \in {98304, 110592, 114688, 126976}, NEW limit \in Nat, limit % 2 = 1
  PROVE  RegField(BitsOf(cpu, 4, 28) \cup BitsOf(limit, 20, 12), 20) + 4096 * (limit \div 4096) = limit
<1> DEFINE low == BitsOf(cpu, 4, 28) \cup BitsOf(limit, 20, 12)
<1>1. ASSUME NEW k \in 0 .. 11
      PROVE  20 + k \in low <=> (limit \div 2^k) % 2 = 1 \/ (cpu \div 2^(16 + k)) % 2 = 1
  <2>1. 20 + k \in BitsOf(limit, 20, 12) <=> (limit \div 2^k) % 2 = 1
    BY DEF BitsOf
  <2>2. 20 + k \in BitsOf(cpu, 4, 28) <=> (cpu \div 2^(16 + k)) % 2 = 1
    BY DEF BitsOf
  <2>3. 20 + k \in low <=> 20 + k \in BitsOf(limit, 20, 12) \/ 20 + k \in BitsOf(cpu, 4, 28)
    OBVIOUS
  <2> HIDE DEF low
  <2> QED BY <2>1, <2>2, <2>3
<1> HIDE DEF low
<1>2. /\ (cpu \div 2^(16 + 1)) % 2 # 1 /\ (cpu \div 2^(16 + 2)) % 2 # 1 /\ (cpu \div 2^(16 + 3)) % 2 # 1
      /\ (cpu \div 2^(16 + 4)) % 2 # 1 /\ (cpu \div 2^(16 + 5)) % 2 # 1 /\ (cpu \div 2^(16 + 6)) % 2 # 1
      /\ (cpu \div 2^(16 + 7)) % 2 # 1 /\ (cpu \div 2^(16 + 8)) % 2 # 1 /\ (cpu \div 2^(16 + 9)) % 2 # 1
      /\ (cpu \div 2^(16 + 10)) % 2 # 1 /\ (cpu \div 2^(16 + 11)) % 2 # 1
  OBVIOUS
<1>3. /\ (IF 20 + 0 \in low THEN 2^0 ELSE 0) = limit % 2
      /\ (IF 20 + 1 \in low THEN 2^1 ELSE 0) = 2 * ((limit \div 2) % 2)
      /\ (IF 20 + 2 \in low THEN 2^2 ELSE 0) = 4 * ((limit \div 4) % 2)
      /\ (IF 20 + 3 \in low THEN 2^3 ELSE 0) = 8 * ((limit \div 8) % 2)
      /\ (IF 20 + 4 \in low THEN 2^4 ELSE 0) = 16 * ((limit \div 16) % 2)
      /\ (IF 20 + 5 \in low THEN 2^5 ELSE 0) = 32 * ((limit \div 32) % 2)
      /\ (IF 20 + 6 \in low THEN 2^6 ELSE 0) = 64 * ((limit \div 64) % 2)
      /\ (IF 20 + 7 \in low THEN 2^7 ELSE 0) = 128 * ((limit \div 128) % 2)
      /\ (IF 20 + 8 \in low THEN 2^8 ELSE 0) = 256 * ((limit \div 256) % 2)
      /\ (IF 20 + 9 \in low THEN 2^9 ELSE 0) = 512 * ((limit \div 512) % 2)
      /\ (IF 20 + 10 \in low THEN 2^10 ELSE 0) = 1024 * ((limit \div 1024) % 2)
      /\ (IF 20 + 11 \in low THEN 2^11 ELSE 0) = 2048 * ((limit \div 2048) % 2)
  <2>1. 20 + 0 \in low
    BY <1>1
  <2>2. /\ 20 + 1 \in low <=> (limit \div 2) % 2 = 1
        /\ 20 + 2 \in low <=> (limit \div 4) % 2 = 1
    BY <1>1, <1>2
  <2>3. /\ 20 + 3 \in low <=> (limit \div 8) % 2 = 1
        /\ 20 + 4 \in low <=> (limit \div 16) % 2 = 1
    BY <1>1, <1>2
  <2>4. /\ 20 + 5 \in low <=> (limit \div 32) % 2 = 1
        /\ 20 + 6 \in low <=> (limit \div 64) % 2 = 1
    BY <1>1, <1>2
  <2>5. /\ 20 + 7 \in low <=> (limit \div 128) % 2 = 1
        /\ 20 + 8 \in low <=> (limit \div 256) % 2 = 1
    BY <1>1, <1>2
  <2>6. /\ 20 + 9 \in low <=> (limit \div 512) % 2 = 1
        /\ 20 + 10 \in low <=> (limit \div 1024) % 2 = 1
    BY <1>1, <1>2
  <2>7. /\ 20 + 11 \in low <=> (limit \div 2048) % 2 = 1
    BY <1>1, <1>2
  <2> QED BY <2>1, <2>2, <2>3, <2>4, <2>5, <2>6, <2>7
<1>4. RegField(low, 20) = Twelve(limit)
  BY <1>3 DEF RegField, Twelve
<1>5. limit = 4096 * (limit \div 4096) + Twelve(limit)
  BY TwelveBits
<1>6. limit \div 4096 \in Nat /\ Twelve(limit) \in Nat
  BY DEF Twelve
<1> QED BY <1>4, <1>5, <1>6 DEF low

\* PcieSetupOutboundWindow, and what the hardware makes of it.
LEMMA WindowDecoded ==
  ASSUME NEW cpu \in {98304, 110592, 114688, 126976}, NEW target, NEW size \in Nat \ {0}, size % 2 = 0
  PROVE  /\ Decodes(PcieSetupOutboundWindow(cpu, target, size)) = <<cpu, cpu + size - 1>>
         /\ PcieSetupOutboundWindow(cpu, target, size).bus = target
<1> DEFINE limit == cpu + size - 1
           win   == PcieSetupOutboundWindow(cpu, target, size)
<1>1. limit \in Nat /\ limit % 2 = 1 /\ 4096 * (cpu \div 4096) = cpu
  OBVIOUS
<1>2. /\ win.low = BitsOf(cpu, 4, 28) \cup BitsOf(limit, 20, 12) /\ win.baseHi = cpu \div 4096
      /\ win.limitHi = limit \div 4096 /\ win.bus = target
  BY DEF PcieSetupOutboundWindow
<1> HIDE DEF win
<1>3. Decodes(win) = <<RegField(win.low, 4) + 4096 * win.baseHi, RegField(win.low, 20) + 4096 * win.limitHi>>
  BY DEF Decodes
<1> HIDE DEF limit
<1>4. RegField(win.low, 4) = 0 /\ RegField(win.low, 20) + 4096 * win.limitHi = limit
  BY <1>1, <1>2, BaseField, LimitField
<1>5. Decodes(win) = <<cpu, limit>>
  BY <1>1, <1>2, <1>3, <1>4
<1> QED BY <1>2, <1>5 DEF limit, win

\* A root complex that was started decodes its two windows, and they are where
\* its root bridge says, modulo the width of an address.
LEMMA OneComplex ==
  ASSUME NEW s \in InUse, NEW l \in BOOLEAN
  PROVE  /\ Decodes(PcieInitRc(s, l).mem) = <<CpuMem[s], CpuMem[s] + Mem32Size - 1>>
         /\ Decodes(PcieInitRc(s, l).mem64) = <<CpuMem64[s], CpuMem64[s] + Mem64Size - 1>>
         /\ PcieInitRc(s, l).mem.bus = Mem32Base /\ PcieInitRc(s, l).mem64.bus = CpuMem64[s]
         /\ ~PcieInitRc(s, l).perst /\ PcieInitRc(s, l).errorsOff
         /\ PcieInitRc(s, l).inbound = [bus |-> 0, cpu |-> 0, remap |-> TRUE, size |-> 21]
         /\ PcieInitRc(s, l).misc \cap SCB0_SIZE = BitsOf(21, 27, 5)
<1>1. CpuMem[s] \in {110592, 126976} /\ CpuMem64[s] \in {98304, 114688}
  BY DEF InUse, CpuMem, CpuMem64, Segs
<1>2. Mem32Size \in Nat \ {0} /\ Mem32Size % 2 = 0 /\ Mem64Size \in Nat \ {0} /\ Mem64Size % 2 = 0
  BY PcieAssumption DEF Mem64Size
<1>3. PcieEncodeInboundSize(36) = 21
  BY DEF PcieEncodeInboundSize
<1>4. /\ PcieInitRc(s, l).mem = PcieSetupOutboundWindow(CpuMem[s], Mem32Base, Mem32Size)
      /\ PcieInitRc(s, l).mem64 = PcieSetupOutboundWindow(CpuMem64[s], CpuMem64[s], Mem64Size)
      /\ ~PcieInitRc(s, l).perst /\ PcieInitRc(s, l).errorsOff
      /\ PcieInitRc(s, l).inbound = [bus |-> 0, cpu |-> 0, remap |-> TRUE, size |-> 21]
      /\ PcieInitRc(s, l).misc = Scb0Sized(MiscCtrl(MiscLeft), 21)
  BY <1>3 DEF PcieInitRc, PcieSetupInboundWindow
<1>5. /\ Decodes(PcieInitRc(s, l).mem) = <<CpuMem[s], CpuMem[s] + Mem32Size - 1>>
      /\ PcieInitRc(s, l).mem.bus = Mem32Base
  BY <1>1, <1>2, <1>4, WindowDecoded
<1>6. /\ Decodes(PcieInitRc(s, l).mem64) = <<CpuMem64[s], CpuMem64[s] + Mem64Size - 1>>
      /\ PcieInitRc(s, l).mem64.bus = CpuMem64[s]
  BY <1>1, <1>2, <1>4, WindowDecoded
<1>7. BitsOf(21, 27, 5) \subseteq SCB0_SIZE
  BY DEF BitsOf, SCB0_SIZE
<1>8. Scb0Sized(MiscCtrl(MiscLeft), 21) \cap SCB0_SIZE = BitsOf(21, 27, 5)
  BY <1>7 DEF Scb0Sized
<1> QED BY <1>4, <1>5, <1>6, <1>8

\* The registers of the root complexes agree with the root bridges.
LEMMA RegistersDecode == WindowsDecode
<1>1. ASSUME NEW s \in InUse, NEW l \in BOOLEAN PROVE Agrees(PcieInitRc(s, l), Bridge(s))
  <2> DEFINE rc == PcieInitRc(s, l)
             b  == Bridge(s)
  <2>1. /\ Decodes(rc.mem) = <<CpuMem[s], CpuMem[s] + Mem32Size - 1>>
        /\ Decodes(rc.mem64) = <<CpuMem64[s], CpuMem64[s] + Mem64Size - 1>>
        /\ rc.mem.bus = Mem32Base /\ rc.mem64.bus = CpuMem64[s]
        /\ ~rc.perst /\ rc.errorsOff
        /\ rc.inbound.bus = 0 /\ rc.inbound.cpu = 0 /\ rc.inbound.remap /\ rc.inbound.size = 21
        /\ rc.misc \cap SCB0_SIZE = BitsOf(21, 27, 5)
    BY OneComplex
  <2>2. /\ b.mem.base = Mem32Base /\ b.mem.limit = Mem32Base + Mem32Size - 1
        /\ b.mem.translation = (Width - (CpuMem[s] - Mem32Base)) % Width
        /\ b.mem64.base = CpuMem64[s] /\ b.mem64.limit = CpuMem64[s] + Mem64Size - 1 /\ b.mem64.translation = 0
    BY DEF Bridge
  <2> HIDE DEF rc, b
  <2>3. CpuMem[s] \in {110592, 126976} /\ CpuMem64[s] \in {98304, 114688} /\ Width = 16777216 /\ Mem64Size = 12288
    BY DEF InUse, CpuMem, CpuMem64, Segs, Width, Mem64Size
  <2>4. Mem32Base \in Nat /\ Mem32Size \in Nat /\ Mem32Base + Mem32Size = 4096
    BY PcieAssumption
  <2>5. b.mem.translation = 16777216 - CpuMem[s] + Mem32Base
    BY <2>2, <2>3, <2>4
  <2>6. /\ (b.mem.base - b.mem.translation) % Width = CpuMem[s]
        /\ (b.mem.limit - b.mem.translation) % Width = CpuMem[s] + Mem32Size - 1
    <3>1. /\ b.mem.base - b.mem.translation = CpuMem[s] - 16777216
          /\ b.mem.limit - b.mem.translation = CpuMem[s] + Mem32Size - 1 - 16777216
      BY <2>2, <2>3, <2>4, <2>5
    <3> QED BY <2>3, <2>4, <3>1
  <2>7. /\ (b.mem64.base - b.mem64.translation) % Width = CpuMem64[s]
        /\ (b.mem64.limit - b.mem64.translation) % Width = CpuMem64[s] + Mem64Size - 1
    BY <2>2, <2>3
  <2>8. 2^(rc.inbound.size + 15 - 20) = INBOUND
    <3>1. rc.inbound.size + 15 - 20 = 16
      BY <2>1
    <3>2. 2^16 = INBOUND
      BY DEF INBOUND
    <3> QED BY <3>1, <3>2
  <2>9. Agrees(rc, b)
    BY <2>1, <2>2, <2>6, <2>7, <2>8 DEF Agrees
  <2> QED BY <2>9 DEF rc, b
<1>2. ASSUME NEW s \in InUse, NEW r \in InUse, NEW l \in BOOLEAN, NEW k \in BOOLEAN, r # s
      PROVE  Disjoint(PcieInitRc(s, l), PcieInitRc(r, k))
  <2> DEFINE p == PcieInitRc(s, l)
             o == PcieInitRc(r, k)
  <2>1. /\ Decodes(p["mem"]) = <<CpuMem[s], CpuMem[s] + Mem32Size - 1>>
        /\ Decodes(p["mem64"]) = <<CpuMem64[s], CpuMem64[s] + Mem64Size - 1>>
    BY OneComplex
  <2>2. /\ Decodes(o["mem"]) = <<CpuMem[r], CpuMem[r] + Mem32Size - 1>>
        /\ Decodes(o["mem64"]) = <<CpuMem64[r], CpuMem64[r] + Mem64Size - 1>>
    BY OneComplex
  <2> HIDE DEF p, o
  <2>3. \/ /\ CpuMem[s] = 110592 /\ CpuMem64[s] = 98304 /\ CpuMem[r] = 126976 /\ CpuMem64[r] = 114688
        \/ /\ CpuMem[r] = 110592 /\ CpuMem64[r] = 98304 /\ CpuMem[s] = 126976 /\ CpuMem64[s] = 114688
    BY <1>2 DEF InUse, CpuMem, CpuMem64, Segs
  <2>4. Mem32Size \in Nat /\ Mem32Size < 4096 /\ Mem64Size = 12288
    BY PcieAssumption DEF Mem64Size
  <2>5. Disjoint(p, o)
    <3> SUFFICES ASSUME NEW x \in {"mem", "mem64"}, NEW y \in {"mem", "mem64"}
                 PROVE  Decodes(p[x])[2] < Decodes(o[y])[1] \/ Decodes(o[y])[2] < Decodes(p[x])[1]
      BY DEF Disjoint
    <3>1. CASE x = "mem"
      BY <2>1, <2>2, <2>3, <2>4, <3>1
    <3>2. CASE x = "mem64"
      BY <2>1, <2>2, <2>3, <2>4, <3>2
    <3> QED BY <3>1, <3>2
  <2> QED BY <2>5 DEF p, o
<1> QED BY <1>1, <1>2 DEF WindowsDecode

-----------------------------------------------------------------------------
(* The root bridges.                                                       *)

LEMMA BridgeSegment == \A s : Bridge(s).segment = s
BY DEF Bridge

\* A step of PciHostBridgeGetRootBridges.
LEMMA GetRootBridgesInStep ==
  ASSUME BridgesInStep, PciHostBridgeGetRootBridges(Enabled)
  PROVE  BridgesInStep'
<1> DEFINE B == {Bridge(s) : s \in InUse}
<1>1. /\ seg \in 0 .. 4 /\ DOMAIN rcs = Segs /\ bridges \in Seq(B) /\ paths = Len(bridges)
      /\ Len(bridges) \in Nat
  BY DEF BridgesInStep
<1>2. \A i \in 1 .. Len(bridges) : bridges[i] \in B /\ bridges[i].segment \in InUse
  BY <1>1, BridgeSegment
<1> HIDE DEF B
<1>3. ASSUME NoBridges PROVE BridgesInStep'
  BY <1>1, <1>3 DEF BridgesInStep, NoBridges
<1>4. ASSUME SkipSegment(Enabled) PROVE BridgesInStep'
  BY <1>1, <1>2, <1>4 DEF BridgesInStep, SkipSegment, Segs, InUse
<1>5. ASSUME StartSegment(Enabled) PROVE BridgesInStep'
  <2>1. seg \in InUse /\ seg \in Segs /\ seg' = seg + 1 /\ published' = published /\ paths' = paths + 1
    BY <1>5 DEF StartSegment, Enabled, InUse, Segs
  <2>2. PICK link \in BOOLEAN : rcs' = [rcs EXCEPT ![seg] = PcieInitRc(seg, link)]
    BY <1>5 DEF StartSegment
  <2>3. DOMAIN rcs' = Segs /\ rcs'[seg] = PcieInitRc(seg, link) /\ \A s \in Segs : s # seg => rcs'[s] = rcs[s]
    BY <1>1, <2>1, <2>2
  <2>4. Bridge(seg) \in B /\ Bridge(seg).segment = seg
    BY <2>1, BridgeSegment DEF B
  <2>5. bridges' = Append(bridges, Bridge(seg))
    BY <1>5 DEF StartSegment
  <2>6. /\ bridges' \in Seq(B) /\ Len(bridges') = Len(bridges) + 1 /\ bridges'[Len(bridges) + 1] = Bridge(seg)
        /\ \A i \in 1 .. Len(bridges) : bridges'[i] = bridges[i]
    BY <1>1, <2>4, <2>5
  <2>7. \A i, j \in 1 .. Len(bridges') : i < j => bridges'[i].segment < bridges'[j].segment
    BY <1>1, <2>4, <2>6 DEF BridgesInStep
  <2>8. \A i \in 1 .. Len(bridges') :
          /\ bridges'[i].segment < seg'
          /\ \E l \in BOOLEAN : rcs'[bridges'[i].segment] = PcieInitRc(bridges'[i].segment, l)
    <3> TAKE i \in 1 .. Len(bridges')
    <3>1. CASE i = Len(bridges) + 1
      BY <2>1, <2>3, <2>4, <2>6, <3>1 DEF InUse
    <3>2. CASE i \in 1 .. Len(bridges)
      <4>1. bridges'[i] = bridges[i] /\ bridges[i].segment < seg /\ bridges[i].segment \in InUse
        BY <2>6, <3>2, <1>2 DEF BridgesInStep
      <4>2. rcs'[bridges[i].segment] = rcs[bridges[i].segment]
        BY <2>1, <2>3, <4>1 DEF InUse, Segs
      <4> QED BY <2>1, <3>2, <4>1, <4>2 DEF BridgesInStep, InUse
    <3> QED BY <1>1, <2>6, <3>1, <3>2
  <2>9. published' = {} /\ seg' # 4 /\ seg' # 0 /\ seg' \in 0 .. 4
    BY <2>1 DEF BridgesInStep, InUse
  <2> QED BY <1>1, <2>1, <2>3, <2>6, <2>7, <2>8, <2>9 DEF BridgesInStep, B
<1>6. ASSUME FailSegment(Enabled) PROVE BridgesInStep'
  <2>1. bridges' = <<>> /\ seg' = 4 /\ paths' = 0 /\ published' = {} /\ DOMAIN rcs' = Segs
    BY <1>1, <1>6 DEF FailSegment, BridgesInStep, Segs
  <2> QED BY <2>1 DEF BridgesInStep
<1>7. ASSUME ReturnBridges PROVE BridgesInStep'
  BY <1>1, <1>2, <1>7 DEF BridgesInStep, ReturnBridges, InUse
<1> QED BY <1>3, <1>4, <1>5, <1>6, <1>7 DEF PciHostBridgeGetRootBridges

\* A root bridge, a device path.
LEMMA OnePathEach ==
  ASSUME BridgesInStep, seg = 4
  PROVE  Cardinality(published) = paths
<1> DEFINE n == Len(bridges)
           B == {Bridge(s) : s \in InUse}
<1>1. n \in Nat /\ paths = n /\ published = {bridges[i] : i \in 1 .. n} /\ bridges \in Seq(B)
  BY DEF BridgesInStep
<1>2. bridges \in [1 .. n -> published]
  BY <1>1
<1>3. \A i, j \in 1 .. n : bridges[i] = bridges[j] => i = j
  <2> TAKE i, j \in 1 .. n
  <2>1. bridges[i].segment \in InUse /\ bridges[j].segment \in InUse
    BY <1>1, BridgeSegment
  <2>2. i < j => bridges[i].segment < bridges[j].segment
    BY DEF BridgesInStep
  <2>3. j < i => bridges[j].segment < bridges[i].segment
    BY DEF BridgesInStep
  <2> QED BY <2>1, <2>2, <2>3 DEF InUse
<1> HIDE DEF n, B
<1>4. bridges \in Injection(1 .. n, published)
  BY <1>2, <1>3 DEF Injection, IsInjective
<1>5. bridges \in Surjection(1 .. n, published)
  BY <1>1, <1>2 DEF Surjection
<1>6. ExistsBijection(1 .. n, published)
  BY <1>4, <1>5 DEF ExistsBijection, Bijection
<1> QED BY <1>1, <1>6, FS_CountingElements

\* The registers and the bookkeeping together.
LEMMA BridgesAgree ==
  ASSUME BridgesInStep
  PROVE  WindowsAgree
<1>1. ASSUME NEW b \in published
      PROVE  b = Bridge(b.segment) /\ b.segment \in InUse /\ \E l \in BOOLEAN : rcs[b.segment] = PcieInitRc(b.segment, l)
  <2>1. PICK i \in 1 .. Len(bridges) : b = bridges[i]
    BY <1>1 DEF BridgesInStep
  <2>2. b \in {Bridge(s) : s \in InUse}
    BY <2>1 DEF BridgesInStep
  <2> QED BY <2>1, <2>2, BridgeSegment DEF BridgesInStep
<1>2. ASSUME NEW b \in published PROVE Agrees(rcs[b.segment], b)
  BY <1>1, RegistersDecode DEF WindowsDecode
<1>3. ASSUME NEW b \in published, NEW c \in published \ {b} PROVE Disjoint(rcs[b.segment], rcs[c.segment])
  BY <1>1, RegistersDecode DEF WindowsDecode
<1> QED BY <1>2, <1>3, OnePathEach DEF WindowsAgree

-----------------------------------------------------------------------------
(* The memory given back.                                                  *)

\* A set of naturals has a least one.
LEMMA LeastNat ==
  ASSUME NEW T \in SUBSET Nat, T # {}
  PROVE  \E m \in T : \A n \in T : m <= n
<1> DEFINE R == OpToRel(<, Nat)
<1>1. IsWellFoundedOn(R, Nat)
  BY NatLessThanWellFounded, Zenon
<1> HIDE DEF R
<1>2. PICK m \in T : \A n \in T : ~(<<n, m>> \in R)
  BY <1>1, WFMin
<1>3. \A n \in T : ~(n < m)
  BY <1>2, Zenon DEF R, OpToRel
<1> QED BY <1>3

\* The range the ports' windows span: from the least base to the greatest
\* limit, and never so much that it wraps.
LEMMA RangeSpans ==
  ASSUME WindowsInside, opened # {}
  PROVE  /\ GetPciMem32TotalRange \in Nat \X Nat
         /\ GetPciMem32TotalRange[1] >= Mem32Base
         /\ GetPciMem32TotalRange[2] <= Mem32Size /\ GetPciMem32TotalRange[2] > 0
         /\ \A w \in opened : /\ GetPciMem32TotalRange[1] <= w[1]
                              /\ w[2] < GetPciMem32TotalRange[1] + GetPciMem32TotalRange[2]
<1>1. Mem32Base \in Nat /\ Mem32Base > 0 /\ Mem32Size \in Nat /\ FourGB = Mem32Base + Mem32Size /\ FourGB \in Nat
  BY PcieAssumption DEF FourGB
<1>2. \A w \in opened : /\ w[1] \in Nat /\ w[2] \in Nat /\ Mem32Base <= w[1] /\ w[1] <= w[2] /\ w[2] < FourGB
                        /\ FourGB - w[2] \in Nat
  BY <1>1 DEF WindowsInside
<1> DEFINE Firsts == {w[1] : w \in opened}
           Lasts  == {FourGB - w[2] : w \in opened}
<1>3. Firsts \in SUBSET Nat /\ Firsts # {} /\ Lasts \in SUBSET Nat /\ Lasts # {}
  BY <1>2
<1> HIDE DEF Firsts, Lasts
<1>4. PICK a \in Firsts : \A n \in Firsts : a <= n
  BY <1>3, LeastNat
<1>5. PICK z \in Lasts : \A n \in Lasts : z <= n
  BY <1>3, LeastNat
<1>6. \E w \in opened : \A x \in opened : w[1] <= x[1]
  BY <1>4 DEF Firsts
<1>7. \E w \in opened : \A x \in opened : x[2] <= w[2]
  <2>1. PICK w \in opened : z = FourGB - w[2]
    BY DEF Lasts
  <2>2. \A x \in opened : FourGB - w[2] <= FourGB - x[2]
    BY <1>5, <2>1 DEF Lasts
  <2> QED BY <1>1, <1>2, <2>1, <2>2
<1> DEFINE first == CHOOSE w \in opened : \A x \in opened : w[1] <= x[1]
           last  == CHOOSE w \in opened : \A x \in opened : x[2] <= w[2]
<1>8. first \in opened /\ \A x \in opened : first[1] <= x[1]
  BY <1>6
<1>9. last \in opened /\ \A x \in opened : x[2] <= last[2]
  BY <1>7
<1>10. GetPciMem32TotalRange = <<first[1], (last[2] + 1 - first[1]) % FourGB>>
  BY DEF GetPciMem32TotalRange
<1> HIDE DEF first, last
<1> DEFINE n == last[2] + 1 - first[1]
<1>11. n \in Nat /\ n > 0 /\ n <= Mem32Size /\ n < FourGB
  BY <1>1, <1>2, <1>8, <1>9
<1>12. n % FourGB = n
  <2> HIDE DEF n
  <2> QED BY <1>1, <1>11
<1>13. GetPciMem32TotalRange = <<first[1], n>>
  BY <1>10, <1>12
<1>14. \A w \in opened : first[1] <= w[1] /\ w[2] < first[1] + n
  BY <1>1, <1>2, <1>8, <1>9
<1> HIDE DEF n
<1> QED BY <1>2, <1>8, <1>11, <1>13, <1>14

\* AdjustPciReservedMemory gives back what no window and no space told to the
\* OS uses.
LEMMA Reserved ==
  ASSUME TableTypes, WindowsInside, AdjustPciReservedMemory
  PROVE  /\ pciMem' \in Int \X Int /\ ram' \in Int \X Int
         /\ ram'[2] > 0 => ram'[1] >= Mem32Base /\ ram'[1] + ram'[2] <= FourGB
         /\ IsAcpi =>
              /\ ram'[2] > 0 => \A w \in opened : Apart(Extent(ram'), w)
              /\ ram'[2] > 0 /\ pciMem'[2] > 0 => Apart(Extent(ram'), Extent(pciMem'))
              /\ \A w \in opened : pciMem'[1] <= w[1] /\ w[2] < pciMem'[1] + pciMem'[2]
<1>1. Mem32Base \in Nat /\ Mem32Base > 0 /\ Mem32Size \in Nat /\ FourGB = Mem32Base + Mem32Size /\ FourGB \in Nat
  BY PcieAssumption DEF FourGB
<1> DEFINE range == GetPciMem32TotalRange
           odd   == range[1] < Mem32Base \/ range[2] > Mem32Size
           size  == IF setting.prefer <= Mem32Size /\ range[2] < setting.prefer THEN setting.prefer ELSE range[2]
           start == range[1] + size
           give  == IF ~IsAcpi \/ odd \/ size = 0 THEN <<Mem32Base, Mem32Size>> ELSE <<start, FourGB - start>>
<1>2. /\ pciMem' = IF IsAcpi /\ ~odd THEN <<range[1], size>> ELSE <<Mem32Base, 0>>
      /\ ram' = IF memory > Mem32Base /\ give[2] > 0 THEN give ELSE <<0, 0>>
  BY DEF AdjustPciReservedMemory, ReclaimFrom
<1>3. /\ range[1] \in Nat /\ range[2] \in Nat /\ range[1] >= Mem32Base /\ range[2] <= Mem32Size
      /\ \A w \in opened : range[1] <= w[1] /\ w[2] < range[1] + range[2]
      /\ opened # {} => range[2] > 0
  <2>1. CASE opened = {}
    BY <1>1, <2>1 DEF GetPciMem32TotalRange
  <2>2. CASE opened # {}
    BY <2>2, RangeSpans
  <2> QED BY <2>1, <2>2
<1>4. setting.prefer \in Nat
  BY DEF TableTypes
<1> HIDE DEF range
<1>5. ~odd /\ size \in Nat /\ range[2] <= size /\ size <= Mem32Size
  BY <1>1, <1>3, <1>4
<1> HIDE DEF odd, size
<1>6. start \in Nat /\ start >= Mem32Base
  BY <1>1, <1>3, <1>5
<1>7. \A w \in opened : w[1] \in Nat /\ w[2] \in Nat /\ w[2] < start
  BY <1>1, <1>3, <1>5 DEF WindowsInside
<1>8. pciMem' = IF IsAcpi THEN <<range[1], size>> ELSE <<Mem32Base, 0>>
  BY <1>2, <1>5
<1>9. ram' \in {<<0, 0>>, give} /\ (ram' = give /\ ram' # <<0, 0>> => give[2] > 0)
  BY <1>2
<1>10. ASSUME IsAcpi PROVE /\ give \in {<<Mem32Base, Mem32Size>>, <<start, FourGB - start>>}
                           /\ size # 0 => give = <<start, FourGB - start>>
                           /\ size = 0 => opened = {} /\ pciMem'[2] = 0
  BY <1>3, <1>5, <1>8, <1>10
<1>11. ~IsAcpi => give = <<Mem32Base, Mem32Size>>
  OBVIOUS
<1> HIDE DEF give, start
<1>12. pciMem' \in Int \X Int /\ ram' \in Int \X Int
  BY <1>1, <1>3, <1>5, <1>6, <1>8, <1>9, <1>10, <1>11
<1>13. ram'[2] > 0 => ram'[1] >= Mem32Base /\ ram'[1] + ram'[2] <= FourGB
  BY <1>1, <1>6, <1>9, <1>10, <1>11
<1>14. ASSUME IsAcpi, ram'[2] > 0, size # 0
       PROVE  ram' = <<start, FourGB - start>>
  BY <1>9, <1>10, <1>14
<1>15. ASSUME IsAcpi
       PROVE  /\ ram'[2] > 0 => \A w \in opened : Apart(Extent(ram'), w)
              /\ ram'[2] > 0 /\ pciMem'[2] > 0 => Apart(Extent(ram'), Extent(pciMem'))
  <2>1. CASE size = 0
    BY <1>10, <1>15, <2>1
  <2>2. CASE size # 0 /\ ram'[2] > 0
    <3>1. Extent(ram')[1] = start
      BY <1>14, <1>15, <2>2 DEF Extent
    <3>2. Extent(pciMem')[2] = start - 1
      BY <1>3, <1>5, <1>8, <1>15 DEF Extent, start
    <3> QED BY <1>6, <1>7, <3>1, <3>2 DEF Apart
  <2> QED BY <2>1, <2>2
<1>16. ASSUME IsAcpi PROVE \A w \in opened : pciMem'[1] <= w[1] /\ w[2] < pciMem'[1] + pciMem'[2]
  BY <1>3, <1>5, <1>7, <1>8, <1>16
<1> QED BY <1>12, <1>13, <1>15, <1>16

-----------------------------------------------------------------------------
(* The tables.                                                             *)

\* EcamMode picks one of the ways that are allowed, by the OS.
LEMMA OneMode ==
  ASSUME setting.ecam \in Modes, NEW windows \in BOOLEAN
  PROVE  /\ EcamMode(windows) \in {{"NXPMX6"}, {"GRAVITON"}, {"DEN0115"}}
         /\ EcamMode(windows) = {"DEN0115"} <=> "DEN0115" \in setting.ecam /\ ~(windows /\ "NXPMX6" \in setting.ecam)
         /\ windows /\ "NXPMX6" \in setting.ecam => EcamMode(windows) = {"NXPMX6"}
<1>1. \A x : Cardinality({x}) = 1
  BY FS_Singleton
<1>2. \A x, y : x # y => Cardinality({x, y}) = 2
  <2> TAKE x, y
  <2>1. IsFiniteSet({x}) /\ Cardinality({x}) = 1 /\ {x, y} = {x} \cup {y}
    BY FS_Singleton
  <2>2. x # y => Cardinality({x} \cup {y}) = 1 + 1
    BY <2>1, FS_AddElement
  <2> QED BY <2>1, <2>2
<1>3. CASE setting.ecam \in {{"DEN0115"}, {"NXPMX6"}, {"GRAVITON"}}
  <2>1. EcamMode(windows) = setting.ecam
    BY <1>1, <1>3 DEF EcamMode
  <2> QED BY <1>3, <2>1
<1>4. CASE setting.ecam = {"NXPMX6", "DEN0115"}
  <2>1. Cardinality(setting.ecam) # 1
    <3>1. Cardinality({"NXPMX6", "DEN0115"}) = 2
      BY <1>2
    <3> QED BY <1>4, <3>1
  <2>2. EcamMode(windows) = IF windows THEN {"NXPMX6"} ELSE {"DEN0115"}
    BY <1>4, <2>1 DEF EcamMode
  <2> QED BY <1>4, <2>2
<1>5. CASE setting.ecam = {"NXPMX6", "GRAVITON"}
  <2>1. Cardinality(setting.ecam) # 1
    <3>1. Cardinality({"NXPMX6", "GRAVITON"}) = 2
      BY <1>2
    <3> QED BY <1>5, <3>1
  <2>2. EcamMode(windows) = IF windows THEN {"NXPMX6"} ELSE {"GRAVITON"}
    BY <1>5, <2>1 DEF EcamMode
  <2> QED BY <1>5, <2>2
<1> QED BY <1>3, <1>4, <1>5 DEF Modes

\* The fixups of AcpiOsBootHandler.  Made once, on tables in which only the DSDT
\* was edited, they leave every sum right, and one way to configuration space.
LEMMA Fixups ==
  ASSUME TableTypes, setting.ecam \in Modes, NEW windows \in BOOLEAN, AcpiOsBootHandler(windows)
  PROVE  /\ acpi' \subseteq Tables /\ stale' \subseteq Tables /\ oem' \in {"RPI", "NXPMX6", "AMAZON"}
         /\ aml' \in [Objects \cup {"PBMA"} -> Int]
         /\ \A o \in Objects : aml'[o] = aml[o] /\ (o \in failed' <=> o \in failed)
         /\ sdt = "done" /\ acpi = Tables \ failed /\ stale \subseteq {"DSDT"} /\ aml["PBMA"] = PATCH =>
              /\ stale' = {}
              /\ "MCFG" \in acpi' => aml'["PBMA"] # BUS_MAX
              /\ failed' \cap {"MCFG", "PBMA"} = {} =>
                   /\ "MCFG" \in acpi' <=> aml'["PBMA"] # BUS_MAX
                   /\ aml'["PBMA"] = BUS_MAX <=> EcamMode(windows) = {"DEN0115"}
              /\ EcamMode(windows) = {"NXPMX6"} /\ failed' \cap {"MCFG", "FADT"} = {} => oem' = "NXPMX6"
<1> DEFINE mode == EcamMode(windows)
<1>1. mode \in {{"NXPMX6"}, {"GRAVITON"}, {"DEN0115"}}
  BY OneMode
<1>2. {"NXPMX6"} # {"GRAVITON"} /\ {"NXPMX6"} # {"DEN0115"} /\ {"GRAVITON"} # {"DEN0115"}
  OBVIOUS
<1>3. /\ acpi \subseteq Tables /\ stale \subseteq Tables /\ oem \in {"RPI", "NXPMX6", "AMAZON"}
      /\ aml \in [Objects \cup {"PBMA"} -> Int]
  BY DEF TableTypes
<1>4. BUS_MAX = 255 /\ PATCH = -1 /\ "PBMA" \notin Objects /\ Tables = {"DSDT", "FADT", "MCFG"}
  BY DEF BUS_MAX, PATCH, Objects, Tables
<1>5. CASE sdt \notin {"not opened", "done"}
  BY <1>3, <1>5 DEF AcpiOsBootHandler, acpiVars
<1>6. CASE sdt \in {"not opened", "done"}
  <2>1. PICK patched \in BOOLEAN : AcpiFixupPcieEcam(mode, patched)
    BY <1>6 DEF AcpiOsBootHandler
  <2>2. stale' = (stale \cup (IF EcamFound(mode) THEN {EcamTable(mode), "DSDT"} ELSE {})) \ Resummed(mode)
    BY <1>6 DEF AcpiOsBootHandler
  <2> HIDE DEF mode
  <2>3. EcamTable(mode) = IF mode = {"NXPMX6"} THEN "FADT" ELSE "MCFG"
    BY DEF EcamTable
  <2>4. Resummed(mode) = {"DSDT"} \cup (IF EcamFound(mode) THEN {EcamTable(mode), "MCFG"} ELSE {})
    BY DEF Resummed
  <2>5. stale' \subseteq stale /\ "DSDT" \notin stale'
    BY <2>2, <2>4
  <2>6. CASE ~EcamFound(mode)
    <3>1. UNCHANGED <<acpi, aml, oem, failed>>
      BY <2>1, <2>6 DEF AcpiFixupPcieEcam
    <3>2. acpi = Tables \ failed => "MCFG" \in failed \/ (mode = {"NXPMX6"} /\ "FADT" \in failed)
      BY <1>4, <2>6 DEF EcamFound
    <3> QED BY <1>2, <1>3, <1>4, <2>5, <3>1, <3>2 DEF mode
  <2>7. CASE EcamFound(mode)
    <3>1. /\ oem'  = IF mode = {"NXPMX6"} THEN "NXPMX6" ELSE IF mode = {"GRAVITON"} THEN "AMAZON" ELSE oem
          /\ acpi' = IF mode = {"DEN0115"} THEN acpi \ {"MCFG"} ELSE acpi
          /\ aml'  = IF patched THEN [aml EXCEPT !["PBMA"] = IF mode = {"DEN0115"} THEN BUS_MAX ELSE 0] ELSE aml
          /\ failed' = IF patched THEN failed ELSE failed \cup {"PBMA"}
      BY <2>1, <2>7 DEF AcpiFixupPcieEcam
    <3>2. /\ aml' \in [Objects \cup {"PBMA"} -> Int]
          /\ aml'["PBMA"] = IF patched THEN (IF mode = {"DEN0115"} THEN BUS_MAX ELSE 0) ELSE aml["PBMA"]
          /\ \A o \in Objects : aml'[o] = aml[o]
      BY <1>3, <1>4, <3>1
    <3>3. /\ acpi' \subseteq Tables /\ stale' \subseteq Tables /\ oem' \in {"RPI", "NXPMX6", "AMAZON"}
          /\ \A o \in Objects : o \in failed' <=> o \in failed
      BY <1>3, <1>4, <2>5, <3>1
    <3>4. stale \subseteq {"DSDT"} => stale' = {}
      BY <2>5
    <3>5. "MCFG" \in acpi /\ ("PBMA" \in failed' \/ patched)
      BY <2>7, <3>1 DEF EcamFound
    <3>6. /\ "MCFG" \in acpi' <=> mode # {"DEN0115"}
          /\ mode = {"NXPMX6"} => oem' = "NXPMX6"
      BY <3>1, <3>5
    <3>7. ASSUME aml["PBMA"] = PATCH
          PROVE  /\ "MCFG" \in acpi' => aml'["PBMA"] # BUS_MAX
                 /\ patched => (aml'["PBMA"] = BUS_MAX <=> mode = {"DEN0115"})
      BY <1>4, <3>2, <3>6, <3>7
    <3> QED BY <3>2, <3>3, <3>4, <3>5, <3>6, <3>7 DEF mode
  <2> QED BY <2>6, <2>7
<1> QED BY <1>5, <1>6

\* What is put into the DSDT is a number, and it depends on nothing but the range.
LEMMA WantedIsInt ==
  ASSUME NEW range \in Int \X Int, NEW o \in Objects
  PROVE  Wanted(o, range) \in Int
<1>1. CASE o \in {"PCI0", "PCI1", "PCI2"}
  BY <1>1 DEF Wanted
<1>2. CASE o \in {"SDCM", "SDLU"}
  BY <1>2 DEF Wanted, SD_MODE
<1>3. CASE o = "PBAR"
  BY <1>3 DEF Wanted, RP1_BASE
<1>4. CASE o = "BB32"
  BY <1>4 DEF Wanted
<1>5. CASE o = "MS32"
  BY <1>5 DEF Wanted
<1> QED BY <1>1, <1>2, <1>3, <1>4, <1>5 DEF Objects

-----------------------------------------------------------------------------
(* One lemma an action.                                                    *)

LEMMA TableInitInv == TableInit => TableInv
<1> SUFFICES ASSUME TableInit PROVE TableInv
  OBVIOUS
<1> USE DEF TableInit
<1>1. BridgesInStep
  <2>1. seg = 0 /\ DOMAIN rcs = Segs /\ bridges = <<>> /\ paths = 0 /\ published = {}
    BY DEF PcieInit
  <2> QED BY <2>1 DEF BridgesInStep
<1>2. TableTypes
  <2>1. aml \in [Objects \cup {"PBMA"} -> Int]
    <3>1. aml = [o \in Objects \cup {"PBMA"} |-> PATCH] /\ PATCH \in Int
      BY DEF PATCH
    <3> QED BY <3>1
  <2>2. stored \in [mode : Kinds, prefer : Nat, ecam : Modes \cup {{}}, pcie1 : {"on", "off", "absent"}]
    <3>1. stored \in [mode : {"ACPI", "FDT", "BOTH"}, prefer : Preferred \cup {0}, ecam : Modes \cup {{}},
                      pcie1 : {"on", "off", "absent"}]
      OBVIOUS
    <3>2. Preferred \cup {0} \subseteq Nat
      BY ConfigAssumption
    <3> HIDE DEF TableInit
    <3> QED BY <3>1, <3>2 DEF Kinds
  <2>3. setting \in [mode : Kinds, prefer : Nat, ecam : Modes \cup {{}}, pcie1 : BOOLEAN]
    BY DEF Kinds
  <2>4. pciMem \in Int \X Int /\ ram \in Int \X Int
    OBVIOUS
  <2>5. acpi \subseteq Tables /\ stale \subseteq Tables /\ oem \in {"RPI", "NXPMX6", "AMAZON"}
    OBVIOUS
  <2>6. phase \in {"start", "dxe", "bds", "loader", "os"} /\ exits \in Nat
    OBVIOUS
  <2>7. /\ event \in BOOLEAN /\ rp1 \in BOOLEAN /\ hook \in BOOLEAN
        /\ os \in {"none", "windows", "other"} /\ fixed \in {"none", "windows", "other"}
    OBVIOUS
  <2> HIDE DEF TableInit
  <2> QED BY <2>1, <2>2, <2>3, <2>4, <2>5, <2>6, <2>7 DEF TableTypes
<1>3. WindowsInside
  BY DEF WindowsInside
<1>4. InOrder /\ ApertureNotMemory
  BY DEF InOrder, ApertureNotMemory
<1>5. Described
  <2>1. aml = [o \in Objects \cup {"PBMA"} |-> PATCH]
    OBVIOUS
  <2>2. \A o \in Objects \cup {"PBMA"} : aml[o] = PATCH
    BY <2>1
  <2> QED BY <2>2 DEF Described
<1> QED BY <1>1, <1>2, <1>3, <1>4, <1>5 DEF TableInv

\* The settings are read.
LEMMA EntryPointInv ==
  ASSUME TableInv, RpiPlatformDxeEntryPoint
  PROVE  TableInv'
<1> DEFINE v == [mode |-> stored.mode, prefer |-> stored.prefer,
                 ecam |-> IF stored.ecam = {} THEN EcamDefault ELSE stored.ecam,
                 pcie1 |-> stored.pcie1 # "off"]
<1> USE DEF TableInv
<1>1. /\ phase = "start" /\ setting' = v /\ stored' = [v EXCEPT !.pcie1 = IF v.pcie1 THEN "on" ELSE "off"]
      /\ event' = TRUE /\ hook' = (v.mode \in {"ACPI", "BOTH"}) /\ phase' = "dxe"
      /\ UNCHANGED <<pcieVars, memory, opened, rp1, pciMem, ram, sdt, acpiVars, os, exits, fixed>>
  BY DEF RpiPlatformDxeEntryPoint
<1>2. stored.mode \in Kinds /\ stored.prefer \in Nat /\ stored.ecam \in Modes \cup {{}}
  BY DEF TableTypes
<1>3. v.mode \in Kinds /\ v.prefer \in Nat /\ v.ecam \in Modes /\ v.pcie1 \in BOOLEAN
  BY <1>2 DEF EcamDefault, Modes
<1>4. v \in [mode : Kinds, prefer : Nat, ecam : Modes, pcie1 : BOOLEAN]
  BY <1>3
<1> HIDE DEF v
<1>5. stored' \in [mode : Kinds, prefer : Nat, ecam : Modes \cup {{}}, pcie1 : {"on", "off", "absent"}]
  BY <1>1, <1>4
<1>6. BridgesInStep'
  BY <1>1 DEF BridgesInStep, pcieVars
<1>7. TableTypes'
  BY <1>1, <1>4, <1>5 DEF TableTypes, acpiVars
<1>8. WindowsInside'
  BY <1>1 DEF WindowsInside
<1>9. ram = <<0, 0>> /\ sdt = "none" /\ exits = 0 /\ fixed = "none"
  BY <1>1 DEF InOrder
<1>10. IsAcpi' = (v.mode \in {"ACPI", "BOTH"})
  BY <1>1 DEF IsAcpi
<1>11. InOrder'
  BY <1>1, <1>4, <1>9, <1>10 DEF InOrder
<1>12. ApertureNotMemory'
  BY <1>1, <1>9 DEF ApertureNotMemory
<1>13. Described'
  BY <1>1, <1>9 DEF Described, acpiVars
<1> QED BY <1>6, <1>7, <1>8, <1>11, <1>12, <1>13

LEMMA GetRootBridgesInv ==
  ASSUME TableInv, GetRootBridges
  PROVE  TableInv'
<1> USE DEF TableInv, GetRootBridges, tableVars, acpiVars
<1>1. BridgesInStep'
  BY GetRootBridgesInStep
<1>2. TableTypes' /\ WindowsInside'
  BY DEF TableTypes, WindowsInside
<1>3. InOrder'
  BY DEF InOrder, IsAcpi
<1>4. ApertureNotMemory'
  BY DEF ApertureNotMemory, IsAcpi
<1>5. Described'
  BY DEF Described, Attempted, OneWay
<1> QED BY <1>1, <1>2, <1>3, <1>4, <1>5

\* The windows that are opened lie in the reserved space.
LEMMA EnumerateInv ==
  ASSUME TableInv, Enumerate
  PROVE  TableInv'
<1> USE DEF TableInv
<1>1. PICK ports \in SUBSET {b.segment : b \in published} : \E len \in [ports -> Lengths], sub \in BOOLEAN :
       /\ opened' = UNION {{<<Mem32Base, Mem32Base + len[p] - 1>>}
                             \cup (IF sub THEN {<<Mem32Base + len[p] \div 2, Mem32Base + len[p] - 1>>} ELSE {}) : p \in ports}
       /\ rp1' \in {FALSE, 2 \in ports}
  BY DEF Enumerate
<1>2. PICK len \in [ports -> Lengths], sub \in BOOLEAN :
       /\ opened' = UNION {{<<Mem32Base, Mem32Base + len[p] - 1>>}
                             \cup (IF sub THEN {<<Mem32Base + len[p] \div 2, Mem32Base + len[p] - 1>>} ELSE {}) : p \in ports}
       /\ rp1' \in {FALSE, 2 \in ports}
  BY <1>1
<1>3. /\ phase = "dxe" /\ phase' = "bds"
      /\ UNCHANGED <<pcieVars, stored, setting, memory, event, pciMem, ram, sdt, acpiVars, hook, os, exits, fixed>>
  BY DEF Enumerate
<1>4. WindowsInside'
  <2> SUFFICES ASSUME NEW w \in opened'
               PROVE  w \in Nat \X Nat /\ Mem32Base <= w[1] /\ w[1] <= w[2] /\ w[2] < FourGB
    BY DEF WindowsInside, FourGB
  <2>1. PICK p \in ports : w = <<Mem32Base, Mem32Base + len[p] - 1>>
                           \/ w = <<Mem32Base + len[p] \div 2, Mem32Base + len[p] - 1>>
    BY <1>2
  <2>2. len[p] \in Nat /\ 1 <= len[p] /\ len[p] <= Mem32Size /\ Mem32Base \in Nat /\ Mem32Size \in Nat
    <3>1. len[p] \in Lengths
      OBVIOUS
    <3>2. Lengths \subseteq 1 .. Mem32Size
      BY ConfigAssumption
    <3>3. Mem32Base \in Nat /\ Mem32Size \in Nat
      BY PcieAssumption
    <3>4. \A n \in 1 .. Mem32Size : n \in Nat /\ 1 <= n /\ n <= Mem32Size
      BY <3>3
    <3>5. len[p] \in 1 .. Mem32Size
      BY <3>1, <3>2, Zenon
    <3> QED BY <3>3, <3>4, <3>5
  <2>3. len[p] \div 2 \in Nat /\ len[p] \div 2 <= len[p] - 1
    BY <2>2
  <2> QED BY <2>1, <2>2, <2>3 DEF FourGB
<1>5. event /\ sdt = "none" /\ ram = <<0, 0>> /\ exits = 0 /\ fixed = "none"
  BY <1>3 DEF InOrder
<1>6. BridgesInStep'
  BY <1>3 DEF BridgesInStep, pcieVars
<1>7. rp1' \in BOOLEAN
  <2>1. rp1' = FALSE \/ rp1' = (2 \in ports)
    BY <1>2
  <2>2. (2 \in ports) \in BOOLEAN
    OBVIOUS
  <2> QED BY <2>1, <2>2, Zenon
<1>8. TableTypes'
  BY <1>3, <1>7 DEF TableTypes, acpiVars
<1>9. InOrder'
  BY <1>3, <1>5 DEF InOrder, IsAcpi
<1>10. ApertureNotMemory'
  BY <1>3, <1>5 DEF ApertureNotMemory
<1>11. Described'
  BY <1>3, <1>5 DEF Described, acpiVars
<1> QED BY <1>4, <1>6, <1>8, <1>9, <1>10, <1>11

\* The tables as InstallAcpiTables leaves them.
LEMMA Installed ==
  ASSUME TableTypes, NEW stop \in {"no protocol", "no tables", "no DSDT", "not opened", "done"},
         InstallAcpiTables(stop), pciMem' \in Int \X Int,
         \A o \in Objects : aml[o] = PATCH
  PROVE  /\ acpi' \subseteq Tables /\ stale' \subseteq {"DSDT"} /\ oem' = oem
         /\ aml' \in [Objects \cup {"PBMA"} -> Int] /\ aml'["PBMA"] = aml["PBMA"] /\ "PBMA" \notin failed'
         /\ sdt' = "done" =>
              /\ acpi' = Tables \ failed'
              /\ \A o \in Objects : aml'[o] = IF o \in Attempted \ failed' THEN Wanted(o, pciMem') ELSE PATCH
         /\ sdt' # "done" => \A o \in Objects : aml'[o] = PATCH
<1>1. aml \in [Objects \cup {"PBMA"} -> Int] /\ "PBMA" \notin Objects /\ Attempted \subseteq Objects
  BY DEF TableTypes, Attempted, Objects
<1>2. sdt' = stop /\ oem' = oem
  BY DEF InstallAcpiTables
<1>3. PICK missing \in SUBSET Tables, bad \in SUBSET Attempted :
       /\ stop # "done" => bad = {}
       /\ failed' = missing \cup bad
       /\ acpi' = IF stop \in {"no protocol", "no tables"} THEN {} ELSE Tables \ missing
       /\ aml' = [o \in DOMAIN aml |-> IF stop = "done" /\ o \in Attempted \ bad THEN Wanted(o, pciMem') ELSE aml[o]]
       /\ stale' = IF stop = "done" THEN {"DSDT"} ELSE {}
  BY DEF InstallAcpiTables
<1>4. Tables \cap Objects = {} /\ "PBMA" \notin Tables
  BY DEF Tables, Objects
<1>5. \A o \in Objects \cup {"PBMA"} :
        aml'[o] = IF stop = "done" /\ o \in Attempted \ bad THEN Wanted(o, pciMem') ELSE aml[o]
  BY <1>1, <1>3
<1>6. aml' \in [Objects \cup {"PBMA"} -> Int]
  <2>1. \A o \in Objects : Wanted(o, pciMem') \in Int
    BY WantedIsInt
  <2>2. DOMAIN aml' = Objects \cup {"PBMA"}
    BY <1>1, <1>3
  <2>3. \A o \in Objects \cup {"PBMA"} : aml'[o] \in Int
    BY <1>1, <1>5, <2>1
  <2>4. aml' = [o \in DOMAIN aml' |-> aml'[o]]
    BY <1>3
  <2> QED BY <2>2, <2>3, <2>4
<1>7. /\ acpi' \subseteq Tables /\ stale' \subseteq {"DSDT"} /\ "PBMA" \notin failed'
      /\ aml'["PBMA"] = aml["PBMA"]
  BY <1>1, <1>3, <1>4, <1>5
<1>8. ASSUME stop = "done"
      PROVE  /\ acpi' = Tables \ failed'
             /\ \A o \in Objects : aml'[o] = IF o \in Attempted \ failed' THEN Wanted(o, pciMem') ELSE PATCH
  <2>1. acpi' = Tables \ failed'
    BY <1>1, <1>3, <1>4, <1>8
  <2>2. \A o \in Objects : o \in failed' <=> o \in bad
    BY <1>3, <1>4
  <2> QED BY <1>5, <1>8, <2>1, <2>2
<1>9. stop # "done" => \A o \in Objects : aml'[o] = PATCH
  BY <1>5
<1> QED BY <1>2, <1>6, <1>7, <1>8, <1>9

\* Memory is given back, and the tables are installed for what is left.
LEMMA OnReadyToBootInv ==
  ASSUME TableInv, OnReadyToBoot
  PROVE  TableInv'
<1> USE DEF TableInv
<1>1. /\ phase = "bds" /\ event /\ event' = FALSE /\ AdjustPciReservedMemory
      /\ UNCHANGED <<pcieVars, phase, stored, setting, memory, opened, rp1, hook, os, exits, fixed>>
  BY DEF OnReadyToBoot
<1>2. IF IsAcpi THEN \E stop \in {"no protocol", "no tables", "no DSDT", "not opened", "done"} : InstallAcpiTables(stop)
      ELSE UNCHANGED <<sdt, acpiVars>>
  BY DEF OnReadyToBoot
<1>3. /\ pciMem' \in Int \X Int /\ ram' \in Int \X Int
      /\ ram'[2] > 0 => ram'[1] >= Mem32Base /\ ram'[1] + ram'[2] <= FourGB
      /\ IsAcpi =>
           /\ ram'[2] > 0 => \A w \in opened : Apart(Extent(ram'), w)
           /\ ram'[2] > 0 /\ pciMem'[2] > 0 => Apart(Extent(ram'), Extent(pciMem'))
           /\ \A w \in opened : pciMem'[1] <= w[1] /\ w[2] < pciMem'[1] + pciMem'[2]
  BY <1>1, Reserved
<1>4. /\ exits = 0 /\ fixed = "none" /\ sdt = "none" /\ IsAcpi' = IsAcpi /\ Attempted' = Attempted
      /\ \A o \in Objects : aml[o] = PATCH
      /\ aml["PBMA"] = PATCH /\ "PBMA" \notin failed
  BY <1>1 DEF InOrder, Described, IsAcpi, Attempted
<1>5. /\ acpi' \subseteq Tables /\ stale' \subseteq Tables /\ oem' \in {"RPI", "NXPMX6", "AMAZON"}
      /\ aml' \in [Objects \cup {"PBMA"} -> Int] /\ aml'["PBMA"] = PATCH /\ "PBMA" \notin failed'
      /\ sdt' = "done" =>
           /\ acpi' = Tables \ failed' /\ stale' \subseteq {"DSDT"}
           /\ \A o \in Objects : aml'[o] = IF o \in Attempted \ failed' THEN Wanted(o, pciMem') ELSE PATCH
      /\ sdt' # "done" => \A o \in Objects : aml'[o] = PATCH
  <2>1. oem \in {"RPI", "NXPMX6", "AMAZON"} /\ "DSDT" \in Tables
    BY DEF TableTypes, Tables
  <2>2. CASE IsAcpi
    <3>1. PICK stop \in {"no protocol", "no tables", "no DSDT", "not opened", "done"} : InstallAcpiTables(stop)
      BY <1>2, <2>2
    <3> QED BY <1>3, <1>4, <2>1, <3>1, Installed
  <2>3. CASE ~IsAcpi
    <3>1. UNCHANGED <<sdt, acpiVars>>
      BY <1>2, <2>3
    <3> QED BY <1>4, <3>1 DEF TableTypes, acpiVars
  <2> QED BY <2>2, <2>3
<1>6. BridgesInStep'
  BY <1>1 DEF BridgesInStep, pcieVars
<1>7. TableTypes'
  BY <1>1, <1>3, <1>5 DEF TableTypes
<1>8. WindowsInside'
  BY <1>1 DEF WindowsInside
<1>9. InOrder'
  BY <1>1, <1>4 DEF InOrder
<1>10. ApertureNotMemory'
  <2>1. ram'[2] > 0 => ram'[1] >= Mem32Base /\ ram'[1] + ram'[2] <= FourGB
    BY <1>3
  <2>2. IsAcpi' =>
          /\ ram'[2] > 0 => \A w \in opened' : Apart(Extent(ram'), w)
          /\ ram'[2] > 0 /\ pciMem'[2] > 0 => Apart(Extent(ram'), Extent(pciMem'))
          /\ \A w \in opened' : pciMem'[1] <= w[1] /\ w[2] < pciMem'[1] + pciMem'[2]
    BY <1>1, <1>3, <1>4
  <2> QED BY <2>1, <2>2 DEF ApertureNotMemory
<1>11. Described'
  BY <1>1, <1>4, <1>5 DEF Described
<1> QED BY <1>6, <1>7, <1>8, <1>9, <1>10, <1>11

LEMMA LoaderInv ==
  ASSUME TableInv, LoadOption \/ LoaderReturns
  PROVE  TableInv'
<1> USE DEF TableInv
<1>1. /\ \/ phase = "bds" /\ phase' = "loader" /\ os' \in {"windows", "other"}
         \/ phase = "loader" /\ phase' = "bds" /\ os' = os
      /\ ~event
      /\ UNCHANGED <<pcieVars, stored, setting, memory, opened, rp1, event, pciMem, ram, sdt, acpiVars, hook, exits, fixed>>
  BY DEF LoadOption, LoaderReturns, InOrder
<1>2. IsAcpi' = IsAcpi /\ Attempted' = Attempted
  BY <1>1 DEF IsAcpi, Attempted
<1>3. BridgesInStep'
  BY <1>1 DEF BridgesInStep, pcieVars
<1>4. TableTypes' /\ WindowsInside'
  BY <1>1 DEF TableTypes, WindowsInside, acpiVars
<1>5. InOrder'
  BY <1>1, <1>2 DEF InOrder
<1>6. ApertureNotMemory'
  BY <1>1, <1>2 DEF ApertureNotMemory
<1>7. Described'
  BY <1>1, <1>2 DEF Described, OneWay, acpiVars
<1> QED BY <1>3, <1>4, <1>5, <1>6, <1>7

\* The fixups: the first call makes them, for the OS whose loader makes it, and
\* every later call, of whichever loader, finds the hook gone.
LEMMA ExitBootServicesInv ==
  ASSUME TableInv, AcpiExitBootServicesHook
  PROVE  TableInv'
<1> USE DEF TableInv
<1>1. /\ phase = "loader" /\ hook' = FALSE
      /\ UNCHANGED <<pcieVars, stored, setting, memory, opened, rp1, event, pciMem, ram, sdt, os>>
  BY DEF AcpiExitBootServicesHook
<1>2. (phase' = "os" /\ exits' = exits) \/ (exits' = exits + 1 /\ phase' = "loader")
  BY DEF AcpiExitBootServicesHook
<1>3. \/ hook /\ AcpiOsBootHandler(os = "windows") /\ fixed' = os
      \/ ~hook /\ UNCHANGED <<acpiVars, fixed>>
  BY DEF AcpiExitBootServicesHook
<1>4. /\ IsAcpi' = IsAcpi /\ Attempted' = Attempted /\ ~event /\ setting.ecam \in Modes /\ os \in {"windows", "other"}
      /\ exits \in Nat /\ exits' \in Nat /\ phase' \in {"loader", "os"} /\ (phase' = "os" \/ exits' > 0)
  BY <1>1, <1>2 DEF IsAcpi, Attempted, InOrder, TableTypes
<1>5. BridgesInStep'
  BY <1>1 DEF BridgesInStep, pcieVars
<1>6. WindowsInside'
  BY <1>1 DEF WindowsInside
<1>7. ApertureNotMemory'
  BY <1>1, <1>4 DEF ApertureNotMemory
<1>8. CASE ~hook
  <2>1. UNCHANGED <<acpiVars, fixed>>
    BY <1>3, <1>8
  <2>2. TableTypes'
    BY <1>1, <1>4, <2>1 DEF TableTypes, acpiVars
  <2>3. InOrder'
    BY <1>1, <1>2, <1>4, <1>8, <2>1 DEF InOrder
  <2>4. Described'
    BY <1>1, <1>4, <2>1 DEF Described, OneWay, acpiVars
  <2> QED BY <1>5, <1>6, <1>7, <2>2, <2>3, <2>4
<1>9. CASE hook
  <2>1. AcpiOsBootHandler(os = "windows") /\ fixed' = os /\ fixed = "none" /\ exits = 0
    BY <1>1, <1>3, <1>9 DEF InOrder
  <2> DEFINE windows == os = "windows"
  <2>2. windows \in BOOLEAN /\ AcpiOsBootHandler(windows)
    BY <2>1
  <2> HIDE DEF windows
  <2>3. /\ acpi' \subseteq Tables /\ stale' \subseteq Tables /\ oem' \in {"RPI", "NXPMX6", "AMAZON"}
        /\ aml' \in [Objects \cup {"PBMA"} -> Int]
        /\ \A o \in Objects : aml'[o] = aml[o] /\ (o \in failed' <=> o \in failed)
        /\ sdt = "done" /\ acpi = Tables \ failed /\ stale \subseteq {"DSDT"} /\ aml["PBMA"] = PATCH =>
             /\ stale' = {}
             /\ "MCFG" \in acpi' => aml'["PBMA"] # BUS_MAX
             /\ failed' \cap {"MCFG", "PBMA"} = {} =>
                  /\ "MCFG" \in acpi' <=> aml'["PBMA"] # BUS_MAX
                  /\ aml'["PBMA"] = BUS_MAX <=> EcamMode(windows) = {"DEN0115"}
             /\ EcamMode(windows) = {"NXPMX6"} /\ failed' \cap {"MCFG", "FADT"} = {} => oem' = "NXPMX6"
    BY <1>4, <2>2, Fixups
  <2>4. /\ EcamMode(windows) = {"DEN0115"} <=> "DEN0115" \in setting.ecam /\ ~(windows /\ "NXPMX6" \in setting.ecam)
        /\ windows /\ "NXPMX6" \in setting.ecam => EcamMode(windows) = {"NXPMX6"}
    BY <1>4, <2>2, OneMode
  <2>5. TableTypes'
    BY <1>1, <1>4, <2>1, <2>3 DEF TableTypes
  <2>6. InOrder'
    BY <1>1, <1>2, <1>4, <2>1 DEF InOrder
  <2>7. ASSUME sdt = "done" PROVE stale' = {} /\ OneWay'
    <3>1. acpi = Tables \ failed /\ stale \subseteq {"DSDT"} /\ aml["PBMA"] = PATCH
      BY <2>1, <2>7 DEF Described
    <3>2. windows <=> fixed' = "windows"
      BY <2>1 DEF windows
    <3> QED BY <1>1, <2>3, <2>4, <2>7, <3>1, <3>2 DEF OneWay
  <2>8. \A o \in Objects : o \in Attempted' \ failed' <=> o \in Attempted \ failed
    BY <1>4, <2>3
  <2>9. fixed' # "none" /\ sdt' = sdt /\ pciMem' = pciMem
    BY <1>1, <1>4, <2>1
  <2>10. sdt = "done" => \A o \in Objects : aml'[o] = IF o \in Attempted' \ failed' THEN Wanted(o, pciMem') ELSE PATCH
    BY <2>3, <2>8, <2>9 DEF Described
  <2>11. sdt # "done" => \A o \in Objects : aml'[o] = PATCH
    BY <2>3 DEF Described
  <2>12. Described'
    BY <2>7, <2>9, <2>10, <2>11 DEF Described
  <2> QED BY <1>5, <1>6, <1>7, <2>5, <2>6, <2>12
<1> QED BY <1>8, <1>9

LEMMA TableNextInv ==
  ASSUME TableInv, [TableNext]_platformVars
  PROVE  TableInv'
<1>1. CASE UNCHANGED platformVars
  <2> USE <1>1 DEF platformVars, tableVars, pcieVars, acpiVars
  <2>1. BridgesInStep' /\ TableTypes'
    BY DEF TableInv, BridgesInStep, TableTypes
  <2>2. WindowsInside' /\ InOrder' /\ ApertureNotMemory'
    BY DEF TableInv, WindowsInside, InOrder, ApertureNotMemory, IsAcpi
  <2>3. Described'
    BY DEF TableInv, Described, OneWay, Attempted
  <2> QED BY <2>1, <2>2, <2>3 DEF TableInv
<1> QED BY <1>1, EntryPointInv, GetRootBridgesInv, EnumerateInv, OnReadyToBootInv, LoaderInv,
           ExitBootServicesInv DEF TableNext

\* The platform driver's phases, what was reserved and what was installed stay
\* in step, from its entry point to ExitBootServices.
THEOREM TableInvariant == TableSpec => []TableInv
BY TableInitInv, TableNextInv, PTL DEF TableSpec

\* Whatever the board's memory, the setting and the windows PciBusDxe opened,
\* the memory that AdjustPciReservedMemory gives back is apart from them.
THEOREM MemoryGivenBack == TableSpec => []ApertureNotMemory
<1>1. TableInv => ApertureNotMemory
  BY DEF TableInv
<1> QED BY <1>1, TableInvariant, PTL

\* Whichever tables are missing and updates fail, and however many calls of
\* ExitBootServices failed, of this loader or of one before it: an OS finds the
\* sums of its ACPI tables right, what it is told of PCIe and RP1 right where the
\* update worked, and one way to configuration space: the one for the loader
\* that called first.
THEOREM TablesHandedOver == TableSpec => []TablesWhole
<1>1. TableInv => TablesWhole
  <2> SUFFICES ASSUME TableInv, phase = "os", IsAcpi, sdt = "done"
               PROVE  /\ stale = {}
                      /\ \A o \in Attempted \ failed : aml[o] = Wanted(o, pciMem)
                      /\ \A o \in Objects \ Attempted : aml[o] = PATCH
                      /\ OneWay
                      /\ fixed # "none" /\ (exits = 0 => fixed = os)
    BY DEF TablesWhole
  <2>1. Attempted \subseteq Objects
    BY DEF Attempted
  <2>2. fixed # "none" /\ (exits = 0 => fixed = os)
    BY DEF TableInv, InOrder
  <2> QED BY <2>1, <2>2 DEF TableInv, Described
<1> QED BY <1>1, TableInvariant, PTL

\* Every root bridge PciHostBridgeGetRootBridges returns claims what its root
\* complex decodes, apart from the other one's, and has the one device path.
THEOREM BridgesPublished == TableSpec => []WindowsAgree
<1>1. TableInv => WindowsAgree
  BY BridgesAgree DEF TableInv
<1> QED BY <1>1, TableInvariant, PTL

-----------------------------------------------------------------------------
(* The window of the PCI segment library.                                  *)

\* Bytes in order have their bits in order.
LEMMA SpanOrder ==
  ASSUME NEW a \in Int, NEW b \in Int, a <= b
  PROVE  a * ByteBits \in Int /\ b * ByteBits \in Int /\ a * ByteBits <= b * ByteBits
<1>1. ByteBits \in Nat
  BY PciAssumption
<1>2. (b - a) * ByteBits >= 0
  BY <1>1
<1> QED BY <1>1, <1>2

\* Bits are numbers.
LEMMA BitsAreNumbers ==
  /\ \A reg \in Nat, n \in Nat : Span(reg, n) \subseteq Int
  /\ \A bits \in SUBSET Int, n \in Int : Shift(bits, n) \subseteq Int
  /\ \A w \in Nat : Ones(w) \subseteq Int
BY DEF Span, Shift, Ones

LEMMA ValuesAreNumbers ==
  ASSUME NEW space, NEW reg \in Nat, NEW w \in Nat
  PROVE  Value(space, reg, w) \subseteq Int
<1>1. space \cap Span(reg, w) \subseteq Int
  BY BitsAreNumbers
<1>2. reg * ByteBits \in Int
  BY PciAssumption
<1> QED BY <1>1, <1>2, BitsAreNumbers DEF Value

\* The width of the next access of a buffer: aligned, and no more than is rest.
LEMMA WidthFits ==
  ASSUME NEW reg \in Nat, NEW size \in Nat, size > 0
  PROVE  /\ NextWidth(reg, size) \in {1, 2, 4} /\ NextWidth(reg, size) <= size
         /\ reg % NextWidth(reg, size) = 0
<1>1. CASE reg % 2 = 1
  BY <1>1 DEF NextWidth
<1>2. CASE reg % 2 # 1 /\ size >= 2 /\ (reg % 4 = 2 \/ size < 4)
  BY <1>2 DEF NextWidth
<1>3. CASE reg % 2 # 1 /\ ~(size >= 2 /\ (reg % 4 = 2 \/ size < 4)) /\ size >= 4
  BY <1>3 DEF NextWidth
<1>4. CASE reg % 2 # 1 /\ ~(size >= 2 /\ (reg % 4 = 2 \/ size < 4)) /\ ~(size >= 4)
  BY <1>4 DEF NextWidth
<1> QED BY <1>1, <1>2, <1>3, <1>4

\* The pieces of a buffer: what was seen, the access, the rest.
LEMMA SpanPieces ==
  ASSUME NEW first \in Nat, NEW reg \in Nat, NEW w \in Nat, NEW size \in Nat, first <= reg, w <= size
  PROVE  /\ Span(reg, w) \subseteq Span(first, reg + size - first) \ Span(first, reg - first)
         /\ Span(first, reg - first) \cup Span(reg, w) = Span(first, reg + w - first)
<1> DEFINE f == first * ByteBits
           r == reg * ByteBits
           l == (reg + w) * ByteBits
           e == (reg + size) * ByteBits
<1>1. f \in Int /\ r \in Int /\ l \in Int /\ e \in Int /\ f <= r /\ r <= l /\ l <= e
  BY SpanOrder
<1>2. Span(reg, w) = r .. l - 1
  BY DEF Span
<1>3. Span(first, reg + size - first) = f .. e - 1
  <2>1. first + (reg + size - first) = reg + size
    OBVIOUS
  <2> QED BY <2>1 DEF Span
<1>4. Span(first, reg - first) = f .. r - 1
  <2>1. first + (reg - first) = reg
    OBVIOUS
  <2> QED BY <2>1 DEF Span
<1>5. Span(first, reg + w - first) = f .. l - 1
  <2>1. first + (reg + w - first) = reg + w
    OBVIOUS
  <2> QED BY <2>1 DEF Span
<1> HIDE DEF f, r, l, e
<1> QED BY <1>1, <1>2, <1>3, <1>4, <1>5

\* An access of an operation underway is aligned and covers new bytes.
LEMMA UnderwayFits ==
  ASSUME NEW op \in Operations, op.todo # "done", InPart(op)
  PROVE  Fits(op)
<1>1. CASE op.kind \in {"ReadBuffer", "WriteBuffer"}
  <2>1. op.size > 0 /\ op.w = NextWidth(op.reg, op.size) /\ op.reg \in Nat /\ op.size \in Nat
    BY <1>1 DEF InPart, Operations
  <2>2. PICK first \in 0 .. op.reg :
          op.span = Span(first, op.reg + op.size - first) /\ op.seen = Span(first, op.reg - first)
    BY <1>1 DEF InPart
  <2>3. op.w \in Nat /\ op.w <= op.size /\ op.reg % op.w = 0
    BY <2>1, WidthFits
  <2>4. /\ Span(op.reg, op.w) \subseteq op.span \ op.seen
        /\ op.seen \cup Span(op.reg, op.w) = Span(first, op.reg + op.w - first)
    <3>1. first \in Nat /\ first <= op.reg
      BY <2>1
    <3>2. /\ Span(op.reg, op.w) \subseteq Span(first, op.reg + op.size - first) \ Span(first, op.reg - first)
          /\ Span(first, op.reg - first) \cup Span(op.reg, op.w) = Span(first, op.reg + op.w - first)
      BY <2>1, <2>3, <3>1, SpanPieces
    <3> QED BY <2>2, <3>2
  <2>5. ASSUME op.size <= op.w PROVE Span(op.reg, op.w) \cup op.seen = op.span
    <3>1. op.size = op.w
      BY <2>1, <2>3, <2>5
    <3> QED BY <2>2, <2>4, <3>1
  <2> QED BY <2>3, <2>4, <2>5 DEF Fits
<1>2. CASE op.kind \notin {"ReadBuffer", "WriteBuffer"}
  BY <1>2 DEF InPart, Fits
<1> QED BY <1>1, <1>2

\* An access goes to the function the operation names.
LEMMA PlaceAnswers ==
  ASSUME NEW op \in Operations, op.f \in Functions, op.base = PciSegmentLibGetConfigBase(op.f),
         op.base # "invalid", op.base = "window" => index[op.f[1]] = op.f
  PROVE  Answers(op) = op.f
<1>1. PICK a \in Nat, b \in Nat, d \in Nat, e \in Nat : op.f = <<a, b, d, e>>
  BY DEF Operations
<1>2. (IF op.base = "root" THEN op.f ELSE index[op.f[1]]) = op.f
  BY DEF PciSegmentLibGetConfigBase
<1>3. b = 1 => d = 0
  BY <1>1 DEF PciSegmentLibGetConfigBase
<1> QED BY <1>1, <1>2, <1>3 DEF Answers

\* Operations as they begin.
LEMMA DoneUnderway == Done \in Operations /\ Underway(Done) /\ Done.base = "none" /\ Done.todo = "done"
<1>1. Done \in Operations /\ Done.base = "none"
  <2>1. Span(0, 4) \in SUBSET Int
    BY BitsAreNumbers
  <2> QED BY <2>1 DEF Done, Operation, Operations, Root
<1> QED BY <1>1 DEF Done, Operation, Underway

LEMMA PartUnderway ==
  ASSUME NEW kind \in {"Read", "Or", "And", "Write", "AndThenOr"},
         NEW todo \in {"read", "write"}, NEW w \in {1, 2, 4}, NEW f \in Functions,
         NEW reg \in Registers(w), NEW s \in Int, NEW e \in Int, NEW and \in SUBSET Int, NEW or \in SUBSET Int,
         kind = "Read" => todo = "read", kind # "Read" => f \in Present
  PROVE  LET op == Operation(kind, todo, w, f, reg, s, e, and, or)
         IN op \in Operations /\ Underway(op) /\ op.base = "none"
<1> DEFINE op == Operation(kind, todo, w, f, reg, s, e, and, or)
<1>1. reg \in Nat /\ reg % w = 0 /\ f \in Nat \X Nat \X Nat \X Nat
  BY PciAssumption DEF Registers, Functions
<1>2. op \in Operations /\ op.base = "none"
  <2>1. Span(reg, w) \in SUBSET Int
    BY <1>1, BitsAreNumbers
  <2> QED BY <1>1, <2>1 DEF Operation, Operations
<1>3. /\ op.kind = kind /\ op.todo = todo /\ op.w = w /\ op.f = f /\ op.reg = reg /\ op.size = w
      /\ op.span = Span(reg, w) /\ op.seen = {} /\ op.got = op.want
  BY DEF Operation
<1> HIDE DEF op
<1>4. InPart(op)
  BY <1>1, <1>3 DEF InPart
<1>5. Underway(op)
  BY <1>2, <1>3, <1>4 DEF Underway
<1> QED BY <1>2, <1>5 DEF op

LEMMA BufferUnderway ==
  ASSUME NEW kind \in {"ReadBuffer", "WriteBuffer"}, NEW todo \in {"read", "write"}, NEW f \in Functions,
         NEW reg \in Nat, NEW size \in Nat, size > 0, NEW data \in SUBSET Int,
         kind = "ReadBuffer" => todo = "read", kind # "ReadBuffer" => f \in Present
  PROVE  LET op == Buffer(kind, todo, f, reg, size, data)
         IN op \in Operations /\ Underway(op) /\ op.base = "none"
<1> DEFINE old == Operation(kind, todo, NextWidth(reg, size), f, reg, 0, 0, {}, data)
           op  == Buffer(kind, todo, f, reg, size, data)
<1>1. NextWidth(reg, size) \in {1, 2, 4} /\ f \in Nat \X Nat \X Nat \X Nat /\ Span(reg, size) \in SUBSET Int
  BY WidthFits, BitsAreNumbers, PciAssumption DEF Functions
<1>2. old \in Operations
  <2>1. Span(reg, NextWidth(reg, size)) \in SUBSET Int
    BY <1>1, BitsAreNumbers
  <2> QED BY <1>1, <2>1 DEF Operation, Operations
<1>3. /\ old.kind = kind /\ old.todo = todo /\ old.w = NextWidth(reg, size) /\ old.f = f /\ old.reg = reg
      /\ old.seen = {} /\ old.got = old.want /\ old.base = "none"
  BY DEF Operation
<1>4. op = [old EXCEPT !.size = size, !.span = Span(reg, size)]
  BY DEF Buffer
<1> HIDE DEF old, op
<1>5. op \in Operations
  BY <1>1, <1>2, <1>4 DEF Operations
<1>6. /\ op.kind = kind /\ op.todo = todo /\ op.w = NextWidth(reg, size) /\ op.f = f /\ op.reg = reg
      /\ op.seen = {} /\ op.got = op.want /\ op.base = "none" /\ op.size = size /\ op.span = Span(reg, size)
  BY <1>2, <1>3, <1>4 DEF Operations
<1>7. Span(reg, 0) = {} /\ reg + size - reg = size /\ reg - reg = 0 /\ reg \in 0 .. reg
  <2>1. reg * ByteBits \in Int /\ (reg + 0) * ByteBits = reg * ByteBits
    BY PciAssumption
  <2> QED BY <2>1 DEF Span
<1>8. InPart(op)
  BY <1>6, <1>7 DEF InPart
<1>9. Underway(op)
  BY <1>5, <1>6, <1>8 DEF Underway
<1> QED BY <1>5, <1>6, <1>9 DEF op

\* An operation goes on as it began: a buffer behind the access, a register
\* from the read to the write.
LEMMA AdvanceUnderway ==
  ASSUME NEW op \in Operations, Underway(op), op.todo # "done", NEW todo \in {"write", "done"},
         todo = "write" => op.kind \notin {"Read", "ReadBuffer"}
  PROVE  /\ Advance(op, todo) \in Operations /\ Underway(Advance(op, todo)) /\ Advance(op, todo).base = "none"
<1> DEFINE new == Advance(op, todo)
<1>1. op.f \in Functions /\ InPart(op) /\ op.got = op.want
  BY DEF Underway
<1>2. CASE op.kind \notin {"ReadBuffer", "WriteBuffer"} /\ todo = "done"
  BY <1>2, DoneUnderway DEF Advance
<1>3. CASE op.kind \notin {"ReadBuffer", "WriteBuffer"} /\ todo = "write"
  <2>1. new = [op EXCEPT !.todo = "write", !.base = "none"]
    BY <1>3 DEF Advance
  <2> HIDE DEF new
  <2>2. new \in Operations
    BY <2>1 DEF Operations
  <2>3. /\ new.kind = op.kind /\ new.todo = "write" /\ new.w = op.w /\ new.f = op.f /\ new.reg = op.reg
        /\ new.size = op.size /\ new.span = op.span /\ new.seen = op.seen /\ new.base = "none"
        /\ new.got = op.got /\ new.want = op.want
    BY <2>1 DEF Operations
  <2>4. InPart(new)
    BY <1>1, <1>3, <2>3 DEF InPart
  <2>5. Underway(new)
    BY <1>1, <1>3, <2>3, <2>4 DEF Underway
  <2> QED BY <2>2, <2>3, <2>5 DEF new
<1>4. CASE op.kind \in {"ReadBuffer", "WriteBuffer"} /\ op.size - op.w <= 0
  BY <1>4, DoneUnderway DEF Advance
<1>5. CASE op.kind \in {"ReadBuffer", "WriteBuffer"} /\ ~(op.size - op.w <= 0)
  <2> DEFINE reg  == op.reg + op.w
             rest == op.size - op.w
             seen == op.seen \cup Span(op.reg, op.w)
  <2>1. new = [op EXCEPT !.size = rest, !.reg = reg, !.w = NextWidth(reg, rest), !.seen = seen, !.base = "none"]
    BY <1>5 DEF Advance
  <2>2. /\ op.reg \in Nat /\ op.size \in Nat /\ op.size > 0 /\ op.w = NextWidth(op.reg, op.size)
        /\ op.w \in {1, 2, 4} /\ op.w <= op.size
    BY <1>1, <1>5, WidthFits DEF InPart, Operations
  <2>3. reg \in Nat /\ rest \in Nat /\ rest > 0
    BY <1>5, <2>2
  <2>4. PICK first \in 0 .. op.reg :
          op.span = Span(first, op.reg + op.size - first) /\ op.seen = Span(first, op.reg - first)
    BY <1>1, <1>5 DEF InPart
  <2>5. first \in Nat /\ first <= op.reg /\ first \in 0 .. reg
    BY <2>2
  <2>6. Span(first, op.reg - first) \cup Span(op.reg, op.w) = Span(first, op.reg + op.w - first)
    <3>1. op.w \in Nat /\ op.w <= op.size /\ first \in Nat /\ first <= op.reg
      BY <2>2, <2>5
    <3> HIDE DEF reg, rest, seen, new
    <3> QED BY <2>2, <3>1, SpanPieces
  <2>7. seen = Span(first, reg - first)
    <3>1. reg - first = op.reg + op.w - first
      BY <2>2, <2>5
    <3>2. seen = Span(first, op.reg + op.w - first)
      BY <2>4, <2>6
    <3> QED BY <3>1, <3>2
  <2>8. op.span = Span(first, reg + rest - first)
    <3>1. reg + rest - first = op.reg + op.size - first
      BY <2>2, <2>5
    <3> QED BY <2>4, <3>1
  <2>9. NextWidth(reg, rest) \in {1, 2, 4} /\ seen \in SUBSET Int
    <3>1. op.seen \in SUBSET Int /\ Span(op.reg, op.w) \in SUBSET Int
      BY <2>2, BitsAreNumbers DEF Operations
    <3>2. NextWidth(reg, rest) \in {1, 2, 4}
      BY <2>3, WidthFits
    <3> QED BY <3>1, <3>2
  <2> HIDE DEF new, reg, rest, seen
  <2>10. new \in Operations
    BY <2>1, <2>3, <2>9 DEF Operations
  <2>11. /\ new.kind = op.kind /\ new.todo = op.todo /\ new.w = NextWidth(reg, rest) /\ new.f = op.f
         /\ new.reg = reg /\ new.size = rest /\ new.span = op.span /\ new.seen = seen /\ new.base = "none"
         /\ new.got = op.got /\ new.want = op.want
    BY <2>1, <2>9 DEF Operations
  <2>12. InPart(new)
    BY <1>5, <2>3, <2>5, <2>7, <2>8, <2>11 DEF InPart
  <2>13. Underway(new)
    BY <1>1, <1>5, <2>11, <2>12 DEF Underway
  <2> QED BY <2>10, <2>11, <2>13 DEF new
<1> QED BY <1>2, <1>3, <1>4, <1>5

\* What the two workers do to the operation of the caller, with the lock given
\* back.
LEMMA CallInv ==
  ASSUME PciInv, NEW c \in Callers, NEW op, op \in Operations, Underway(op), op.base = "none",
         call' = [call EXCEPT ![c] = op], index' = index,
         \A d \in Callers : d # c /\ call[d].base # "none" => lock' = d
  PROVE  /\ call' \in [Callers -> Operations] /\ index' \in [Segments -> Nat \X Nat \X Nat \X Nat]
         /\ \A d \in Callers : Underway(call[d])' /\ OnPlace(d)'
<1>1. call'[c] = op /\ \A d \in Callers : d # c => call'[d] = call[d]
  BY DEF PciInv
<1>2. call' \in [Callers -> Operations]
  BY DEF PciInv
<1>3. \A d \in Callers : Underway(call[d])'
  <2>1. \A d \in Callers : Underway(call'[d])
    BY <1>1 DEF PciInv
  <2> QED BY <2>1 DEF Underway, InPart
<1>4. \A d \in Callers : OnPlace(d)'
  BY <1>1 DEF PciInv, OnPlace
<1> QED BY <1>2, <1>3, <1>4 DEF PciInv

\* An operation begins.
LEMMA BeginInv ==
  ASSUME PciInv, NEW c \in Callers, NEW op, op \in Operations, Underway(op), op.base = "none", Begin(c, op)
  PROVE  PciInv'
<1>1. \A d \in Callers : d # c /\ call[d].base # "none" => lock' = d
  BY DEF PciInv, OnPlace, Begin
<1>2. /\ call' \in [Callers -> Operations] /\ index' \in [Segments -> Nat \X Nat \X Nat \X Nat]
      /\ \A d \in Callers : Underway(call[d])' /\ OnPlace(d)'
  BY <1>1, CallInv DEF Begin
<1>3. WindowInvisible'
  BY DEF PciInv, WindowInvisible, Begin
<1> QED BY <1>2, <1>3 DEF PciInv

LEMMA AccessInv ==
  ASSUME PciInv, NEW c \in Callers, NEW w \in {1, 2, 4}, NEW s \in Nat, NEW e \in Nat,
         NEW write \in {"read", "write"}, Access(c, w, s, e, write)
  PROVE  PciInv'
<1>1. known \subseteq Present /\ known \subseteq Functions
  BY DEF PciInv, WindowInvisible, Functions
<1>2. \A m \in Masks(s, e) : m \in SUBSET Int
  BY DEF Masks
<1>3. {} \in SUBSET Int
  OBVIOUS
<1>4. PICK reg \in Registers(w) :
    \/ \E f \in Functions : Begin(c, Operation("Read", "read", w, f, reg, s, e, {}, {}))
    \/ \E f \in known, m \in Masks(s, e) :
         \/ Begin(c, Operation("Or", "read", w, f, reg, s, e, {}, m))
         \/ Begin(c, Operation("And", "read", w, f, reg, s, e, m, {}))
         \/ Begin(c, Operation("Write", write, w, f, reg, s, e, {}, m))
         \/ \E or \in Masks(s, e) : Begin(c, Operation("AndThenOr", "read", w, f, reg, s, e, m, or))
  BY DEF Access
<1>5. ASSUME NEW f \in Functions, NEW op, op = Operation("Read", "read", w, f, reg, s, e, {}, {}), Begin(c, op)
      PROVE  PciInv'
  <2>1. op \in Operations /\ Underway(op) /\ op.base = "none"
    BY <1>3, <1>5, PartUnderway
  <2> QED BY <1>5, <2>1, BeginInv
<1>6. ASSUME NEW f \in known, NEW kind \in {"Or", "And", "Write", "AndThenOr"}, NEW todo \in {"read", "write"},
             NEW and \in SUBSET Int, NEW or \in SUBSET Int, NEW op,
             op = Operation(kind, todo, w, f, reg, s, e, and, or), Begin(c, op)
      PROVE  PciInv'
  <2>1. op \in Operations /\ Underway(op) /\ op.base = "none"
    BY <1>1, <1>6, PartUnderway
  <2> QED BY <1>6, <2>1, BeginInv
<1> QED BY <1>2, <1>3, <1>4, <1>5, <1>6

LEMMA BufferInv ==
  ASSUME PciInv, NEW c \in Callers, PciSegmentReadBuffer(c) \/ PciSegmentWriteBuffer(c)
  PROVE  PciInv'
<1>1. known \subseteq Present /\ known \subseteq Functions
  BY DEF PciInv, WindowInvisible, Functions
<1>2. \A reg \in 0 .. Bytes - 1 : \A size \in 1 .. Bytes - reg : reg \in Nat /\ size \in Nat /\ size > 0
  BY PciAssumption
<1>3. ASSUME PciSegmentReadBuffer(c) PROVE PciInv'
  <2>1. PICK reg \in 0 .. Bytes - 1, f \in Functions : \E size \in 1 .. Bytes - reg :
               Begin(c, Buffer("ReadBuffer", "read", f, reg, size, {}))
    BY <1>3 DEF PciSegmentReadBuffer
  <2>2. PICK size \in 1 .. Bytes - reg : Begin(c, Buffer("ReadBuffer", "read", f, reg, size, {}))
    BY <2>1
  <2> DEFINE op == Buffer("ReadBuffer", "read", f, reg, size, {})
  <2>3. op \in Operations /\ Underway(op) /\ op.base = "none"
    BY <1>2, BufferUnderway
  <2> QED BY <2>2, <2>3, BeginInv
<1>4. ASSUME PciSegmentWriteBuffer(c) PROVE PciInv'
  <2>1. PICK reg \in 0 .. Bytes - 1, f \in known : \E size \in 1 .. Bytes - reg :
               \E data \in {{}, Span(reg, size)} : Begin(c, Buffer("WriteBuffer", "write", f, reg, size, data))
    BY <1>4 DEF PciSegmentWriteBuffer
  <2>2. PICK size \in 1 .. Bytes - reg :
               \E data \in {{}, Span(reg, size)} : Begin(c, Buffer("WriteBuffer", "write", f, reg, size, data))
    BY <2>1
  <2>3. PICK data \in {{}, Span(reg, size)} : Begin(c, Buffer("WriteBuffer", "write", f, reg, size, data))
    BY <2>2
  <2> DEFINE op == Buffer("WriteBuffer", "write", f, reg, size, data)
  <2>4. data \in SUBSET Int /\ reg \in Nat /\ size \in Nat /\ size > 0 /\ f \in Functions /\ f \in Present
    BY <1>1, <1>2, BitsAreNumbers
  <2>5. op \in Operations /\ Underway(op) /\ op.base = "none"
    BY <2>4, BufferUnderway
  <2> QED BY <2>3, <2>5, BeginInv
<1> QED BY <1>3, <1>4

\* The lock is taken, and the window moved.
LEMMA FindBaseInv ==
  ASSUME PciInv, NEW c \in Callers, FindBase(c)
  PROVE  PciInv'
<1> DEFINE f    == call[c].f
           base == PciSegmentLibGetConfigBase(f)
<1>1. /\ call[c] \in Operations /\ Underway(call[c]) /\ call[c].todo # "done" /\ call[c].base = "none"
      /\ call' = [call EXCEPT ![c].base = base] /\ lock' = c /\ MayRun(c)
      /\ index' = IF base = "window" THEN [index EXCEPT ![f[1]] = f] ELSE index
  BY DEF PciInv, FindBase
<1>2. base \in {"invalid", "root", "window"} /\ (base = "window" => f[1] \in Segments)
  BY DEF PciSegmentLibGetConfigBase
<1>3. f \in Nat \X Nat \X Nat \X Nat
  BY <1>1 DEF Operations
<1> HIDE DEF f, base
<1>4. /\ call' \in [Callers -> Operations] /\ call'[c] = [call[c] EXCEPT !.base = base]
      /\ \A d \in Callers : d # c => call'[d] = call[d]
  BY <1>1, <1>2 DEF PciInv, Operations
<1>5. index' \in [Segments -> Nat \X Nat \X Nat \X Nat] /\ (base = "window" => index'[f[1]] = f)
  BY <1>1, <1>2, <1>3 DEF PciInv
<1>6. /\ call'[c].kind = call[c].kind /\ call'[c].todo = call[c].todo /\ call'[c].w = call[c].w
      /\ call'[c].f = call[c].f /\ call'[c].reg = call[c].reg /\ call'[c].size = call[c].size
      /\ call'[c].span = call[c].span /\ call'[c].seen = call[c].seen /\ call'[c].base = base
      /\ call'[c].got = call[c].got /\ call'[c].want = call[c].want
  BY <1>1, <1>4 DEF Operations
<1>7. Underway(call'[c])
  <2>1. call[c].todo # "done" => InPart(call'[c])
    BY <1>1, <1>6 DEF Underway, InPart
  <2> QED BY <1>1, <1>6, <2>1 DEF Underway, f, base
<1>8. \A d \in Callers : d # c => call[d].base = "none"
  BY <1>1 DEF PciInv, OnPlace, MayRun, Callers
<1>9. \A d \in Callers : Underway(call[d])'
  <2>1. \A d \in Callers : Underway(call'[d])
    BY <1>4, <1>7 DEF PciInv
  <2> QED BY <2>1 DEF Underway, InPart
<1>10. \A d \in Callers : OnPlace(d)'
  BY <1>1, <1>4, <1>5, <1>6, <1>8 DEF OnPlace, f
<1>11. WindowInvisible'
  BY DEF PciInv, WindowInvisible, FindBase
<1> QED BY <1>4, <1>5, <1>9, <1>10, <1>11 DEF PciInv

\* Between finding its place and the access nobody else moves the window.
LEMMA InPlace ==
  ASSUME PciInv, NEW c \in Callers, call[c].base # "none", call[c].todo # "done"
  PROVE  /\ call[c] \in Operations /\ Underway(call[c]) /\ Fits(call[c]) /\ call[c].f \in Functions
         /\ \A d \in Callers : d # c => call[d].base = "none"
         /\ call[c].base # "invalid" => Answers(call[c]) = call[c].f
         /\ call[c].f \in Present => call[c].base # "invalid"
<1>1. call[c] \in Operations /\ Underway(call[c]) /\ OnPlace(c)
  BY DEF PciInv
<1>2. call[c].f \in Functions /\ InPart(call[c]) /\ call[c].base = PciSegmentLibGetConfigBase(call[c].f)
  BY <1>1 DEF Underway
<1>3. Fits(call[c])
  BY <1>1, <1>2, UnderwayFits
<1>4. \A d \in Callers : d # c => call[d].base = "none"
  BY <1>1 DEF PciInv, OnPlace
<1>5. call[c].base # "invalid" => Answers(call[c]) = call[c].f
  BY <1>1, <1>2, PlaceAnswers DEF OnPlace
<1>6. call[c].f \in Present => call[c].base # "invalid"
  BY <1>2, PresentAssumption
<1> QED BY <1>1, <1>2, <1>3, <1>4, <1>5, <1>6

\* A read returns what the function it names holds.
LEMMA ReadWorkerInv ==
  ASSUME PciInv, NEW c \in Callers, ReadWorker(c)
  PROVE  PciInv'
<1> DEFINE op   == call[c]
           got  == IF op.base = "invalid" \/ Answers(op) \notin Present THEN Ones(op.w)
                   ELSE Value(cfg[Answers(op)], op.reg, op.w)
           want == IF op.f \in Present THEN Value(direct[op.f], op.reg, op.w) ELSE Ones(op.w)
           next == IF op.kind \in {"Read", "ReadBuffer"} THEN Advance(op, "done")
                   ELSE [Advance(op, "write") EXCEPT !.got = got, !.want = want]
<1>1. /\ op.base # "none" /\ op.todo = "read" /\ lock' = "free"
      /\ call' = [call EXCEPT ![c] = next] /\ exact' = (exact /\ got = want /\ Fits(op))
      /\ known' = IF got # Ones(op.w) THEN known \cup {op.f} ELSE known
      /\ cfg' = cfg /\ index' = index /\ wild' = wild /\ direct' = direct
  BY DEF ReadWorker
<1>2. /\ op \in Operations /\ Underway(op) /\ Fits(op) /\ op.f \in Functions
      /\ \A d \in Callers : d # c => call[d].base = "none"
      /\ op.base # "invalid" => Answers(op) = op.f
      /\ op.f \in Present => op.base # "invalid"
  BY <1>1, InPlace
<1>3. cfg = direct /\ exact /\ known \subseteq Present /\ ~wild
  BY DEF PciInv, WindowInvisible
<1>4. got = want /\ (op.f \notin Present => got = Ones(op.w))
  BY <1>2, <1>3
<1>5. got \in SUBSET Int
  <2>1. op.reg \in Nat /\ op.w \in Nat
    BY <1>2 DEF Operations
  <2> QED BY <2>1, ValuesAreNumbers, BitsAreNumbers
<1> HIDE DEF op, got, want
<1>6. next \in Operations /\ Underway(next) /\ next.base = "none"
  <2>1. CASE op.kind \in {"Read", "ReadBuffer"}
    BY <1>1, <1>2, <2>1, AdvanceUnderway
  <2>2. CASE op.kind \notin {"Read", "ReadBuffer"}
    <3> DEFINE new == Advance(op, "write")
    <3>1. new \in Operations /\ Underway(new) /\ new.base = "none"
      BY <1>1, <1>2, <2>2, AdvanceUnderway
    <3>2. next = [new EXCEPT !.got = got, !.want = want]
      BY <2>2
    <3> HIDE DEF new, next
    <3>3. next \in Operations
      BY <1>4, <1>5, <3>1, <3>2 DEF Operations
    <3>4. /\ next.kind = new.kind /\ next.todo = new.todo /\ next.w = new.w /\ next.f = new.f
          /\ next.reg = new.reg /\ next.size = new.size /\ next.span = new.span /\ next.seen = new.seen
          /\ next.base = new.base /\ next.got = got /\ next.want = want
      BY <3>1, <3>2 DEF Operations
    <3>5. Underway(next)
      BY <1>4, <3>1, <3>4 DEF Underway, InPart
    <3> QED BY <3>1, <3>3, <3>4, <3>5
  <2> QED BY <2>1, <2>2
<1> HIDE DEF next
<1>7. /\ call' \in [Callers -> Operations] /\ index' \in [Segments -> Nat \X Nat \X Nat \X Nat]
      /\ \A d \in Callers : Underway(call[d])' /\ OnPlace(d)'
  BY <1>1, <1>2, <1>6, CallInv
<1>8. WindowInvisible'
  BY <1>1, <1>2, <1>3, <1>4 DEF WindowInvisible
<1> QED BY <1>7, <1>8 DEF PciInv

\* A write changes the function it names, and no other.
LEMMA WriteWorkerInv ==
  ASSUME PciInv, NEW c \in Callers, WriteWorker(c)
  PROVE  PciInv'
<1> DEFINE op == call[c]
           g  == Answers(op)
<1>1. /\ op.base # "none" /\ op.todo = "write" /\ lock' = "free"
      /\ wild' = (wild \/ op.base = "invalid")
      /\ cfg' = IF op.base = "invalid" \/ g \notin Present THEN cfg
                ELSE [cfg EXCEPT ![g] = Put(cfg[g], op.reg, op.w, Data(op, op.got))]
      /\ direct' = IF op.f \notin Present THEN direct
                   ELSE [direct EXCEPT ![op.f] = Put(direct[op.f], op.reg, op.w, Data(op, op.want))]
      /\ call' = [call EXCEPT ![c] = Advance(op, "done")]
      /\ exact' = (exact /\ Fits(op)) /\ index' = index /\ known' = known
  BY DEF WriteWorker
<1>2. /\ op \in Operations /\ Underway(op) /\ Fits(op) /\ op.f \in Functions
      /\ \A d \in Callers : d # c => call[d].base = "none"
      /\ op.base # "invalid" => Answers(op) = op.f
      /\ op.f \in Present => op.base # "invalid"
  BY <1>1, InPlace
<1>3. cfg = direct /\ exact /\ known \subseteq Present /\ ~wild
  BY DEF PciInv, WindowInvisible
<1>4. op.f \in Present /\ op.got = op.want
  BY <1>1, <1>2 DEF Underway
<1>5. g = op.f /\ op.base # "invalid"
  BY <1>2, <1>4
<1> HIDE DEF op, g
<1>6. cfg' = direct'
  BY <1>1, <1>3, <1>4, <1>5
<1>7. Advance(op, "done") \in Operations /\ Underway(Advance(op, "done")) /\ Advance(op, "done").base = "none"
  BY <1>1, <1>2, AdvanceUnderway
<1>8. /\ call' \in [Callers -> Operations] /\ index' \in [Segments -> Nat \X Nat \X Nat \X Nat]
      /\ \A d \in Callers : Underway(call[d])' /\ OnPlace(d)'
  BY <1>1, <1>2, <1>7, CallInv
<1>9. WindowInvisible'
  BY <1>1, <1>2, <1>3, <1>5, <1>6 DEF WindowInvisible
<1> QED BY <1>8, <1>9 DEF PciInv

LEMMA PciInitInv == PciInit => PciInv
<1> SUFFICES ASSUME PciInit PROVE PciInv
  OBVIOUS
<1>1. call \in [Callers -> Operations] /\ \A c \in Callers : call[c] = Done
  BY DoneUnderway DEF PciInit
<1>2. index \in [Segments -> Nat \X Nat \X Nat \X Nat]
  BY DEF PciInit, Segments
<1>3. \A c \in Callers : Underway(call[c]) /\ OnPlace(c)
  BY <1>1, DoneUnderway DEF OnPlace
<1>4. WindowInvisible
  BY DEF PciInit, WindowInvisible
<1> QED BY <1>1, <1>2, <1>3, <1>4 DEF PciInv

LEMMA PciNextInv ==
  ASSUME PciInv, [PciNext]_pciVars
  PROVE  PciInv'
<1>1. ASSUME NEW c \in Callers, NEW w \in {1, 2, 4}, Whole(c, w) \/ Part(c, w)
      PROVE  PciInv'
  <2>1. w * ByteBits - 1 \in Nat /\ w * ByteBits \in Nat
    <3>1. ByteBits \in Nat /\ ByteBits >= 1
      BY PciAssumption
    <3> QED BY <3>1
  <2>2. CASE Whole(c, w)
    BY <2>1, <2>2, AccessInv DEF Whole
  <2>3. CASE Part(c, w)
    <3>1. PICK e \in 0 .. w * ByteBits - 1 : \E s \in 0 .. e : Access(c, w, s, e, "read")
      BY <2>3 DEF Part
    <3>2. PICK s \in 0 .. e : Access(c, w, s, e, "read")
      BY <3>1
    <3>3. e \in Nat /\ s \in Nat
      BY <2>1, <3>1, <3>2
    <3> QED BY <3>2, <3>3, AccessInv
  <2> QED BY <1>1, <2>2, <2>3
<1>2. ASSUME UNCHANGED pciVars PROVE PciInv'
  BY <1>2 DEF PciInv, pciVars, OnPlace, WindowInvisible, Underway, InPart
<1>3. "app" \in Callers /\ "timer" \in Callers
  BY DEF Callers
<1> QED BY <1>1, <1>2, <1>3, BufferInv, FindBaseInv, ReadWorkerInv, WriteWorkerInv
        DEF PciNext, PciSegment8, PciSegmentBitField8, PciSegment16, PciSegmentBitField16,
            PciSegment32, PciSegmentBitField32

\* The moving window of Bcm2712PciSegmentLib is never seen: for configuration
\* spaces and buses of any size, an application and a timer handler that
\* interrupts it anywhere the lock allows each read and write the function
\* they name, buffers included, and nothing goes to PCI_INVALID_ADDRESS.
THEOREM WindowNeverSeen == PciSpec => []WindowInvisible
<1>1. PciInv /\ [PciNext]_pciVars => PciInv'
  BY PciNextInv
<1>2. PciInv => WindowInvisible
  BY DEF PciInv
<1> QED BY PciInitInv, <1>1, <1>2, PTL DEF PciSpec
=============================================================================
