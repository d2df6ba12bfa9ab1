------------------------------ MODULE GemBinding ------------------------------
(***************************************************************************)
(* Binding Rp1GemDxe to its controller (DriverBinding.c): what Start       *)
(* acquires, what each of its failures releases, Stop, and the             *)
(* ExitBootServices event, with clients of the installed SNP between and   *)
(* inside these calls, and a bootloader that may leave the DMA engines on. *)
(***************************************************************************)
EXTENDS Integers, Sequences

CONSTANT MaxFailures   \* bound: calls into the firmware core that fail

ASSUME BindingAssumption == MaxFailures \in Nat

VARIABLES
  held,      \* what the driver holds
  step,      \* what Start acquires next, as an index in Order
  label,     \* the cleanup label Start falls through next
  pc,        \* "idle"; in Start "start", "unwind"; in Stop "quiet", "uninstall", "free"
  up,        \* SNP's State is Initialized
  dma,       \* whose rings the MAC's DMA engines run on: "off", "driver" or "foreign"
  exited,    \* ExitBootServices was called
  failures   \* history: calls that failed

gemVars == <<held, step, label, pc, up, dma, exited, failures>>

-----------------------------------------------------------------------------
\* What Start acquires, in order; desc, rx and tx are GemDmaAlloc's.  The
\* MAC is reset in between, once the device is known to be this one.
Order  == <<"pool", "parent", "reset", "desc", "rx", "tx", "path", "wait", "exit", "child", "link">>
Rings  == {"desc", "rx", "tx"}
Things == {Order[i] : i \in 1 .. Len(Order)} \ {"reset"}

\* The cleanup after Start's labels, and what each part releases.
Labels   == <<"UninstallProtocols", "CloseExitBootServicesEvent", "CloseWaitEvent",
              "FreeDevicePath", "CloseProtocol", "GemDmaFree", "FreePool">>
Releases == <<{"child"}, {"exit"}, {"wait"}, {"path"}, {"parent"}, Rings, {"pool"}>>

\* Mutant: an event that cannot be created jumps one label too far.
OnFailureTooFar(thing) ==
  CASE thing = "link"   -> 1
    [] thing = "child"  -> 2
    [] thing = "exit"   -> 4
    [] thing = "parent" -> 7
    [] OTHER            -> 5

\* Where a failed acquisition jumps to.
OnFailure(thing) ==
  CASE thing = "link"   -> 1
    [] thing = "child"  -> 2
    [] thing = "exit"   -> 3
    [] thing = "wait"   -> 4
    [] thing = "parent" -> 7
    [] OTHER            -> 5

Fail == failures < MaxFailures /\ failures' = failures + 1

GemInit ==
  /\ held = {} /\ step = 1 /\ label = 1
  /\ pc = "idle" /\ up = FALSE
  /\ dma \in {"off", "foreign"}
  /\ exited = FALSE /\ failures = 0

-----------------------------------------------------------------------------
(* Start.                                                                  *)

\* A controller that is bound refuses: the parent is open BY_DRIVER.
Start ==
  /\ pc = "idle" /\ ~exited
  /\ "parent" \notin held
  /\ held' = {"pool"} /\ step' = 2
  /\ pc' = "start"
  /\ UNCHANGED <<label, up, dma, exited, failures>>

\* Mutant: the MAC is left to the first client's Initialize.
MacResetLater ==
  /\ pc = "start" /\ Order[step] = "reset"
  /\ step' = step + 1
  /\ UNCHANGED <<held, label, pc, up, dma, exited, failures>>

\* GemMacReset stops what a previous boot stage left running.
MacReset ==
  /\ pc = "start" /\ Order[step] = "reset"
  /\ dma' = "off"
  /\ step' = step + 1
  /\ UNCHANGED <<held, label, pc, up, exited, failures>>

Acquire ==
  /\ pc = "start" /\ Order[step] # "reset"
  /\ held' = held \cup {Order[step]}
  /\ step' = IF step = Len(Order) THEN 1 ELSE step + 1
  /\ pc' = IF step = Len(Order) THEN "idle" ELSE "start"
  /\ UNCHANGED <<label, up, dma, exited, failures>>

\* The reset is where another device, or one without the two register
\* blocks, is given back.  GemDmaAlloc frees its own allocations first.
AcquireFails ==
  /\ pc = "start"
  /\ Fail
  /\ held' = IF Order[step] \in Rings THEN held \ Rings ELSE held
  /\ label' = OnFailure(Order[step])
  /\ pc' = "unwind"
  /\ UNCHANGED <<step, up, dma, exited>>

\* The labels fall through to the last.
Unwind ==
  /\ pc = "unwind"
  /\ held' = held \ Releases[label]
  /\ IF label = Len(Labels)
       THEN label' = 1 /\ step' = 1 /\ pc' = "idle"
       ELSE label' = label + 1 /\ UNCHANGED <<step, pc>>
  /\ UNCHANGED <<up, dma, exited, failures>>

-----------------------------------------------------------------------------
(* Stop, called with the child first, and then for the controller alone.   *)

\* GemMacDisableTxRx and GemMacReset, whatever SNP's State.
StopChild ==
  /\ pc = "idle" /\ ~exited
  /\ "link" \in held
  /\ dma' = "off"
  /\ pc' = "quiet"
  /\ UNCHANGED <<held, step, label, up, exited, failures>>

CloseChild ==
  /\ pc = "quiet"
  /\ held' = held \ {"link"}
  /\ pc' = "uninstall"
  /\ UNCHANGED <<step, label, up, dma, exited, failures>>

\* The core first disconnects the clients of SNP, which shut it down.
Uninstall ==
  /\ pc = "uninstall"
  /\ up' = FALSE
  /\ dma' = IF up THEN "off" ELSE dma
  /\ held' = held \ {"child"}
  /\ pc' = "free"
  /\ UNCHANGED <<step, label, exited, failures>>

\* A client that does not let go: the link to the child comes back.
UninstallFails ==
  /\ pc = "uninstall"
  /\ Fail
  /\ held' = held \cup {"link"}
  /\ pc' = "idle"
  /\ UNCHANGED <<step, label, up, dma, exited>>

StopFree ==
  /\ pc = "free"
  /\ held' = held \ (Rings \cup {"exit", "wait", "path", "pool"})
  /\ pc' = "idle"
  /\ UNCHANGED <<step, label, up, dma, exited, failures>>

\* The core calls this when it knows of no child.
StopController ==
  /\ pc = "idle" /\ ~exited
  /\ "parent" \in held /\ "link" \notin held
  /\ held' = held \ {"parent"}
  /\ UNCHANGED <<step, label, pc, up, dma, exited, failures>>

-----------------------------------------------------------------------------
(* Clients of SNP, and the operating system's loader.                      *)

\* Clients come once Start has returned; their timers may call inside Stop.
Client == "child" \in held /\ pc \in {"idle", "quiet", "uninstall"} /\ ~exited

Initialize ==
  /\ Client /\ ~up
  /\ up' = TRUE /\ dma' = "driver"
  /\ UNCHANGED <<held, step, label, pc, exited, failures>>

Shutdown ==
  /\ Client /\ up
  /\ up' = FALSE /\ dma' = "off"
  /\ UNCHANGED <<held, step, label, pc, exited, failures>>

\* Without the event nobody stops the MAC.
NotifyExitBootServices ==
  /\ pc = "idle" /\ ~exited
  /\ exited' = TRUE
  /\ dma' = IF "exit" \in held THEN "off" ELSE dma
  /\ UNCHANGED <<held, step, label, pc, up, failures>>

-----------------------------------------------------------------------------
(* Properties.                                                             *)

\* Whatever failed, between two calls the driver is bound, with everything
\* it needs, or its child is stopped, or it holds nothing.
AllOrNothing == pc = "idle" => held \in {Things, {"parent"}, {}}

\* The DMA engines never run on memory that was given back: not the last
\* stage's rings while this driver has its own, not this driver's once any
\* of it is freed or the operating system owns it.
DmaOnOwnMemory ==
  /\ dma = "driver" => Rings \subseteq held
  /\ dma = "foreign" => held \cap Rings = {}
  /\ exited => dma # "driver"

\* What makes the two inductive: where a call is says what is held, and the
\* driver's rings are in use only while its client is up.
GemTypeOK ==
  /\ held \subseteq Things /\ step \in 1 .. Len(Order) /\ label \in 1 .. Len(Labels)
  /\ pc \in {"idle", "start", "unwind", "quiet", "uninstall", "free"}
  /\ up \in BOOLEAN /\ dma \in {"off", "driver", "foreign"}
  /\ exited \in BOOLEAN /\ failures \in 0 .. MaxFailures
HeldAtStep ==
  /\ pc = "start" => step > 1 /\ held = {Order[i] : i \in 1 .. step - 1} \ {"reset"}
  /\ pc = "unwind" => held \subseteq UNION {Releases[i] : i \in label .. Len(Labels)}
  /\ pc = "quiet" => held = Things
  /\ pc = "uninstall" => held = Things \ {"link"}
  /\ pc = "free" => held = Things \ {"link", "child"}
RingsInUse ==
  /\ dma = "driver" => up
  /\ up => "child" \in held /\ pc \in {"idle", "quiet", "uninstall"}
  /\ pc = "start" /\ dma = "foreign" => step <= 3
  /\ exited => pc = "idle"

GemInv == GemTypeOK /\ AllOrNothing /\ HeldAtStep /\ RingsInUse /\ DmaOnOwnMemory
=============================================================================
