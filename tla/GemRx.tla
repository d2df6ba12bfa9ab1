-------------------------------- MODULE GemRx --------------------------------
(***************************************************************************)
(* The receive ring of Rp1GemDxe (GemHw.c, driven by Snp.c): GemReceive-   *)
(* Frame walks the ring under the SNP lock while the MAC's DMA engine      *)
(* stores frames.  The driver's accesses to shared memory are separate     *)
(* steps, and so are the engine's writes of data and of the descriptor.    *)
(***************************************************************************)
EXTENDS Integers

CONSTANTS RxCount,   \* GEM_RX_DESC_COUNT
          Frames,    \* contents a frame can have
          NoFrame    \* contents of a buffer never written

ASSUME RxAssumption == RxCount \in Nat \ {0} /\ NoFrame \notin Frames

VARIABLES
  State,      \* SnpMode.State, from EfiSimpleNetworkStarted upwards
  pc,         \* where the driver is in GemReceiveFrame
  fits,       \* the caller's buffer is large enough for any frame
  status,     \* the local Ctrl: the control word read from the descriptor
  got,        \* what CopyMem put in the caller's buffer
  RxHead,
  own, wrap,  \* OWN and WRAP bits of each RX descriptor's address word
  ctrl,       \* each descriptor's control word
  data,       \* each descriptor's packet buffer
  dmaOn,      \* RX_EN
  storing,    \* the engine is writing frame data into slot hwSlot
  hwSlot,     \* the descriptor the engine fills next
  delivered   \* the last frame returned to the client

callVars == <<State, fits, status, got, RxHead>>
hwVars   == <<dmaOn, storing, hwSlot>>
ringVars == <<own, wrap, ctrl, data>>
vars     == <<callVars, pc, ringVars, hwVars, delivered>>

-----------------------------------------------------------------------------
Slots   == 0 .. RxCount - 1
\* "good": SOF, EOF and a length in range; "bad": anything else the MAC can
\* write back; "clear": zero.
Written == {"good", "bad"}

Init ==
  /\ State = "Started"
  /\ pc = "idle"
  /\ fits = TRUE
  /\ status = "clear"
  /\ got = NoFrame
  /\ RxHead = 0
  /\ own \in [Slots -> BOOLEAN]
  /\ wrap \in [Slots -> BOOLEAN]
  /\ ctrl = [i \in Slots |-> "clear"]
  /\ data = [i \in Slots |-> NoFrame]
  /\ dmaOn = FALSE /\ storing = FALSE
  /\ hwSlot = 0
  /\ delivered = NoFrame

-----------------------------------------------------------------------------
(* The driver.                                                             *)

GemInitRings ==
  /\ own' = [i \in Slots |-> FALSE]
  /\ wrap' = [i \in Slots |-> i = RxCount - 1]
  /\ ctrl' = [i \in Slots |-> "clear"]
  /\ RxHead' = 0
  /\ hwSlot' = 0

\* Rp1GemSnpInitialize; RX_EN is set only once the PHY has answered.
Initialize(phyAnswers) ==
  /\ State = "Started"
  /\ GemInitRings
  /\ State' = IF phyAnswers THEN "Initialized" ELSE State
  /\ dmaOn' = phyAnswers
  /\ storing' = FALSE
  /\ UNCHANGED <<pc, fits, status, got, data, delivered>>

\* Rp1GemSnpShutdown clears RX_EN; the ring memory stays as it is.
Shutdown ==
  /\ State = "Initialized"
  /\ pc = "idle"
  /\ State' = "Started"
  /\ dmaOn' = FALSE
  /\ storing' = FALSE
  /\ UNCHANGED <<pc, fits, status, got, RxHead, ringVars, hwSlot, delivered>>

\* Rp1GemSnpReceive takes the lock and enters GemReceiveFrame.
ReceiveCall(large) ==
  /\ State = "Initialized"
  /\ pc = "idle"
  /\ fits' = large
  /\ pc' = "poll"
  /\ UNCHANGED <<State, status, got, RxHead, ringVars, hwVars, delivered>>

\* Mutant: OWN is not looked at.
PollNothing ==
  /\ pc = "poll"
  /\ pc' = "status"
  /\ UNCHANGED <<callVars, ringVars, hwVars, delivered>>

\* The top of the loop: EFI_NOT_READY when OWN is clear.
PollOwn ==
  /\ pc = "poll"
  /\ pc' = IF own[RxHead] THEN "status" ELSE "idle"
  /\ UNCHANGED <<callVars, ringVars, hwVars, delivered>>

\* What follows a status: recycle, copy or return.  Mutants: a bad frame is
\* left in place; one too long for the caller is dropped.
AfterStatusKeepsBad(s) == IF s = "good" /\ fits THEN "copy" ELSE "idle"
AfterStatusDropsLong(s) == IF s = "good" /\ fits THEN "copy" ELSE "recycle"
AfterStatus(s) == IF s # "good" THEN "recycle" ELSE IF fits THEN "copy" ELSE "idle"

\* A bad frame is recycled at once; EFI_BUFFER_TOO_SMALL keeps the frame.
ReadStatus ==
  /\ pc = "status"
  /\ status' = ctrl[RxHead]
  /\ pc' = AfterStatus(status')
  /\ UNCHANGED <<State, fits, got, RxHead, ringVars, hwVars, delivered>>

CopyFrame ==
  /\ pc = "copy"
  /\ got' = data[RxHead]
  /\ pc' = "recycle"
  /\ UNCHANGED <<State, fits, status, RxHead, ringVars, hwVars, delivered>>

\* GemRecycleRxDescriptor: control word, OWN, cursor, with fences between.
RecycleCtrl ==
  /\ pc = "recycle"
  /\ ctrl' = [ctrl EXCEPT ![RxHead] = "clear"]
  /\ pc' = "release"
  /\ UNCHANGED <<callVars, own, wrap, data, hwVars, delivered>>

RecycleOwn ==
  /\ pc = "release"
  /\ own' = [own EXCEPT ![RxHead] = FALSE]
  /\ pc' = "advance"
  /\ UNCHANGED <<callVars, wrap, ctrl, data, hwVars, delivered>>

NextRx == (RxHead + 1) % RxCount

\* After a bad frame the loop goes round; after a good one the call returns.
RecycleAdvance ==
  /\ pc = "advance"
  /\ RxHead' = NextRx
  /\ pc' = IF status = "good" THEN "idle" ELSE "poll"
  /\ delivered' = IF status = "good" THEN got ELSE delivered
  /\ UNCHANGED <<State, fits, status, got, ringVars, hwVars>>

-----------------------------------------------------------------------------
(* The DMA engine (Cadence GEM), as the driver relies on it.  A frame that *)
(* finds its descriptor still owned by software is discarded (DISC_WHEN_-  *)
(* NO_AHB), which changes nothing here.                                    *)

HwStore(f) ==
  /\ dmaOn /\ ~storing
  /\ ~own[hwSlot]
  /\ data' = [data EXCEPT ![hwSlot] = f]
  /\ storing' = TRUE
  /\ UNCHANGED <<callVars, pc, own, wrap, ctrl, dmaOn, hwSlot, delivered>>

HwWriteBack(s) ==
  /\ dmaOn /\ storing
  /\ own' = [own EXCEPT ![hwSlot] = TRUE]
  /\ ctrl' = [ctrl EXCEPT ![hwSlot] = s]
  /\ hwSlot' = IF wrap[hwSlot] THEN 0 ELSE hwSlot + 1
  /\ storing' = FALSE
  /\ UNCHANGED <<callVars, pc, wrap, data, dmaOn, delivered>>

-----------------------------------------------------------------------------
Receiving == PollOwn \/ ReadStatus \/ CopyFrame \/ RecycleCtrl \/ RecycleOwn \/ RecycleAdvance

Next ==
  \/ \E ok \in BOOLEAN : Initialize(ok)
  \/ Shutdown
  \/ \E large \in BOOLEAN : ReceiveCall(large)
  \/ Receiving
  \/ \E f \in Frames : HwStore(f)
  \/ \E s \in Written : HwWriteBack(s)

\* The code in progress runs on, and the client keeps calling Receive, again
\* and again with a buffer of the size EFI_BUFFER_TOO_SMALL asked for.
Fairness == WF_vars(Receiving) /\ SF_vars(ReceiveCall(TRUE))

Spec == Init /\ [][Next]_vars
FairSpec == Spec /\ Fairness

-----------------------------------------------------------------------------
(* Properties.                                                             *)

Ahead(i, j) == IF j >= i THEN j - i ELSE j - i + RxCount
After(i)    == IF i = RxCount - 1 THEN 0 ELSE i + 1

\* The oldest frame not yet given back, and how many frames are stored.
Front == IF pc = "advance" THEN After(RxHead) ELSE RxHead
Pending ==
  IF ~own[Front] THEN 0
  ELSE IF Ahead(Front, hwSlot) = 0 THEN RxCount ELSE Ahead(Front, hwSlot)

TypeOK ==
  /\ State \in {"Started", "Initialized"}
  /\ pc \in {"idle", "poll", "status", "copy", "recycle", "release", "advance"}
  /\ fits \in BOOLEAN
  /\ status \in Written \cup {"clear"}
  /\ got \in Frames \cup {NoFrame}
  /\ RxHead \in Slots
  /\ own \in [Slots -> BOOLEAN]
  /\ wrap \in [Slots -> BOOLEAN]
  /\ ctrl \in [Slots -> Written \cup {"clear"}]
  /\ data \in [Slots -> Frames \cup {NoFrame}]
  /\ dmaOn \in BOOLEAN /\ storing \in BOOLEAN
  /\ hwSlot \in Slots
  /\ delivered \in Frames \cup {NoFrame}

\* The driver and the engine agree on which frames are waiting: they fill the
\* ring from the driver's front up to the engine's position, without a gap.
RxInStep ==
  State = "Initialized" =>
    /\ \A i \in Slots : own[i] <=> Ahead(Front, i) < Pending
    /\ Pending = 0 => hwSlot = Front

\* The driver never copies a packet buffer the engine may be writing.
NoTornCopy ==
  pc \in {"status", "copy", "recycle"} => own[RxHead] /\ ~(storing /\ hwSlot = RxHead)

\* A descriptor given back has its old status erased, and no status the
\* engine wrote is erased before the driver has read it.
StatusFresh ==
  State = "Initialized" =>
    \A i \in Slots :
      ctrl[i] # "clear" <=> own[i] /\ ~(pc = "release" /\ i = RxHead)

\* What makes the properties above inductive: the enable bits, the call in
\* progress and the engine's write in progress agree with the descriptors.
EngineInStep ==
  /\ State = "Initialized" <=> dmaOn
  /\ State = "Initialized" => \A i \in Slots : wrap[i] <=> i = RxCount - 1
  /\ storing => dmaOn /\ ~own[hwSlot]
  /\ pc # "idle" => State = "Initialized"
  /\ pc \in {"status", "copy", "recycle", "release"} => own[RxHead]

IInv == TypeOK /\ EngineInStep /\ RxInStep /\ NoTornCopy /\ StatusFresh

\* A stored frame does not block the ring: it is eventually handed over or
\* dropped and the driver moves on (or the interface is shut down).
HeadMovesOn ==
  \A i \in Slots :
    (State = "Initialized" /\ RxHead = i /\ own[i]) ~> (RxHead # i \/ State = "Started")

\* The call in progress remembers what its descriptor holds, and the engine
\* what it stores, which the refinement below needs.
CallInPlace ==
  /\ pc \in {"copy", "recycle"} => status = ctrl[RxHead]
  /\ pc = "copy" => status = "good"
  /\ pc \in {"recycle", "release"} /\ status = "good" => got = data[RxHead]
  /\ storing => data[hwSlot] \in Frames

\* The ring implements the FIFO.  A frame leaves it when OWN is cleared.
SlotAt(k) == IF Front + k < RxCount THEN Front + k ELSE Front + k - RxCount
FifoUp == State = "Initialized"
FifoEntry(k) ==
  [frame |-> data[SlotAt(k - 1)],
   good  |-> IF pc = "release" /\ k = 1 THEN status = "good" ELSE ctrl[SlotAt(k - 1)] = "good"]
FifoPending == IF FifoUp THEN [k \in 1 .. Pending |-> FifoEntry(k)] ELSE <<>>
FifoDelivered == IF pc = "advance" /\ status = "good" THEN got ELSE delivered

Fifo == INSTANCE GemRxFifo WITH
  Depth <- RxCount, up <- FifoUp, pending <- FifoPending, delivered <- FifoDelivered

\* Received frames reach the client in order, once, unchanged, and frames
\* with a bad status never do.
ImplementsFifo == Fifo!Spec
=============================================================================
