-------------------------------- MODULE GemTx --------------------------------
(***************************************************************************)
(* The transmit ring of Rp1GemDxe (GemHw.c, driven by Snp.c): one driver,  *)
(* which runs ring code under the SNP lock at TPL_CALLBACK, against one    *)
(* DMA engine, which runs whenever it is enabled.  The driver's accesses   *)
(* to memory the DMA engine also touches are separate steps.               *)
(***************************************************************************)
EXTENDS Integers

CONSTANTS TxCount,     \* GEM_TX_DESC_COUNT
          CounterMod,  \* TxProd and TxCons wrap here (2^16 in the code)
          Buffers,     \* the SNP client's transmit buffers
          NoBuffer,    \* a NULL TxUserBuffer entry
          Frames,      \* contents a frame can have
          NoFrame      \* contents of a bounce buffer never written

\* The descriptor index is the counter modulo the ring size, so the counters
\* must wrap on a ring boundary, and a full ring must not look empty.
ASSUME TxAssumption ==
  /\ TxCount \in Nat \ {0}
  /\ CounterMod \in Nat
  /\ CounterMod % TxCount = 0
  /\ CounterMod > TxCount
  /\ NoBuffer \notin Buffers
  /\ NoFrame \notin Frames

VARIABLES
  State,         \* SnpMode.State, from EfiSimpleNetworkStarted upwards
  pc,            \* where the driver is in GemTransmitFrame
  cur,           \* the buffer and frame of the Transmit call in progress
  used, wrap,    \* USED and WRAP bits of each TX descriptor's control word
  bounce,        \* contents of each descriptor's bounce buffer
  TxUserBuffer, TxProd, TxCons,
  dma,           \* "off": TX_EN clear; "idle": halted; "active": fetching
  hwSlot,        \* the descriptor the DMA engine looks at next
  clientBufs,    \* the buffers the client may touch
  wire           \* the last frame put on the wire

driverVars == <<State, pc, cur, TxUserBuffer, TxProd, TxCons>>
ringVars   == <<used, wrap, bounce>>
hwVars     == <<dma, hwSlot, wire>>
vars       == <<driverVars, ringVars, hwVars, clientBufs>>

-----------------------------------------------------------------------------
Slots    == 0 .. TxCount - 1
HeadSlot == TxProd % TxCount
TailSlot == TxCons % TxCount

\* (UINT16)(TxProd - TxCons)
InFlight == (TxProd - TxCons) % CounterMod

Inc(counter) == (counter + 1) % CounterMod

NoCur == [buf |-> NoBuffer, frame |-> NoFrame]

\* The ring lives in DMA memory nobody clears before GemInitRings.
Init ==
  /\ State = "Started"
  /\ pc = "idle"
  /\ cur = NoCur
  /\ used \in [Slots -> BOOLEAN]
  /\ wrap \in [Slots -> BOOLEAN]
  /\ bounce = [i \in Slots |-> NoFrame]
  /\ TxUserBuffer = [i \in Slots |-> NoBuffer]
  /\ TxProd = 0 /\ TxCons = 0
  /\ dma = "off"
  /\ hwSlot = 0
  /\ clientBufs = Buffers
  /\ wire = NoFrame

-----------------------------------------------------------------------------
(* The driver.                                                             *)

\* Mutant: the buffers of the last session are left in place.
InitRingsOldBuffers ==
  /\ used' = [i \in Slots |-> TRUE]
  /\ wrap' = [i \in Slots |-> i = TxCount - 1]
  /\ TxProd' = 0 /\ TxCons' = 0 /\ hwSlot' = 0 /\ UNCHANGED TxUserBuffer

GemInitRings ==
  /\ used' = [i \in Slots |-> TRUE]
  /\ wrap' = [i \in Slots |-> i = TxCount - 1]
  /\ TxUserBuffer' = [i \in Slots |-> NoBuffer]
  /\ TxProd' = 0
  /\ TxCons' = 0
  /\ hwSlot' = 0

\* Rp1GemSnpInitialize: rings first, then the PHY; a PHY that does not
\* answer leaves the transmitter off and the interface Started.
Initialize(phyAnswers) ==
  /\ State = "Started"
  /\ GemInitRings
  /\ State' = IF phyAnswers THEN "Initialized" ELSE State
  /\ dma' = IF phyAnswers THEN "idle" ELSE "off"
  /\ UNCHANGED <<pc, cur, bounce, clientBufs, wire>>

\* Rp1GemSnpShutdown: GemMacDisableTxRx and GemMacReset. The ring memory and
\* TxUserBuffer are left as they are. A client that shuts the interface down
\* takes its buffers back, for none will be returned to it.
Shutdown ==
  /\ State = "Initialized"
  /\ pc = "idle"
  /\ State' = "Started"
  /\ dma' = "off"
  /\ clientBufs' = Buffers
  /\ UNCHANGED <<pc, cur, TxUserBuffer, TxProd, TxCons, ringVars, hwSlot, wire>>

\* Mutant: one more frame than there are slots.
RoomOffByOne == ~(InFlight > TxCount)
Room == ~(InFlight >= TxCount)

\* GemTransmitFrame step 1: room check, then copy into the bounce buffer.
TransmitCopy(b, f) ==
  /\ State = "Initialized"
  /\ pc = "idle"
  /\ b \in clientBufs
  /\ Room
  /\ bounce' = [bounce EXCEPT ![HeadSlot] = f]
  /\ cur' = [buf |-> b, frame |-> f]
  /\ pc' = "copied"
  /\ UNCHANGED <<State, TxUserBuffer, TxProd, TxCons, used, wrap, hwVars, clientBufs>>

\* Step 2: writing the control word clears USED and hands the slot over.
TransmitPublish ==
  /\ pc = "copied"
  /\ used' = [used EXCEPT ![HeadSlot] = FALSE]
  /\ wrap' = [wrap EXCEPT ![HeadSlot] = (HeadSlot = TxCount - 1)]
  /\ pc' = "published"
  /\ UNCHANGED <<State, cur, TxUserBuffer, TxProd, TxCons, bounce, hwVars, clientBufs>>

\* Step 3: bookkeeping.
TransmitBook ==
  /\ pc = "published"
  /\ TxUserBuffer' = [TxUserBuffer EXCEPT ![HeadSlot] = cur.buf]
  /\ TxProd' = Inc(TxProd)
  /\ pc' = "booked"
  /\ UNCHANGED <<State, cur, TxCons, ringVars, hwVars, clientBufs>>

\* START_TX wakes an enabled engine.  Mutant: only for an empty ring.
StartTxWhenEmpty == IF dma = "off" \/ InFlight > 1 THEN dma ELSE "active"
StartTx == IF dma = "off" THEN "off" ELSE "active"

\* Step 4: START_TX, and the call returns: the buffer is the driver's now.
TransmitKick ==
  /\ pc = "booked"
  /\ dma' = StartTx
  /\ clientBufs' = clientBufs \ {cur.buf}
  /\ cur' = NoCur
  /\ pc' = "idle"
  /\ UNCHANGED <<State, TxUserBuffer, TxProd, TxCons, ringVars, hwSlot, wire>>

\* The oldest frame is done with.  Mutant: USED is not looked at.
CompletedUnread == TxCons # TxProd
Completed == TxCons # TxProd /\ used[TailSlot]

\* GemGetRecycledTxBuffer, called by GetStatus: at most one buffer a call.
GetRecycledTxBuffer ==
  /\ State = "Initialized"
  /\ pc = "idle"
  /\ Completed
  /\ clientBufs' = clientBufs \cup {TxUserBuffer[TailSlot]}
  /\ TxUserBuffer' = [TxUserBuffer EXCEPT ![TailSlot] = NoBuffer]
  /\ TxCons' = Inc(TxCons)
  /\ UNCHANGED <<State, pc, cur, TxProd, ringVars, hwVars>>

-----------------------------------------------------------------------------
(* The DMA engine (Cadence GEM), as the driver relies on it.               *)

HwNextSlot == IF wrap[hwSlot] THEN 0 ELSE hwSlot + 1

\* A descriptor with USED clear is transmitted, or given up on with an error
\* bit the driver only logs; either way USED is written back.
HwFinish ==
  /\ dma = "active"
  /\ ~used[hwSlot]
  /\ used' = [used EXCEPT ![hwSlot] = TRUE]
  /\ hwSlot' = HwNextSlot
  /\ wire' \in {wire, bounce[hwSlot]}
  /\ UNCHANGED <<driverVars, wrap, bounce, dma, clientBufs>>

\* A descriptor with USED set stops the engine until the next START_TX.
HwHalt ==
  /\ dma = "active"
  /\ used[hwSlot]
  /\ dma' = "idle"
  /\ UNCHANGED <<driverVars, ringVars, hwSlot, wire, clientBufs>>

-----------------------------------------------------------------------------
Transmitting == TransmitPublish \/ TransmitBook \/ TransmitKick

Hardware == HwFinish \/ HwHalt

Next ==
  \/ \E ok \in BOOLEAN : Initialize(ok)
  \/ Shutdown
  \/ \E b \in Buffers, f \in Frames : TransmitCopy(b, f)
  \/ Transmitting
  \/ GetRecycledTxBuffer
  \/ Hardware

\* The code in progress runs on, an enabled DMA engine works through its
\* ring, and MNP's poll timer keeps calling GetStatus.
Fairness ==
  /\ WF_vars(Transmitting)
  /\ WF_vars(Hardware)
  /\ WF_vars(GetRecycledTxBuffer)

Spec == Init /\ [][Next]_vars
FairSpec == Spec /\ Fairness
(* Properties.                                                             *)

\* How far slot j lies ahead of slot i on the ring.
Ahead(i, j) == IF j >= i THEN j - i ELSE j - i + TxCount

\* The slot k places after the oldest buffer not yet returned.
SlotAt(k) ==
  IF TailSlot + k < TxCount THEN TailSlot + k ELSE TailSlot + k - TxCount

\* One past the last slot handed to the DMA engine, and how many slots lie
\* between the oldest buffer not yet returned and that point.
PublishedSlot ==
  IF pc # "published" THEN HeadSlot
  ELSE IF HeadSlot = TxCount - 1 THEN 0 ELSE HeadSlot + 1
Held == InFlight + (IF pc = "published" THEN 1 ELSE 0)

\* How many published slots the DMA engine has not finished.
Unsent ==
  IF used[hwSlot] THEN 0
  ELSE IF Ahead(hwSlot, PublishedSlot) = 0 THEN TxCount
  ELSE Ahead(hwSlot, PublishedSlot)

TypeOK ==
  /\ State \in {"Started", "Initialized"}
  /\ pc \in {"idle", "copied", "published", "booked"}
  /\ cur \in [buf : Buffers \cup {NoBuffer}, frame : Frames \cup {NoFrame}]
  /\ used \in [Slots -> BOOLEAN]
  /\ wrap \in [Slots -> BOOLEAN]
  /\ bounce \in [Slots -> Frames \cup {NoFrame}]
  /\ TxUserBuffer \in [Slots -> Buffers \cup {NoBuffer}]
  /\ TxProd \in 0 .. CounterMod - 1
  /\ TxCons \in 0 .. CounterMod - 1
  /\ dma \in {"off", "idle", "active"}
  /\ hwSlot \in Slots
  /\ clientBufs \subseteq Buffers
  /\ wire \in Frames \cup {NoFrame}

HeldBufs   == {TxUserBuffer[i] : i \in Slots} \ {NoBuffer}
\* Between the bookkeeping and the return of Transmit the buffer already
\* belongs to the driver although the client has not been told yet.
ClientSees == IF pc = "booked" THEN clientBufs \ {cur.buf} ELSE clientBufs

\* A buffer the ring holds is not also in the client's hands, and no two
\* slots hold the same buffer: GetStatus can neither return a buffer twice
\* nor return one the client is refilling.
NoSharedBuffer ==
  State = "Initialized" =>
    /\ HeldBufs \cap ClientSees = {}
    /\ \A i, j \in Slots :
         (TxUserBuffer[i] = TxUserBuffer[j] /\ TxUserBuffer[i] # NoBuffer) => i = j

\* While the interface is up no buffer disappears: whatever the client does
\* not hold sits in a slot GetStatus will reach.
NoLostBuffer ==
  State = "Initialized" => Buffers \subseteq HeldBufs \cup ClientSees

\* The free-running counters, their wrap and the room check agree with the
\* slots: exactly the slots from TxCons up to TxProd hold a buffer.
WindowExact ==
  State = "Initialized" =>
    /\ InFlight <= TxCount
    /\ \A i \in Slots : TxUserBuffer[i] # NoBuffer <=> Ahead(TailSlot, i) < InFlight

\* Custody of the transmit buffers: each is in exactly one place, in order.
CustodyExact == NoSharedBuffer /\ NoLostBuffer /\ WindowExact

\* The slots the DMA engine still has to send are consecutive from its own
\* position, so it can neither skip a published frame nor run past one.
DmaInStep ==
  State = "Initialized" =>
    /\ \A i \in Slots : ~used[i] <=> Ahead(hwSlot, i) < Unsent
    /\ Unsent <= Held
    /\ Unsent = 0 => hwSlot = PublishedSlot

\* START_TX is written after the descriptor is published: with no Transmit
\* in progress, an engine that has halted has nothing left to send.
NoLostKick ==
  (State = "Initialized" /\ pc = "idle" /\ dma # "active") => \A i \in Slots : used[i]

\* What ties the properties above together, and makes their conjunction
\* inductive: the cursors, the call in progress and the enable bit agree.
CursorsAgree ==
  /\ InFlight <= TxCount
  /\ HeadSlot = SlotAt(InFlight)

CallInProgress ==
  /\ State # "Initialized" => clientBufs = Buffers
  /\ pc # "idle" => State = "Initialized" /\ cur.buf \in clientBufs
  /\ pc \in {"copied", "published"} => InFlight < TxCount
  /\ pc = "booked" => /\ InFlight > 0
                      /\ TxUserBuffer[SlotAt(InFlight - 1)] = cur.buf

DmaEnabled ==
  /\ State = "Initialized" <=> dma # "off"
  /\ State = "Initialized" => \A i \in Slots : wrap[i] <=> i = TxCount - 1

IInv ==
  /\ TypeOK /\ CursorsAgree /\ CallInProgress /\ DmaEnabled
  /\ WindowExact /\ NoSharedBuffer /\ NoLostBuffer /\ DmaInStep /\ NoLostKick

\* The driver never writes into a bounce buffer the DMA engine may be reading.
NoBounceOverwrite ==
  [][\A i \in Slots : bounce'[i] # bounce[i] => used[i]]_vars

\* A buffer given to a successful Transmit eventually comes back.
BufferComesBack ==
  \A b \in Buffers : b \notin clientBufs ~> b \in clientBufs

\* The frame of the call in progress is in the bounce buffer it will be sent
\* from, which the refinement below needs.
CopyInPlace ==
  pc \in {"copied", "published"} =>
    cur.frame \in Frames /\ bounce[HeadSlot] = cur.frame

\* The ring implements the FIFO: a frame is accepted when its descriptor is
\* published, done with when USED is set again.
FifoUp == State = "Initialized"
FifoEntry(k) ==
  IF k <= InFlight
  THEN [buf |-> TxUserBuffer[SlotAt(k - 1)], frame |-> bounce[SlotAt(k - 1)]]
  ELSE cur
FifoQueue == IF FifoUp THEN [k \in 1 .. Held |-> FifoEntry(k)] ELSE <<>>
FifoDone == IF FifoUp THEN Held - Unsent ELSE 0
FifoClient ==
  IF pc \in {"published", "booked"} THEN clientBufs \ {cur.buf} ELSE clientBufs

Fifo == INSTANCE GemTxFifo WITH
  Depth <- TxCount, up <- FifoUp, queue <- FifoQueue, done <- FifoDone,
  clientBufs <- FifoClient

\* Frames are sent in order with the contents given to Transmit, and buffers
\* returned in order, through every interleaving with the DMA engine.
ImplementsFifo == Fifo!Spec
=============================================================================
