----------------------------- MODULE GemRxProofs -----------------------------
(***************************************************************************)
(* Proofs about the receive ring for every ring size.                      *)
(***************************************************************************)
EXTENDS GemRx, Sequences, SequenceTheorems, TLAPS

\* The successor of an index, as GemRecycleRxDescriptor computes it.
LEMMA IndexStep ==
  ASSUME NEW n \in Nat \ {0}, NEW i \in 0 .. n - 1
  PROVE  (i + 1) % n = IF i = n - 1 THEN 0 ELSE i + 1
<1>1. CASE i = n - 1
  BY <1>1
<1>2. CASE i # n - 1
  BY <1>2
<1> QED BY <1>1, <1>2

\* Ring distances are bounded, and zero only between a slot and itself.
LEMMA AheadRange ==
  ASSUME NEW i \in Slots, NEW j \in Slots
  PROVE  /\ Ahead(i, j) \in 0 .. RxCount - 1
         /\ Ahead(i, j) = 0 <=> i = j
         /\ After(i) \in Slots
  BY RxAssumption DEF Ahead, After, Slots

LEMMA InitInv == Init => IInv
<1> SUFFICES ASSUME Init PROVE IInv
  OBVIOUS
<1>1. State = "Started" /\ pc = "idle" /\ ~dmaOn /\ ~storing
  BY DEF Init
<1>2. 0 \in Slots
  BY RxAssumption DEF Slots
<1>3. ctrl \in [Slots -> Written \cup {"clear"}] /\ data \in [Slots -> Frames \cup {NoFrame}]
  BY DEF Init
<1>4. TypeOK
  BY <1>2, <1>3 DEF Init, TypeOK
<1>5. EngineInStep /\ RxInStep /\ NoTornCopy /\ StatusFresh
  BY <1>1 DEF EngineInStep, RxInStep, NoTornCopy, StatusFresh
<1> QED BY <1>4, <1>5 DEF IInv

LEMMA InitializeInv ==
  ASSUME IInv, NEW ok \in BOOLEAN, Initialize(ok)
  PROVE  IInv'
<1> USE DEF IInv
<1>1. pc = "idle" /\ pc' = "idle"
  BY DEF Initialize, EngineInStep, TypeOK
<1>3. /\ own' = [i \in Slots |-> FALSE] /\ hwSlot' = 0 /\ RxHead' = 0 /\ 0 \in Slots
      /\ ctrl' = [i \in Slots |-> "clear"]
  BY RxAssumption DEF Initialize, GemInitRings, Slots
<1>8. wrap' \in [Slots -> BOOLEAN] /\ own' \in [Slots -> BOOLEAN]
      /\ ctrl' \in [Slots -> Written \cup {"clear"}]
  BY <1>3, Zenon DEF Initialize, GemInitRings
<1>9. State' \in {"Started", "Initialized"} /\ dmaOn' \in BOOLEAN /\ storing' \in BOOLEAN
  BY Zenon DEF Initialize, TypeOK
<1>2. TypeOK'
  BY <1>3, <1>8, <1>9 DEF TypeOK, Initialize
<1>4. Front' = 0 /\ Pending' = 0
  BY <1>1, <1>3 DEF Front, Pending
<1>5. EngineInStep'
  BY <1>1 DEF EngineInStep, Initialize, GemInitRings
<1>6. RxInStep'
  BY <1>3, <1>4, RxAssumption DEF RxInStep, Ahead, Slots
<1>7. NoTornCopy' /\ StatusFresh'
  BY <1>1, <1>3 DEF NoTornCopy, StatusFresh
<1> QED BY <1>2, <1>5, <1>6, <1>7

\* A step of the driver that only reads.
LEMMA ReadInv ==
  ASSUME IInv, UNCHANGED <<State, RxHead, ringVars, hwVars>>, TypeOK',
         pc # "advance", pc' # "advance", pc # "release", pc' # "release",
         pc' # "idle" => State = "Initialized",
         pc' \in {"status", "copy", "recycle"} => own[RxHead]
  PROVE  IInv'
<1> USE DEF IInv
<1>1. Front' = Front /\ Pending' = Pending
  BY DEF Front, Pending, Ahead, ringVars, hwVars, After
<1>2. RxInStep'
  BY <1>1 DEF RxInStep, Ahead, ringVars, hwVars
<1>3. EngineInStep'
  BY DEF EngineInStep, ringVars, hwVars
<1>4. NoTornCopy'
  BY DEF NoTornCopy, EngineInStep, ringVars, hwVars
<1>5. StatusFresh'
  BY DEF StatusFresh, ringVars
<1> QED BY <1>2, <1>3, <1>4, <1>5

LEMMA ShutdownInv == ASSUME IInv, Shutdown PROVE IInv'
<1> USE DEF IInv
<1>1. TypeOK'
  BY DEF TypeOK, Shutdown, ringVars
<1>2. EngineInStep'
  BY DEF EngineInStep, Shutdown, ringVars
<1> QED BY <1>1, <1>2 DEF Shutdown, RxInStep, NoTornCopy, StatusFresh

LEMMA ReceivingReadsInv ==
  ASSUME IInv,
         (\E large \in BOOLEAN : ReceiveCall(large)) \/ PollOwn \/ ReadStatus \/ CopyFrame
  PROVE  IInv'
<1> USE DEF IInv
<1>1. TypeOK'
  BY DEF TypeOK, ReceiveCall, PollOwn, ReadStatus, AfterStatus, CopyFrame, callVars, ringVars, hwVars
<1>2. /\ UNCHANGED <<State, RxHead, ringVars, hwVars>>
      /\ pc # "advance" /\ pc' # "advance"
      /\ pc # "release" /\ pc' # "release"
      /\ pc' # "idle" => State = "Initialized"
      /\ pc' \in {"status", "copy", "recycle"} => own[RxHead]
  BY DEF ReceiveCall, PollOwn, ReadStatus, AfterStatus, CopyFrame, callVars, EngineInStep
<1> QED BY <1>1, <1>2, ReadInv

LEMMA RecycleCtrlInv == ASSUME IInv, RecycleCtrl PROVE IInv'
<1> USE DEF IInv
<1>1. TypeOK'
  BY DEF TypeOK, RecycleCtrl, callVars, hwVars
<1>2. Front' = Front /\ Pending' = Pending
  BY DEF Front, Pending, Ahead, After, RecycleCtrl, callVars, hwVars
<1>3. RxInStep'
  BY <1>2 DEF RxInStep, Ahead, RecycleCtrl, callVars, hwVars
<1>4. EngineInStep'
  BY DEF EngineInStep, RecycleCtrl, callVars, hwVars
<1>5. NoTornCopy' /\ StatusFresh'
  BY DEF NoTornCopy, StatusFresh, EngineInStep, RecycleCtrl, callVars, hwVars, TypeOK
<1> QED BY <1>1, <1>3, <1>4, <1>5

\* OWN cleared: the front moves on, with one frame less behind it.
LEMMA RecycleOwnPending ==
  ASSUME IInv, RecycleOwn
  PROVE  /\ Front = RxHead /\ Front' = After(RxHead) /\ After(RxHead) \in Slots
         /\ Pending \in 1 .. RxCount /\ Pending' = Pending - 1
         /\ Pending = 1 => hwSlot = After(RxHead)
         /\ \A i \in Slots : own'[i] <=> Ahead(After(RxHead), i) < Pending - 1
<1> USE DEF IInv
<1>1. /\ State = "Initialized" /\ pc = "release" /\ pc' = "advance"
      /\ own[RxHead] /\ own \in [Slots -> BOOLEAN]
      /\ own' = [own EXCEPT ![RxHead] = FALSE]
      /\ RxHead' = RxHead /\ RxHead \in Slots /\ hwSlot' = hwSlot /\ hwSlot \in Slots
  BY DEF RecycleOwn, EngineInStep, TypeOK, callVars, hwVars
<1>2. Front = RxHead /\ Front' = After(RxHead) /\ After(RxHead) \in Slots
  BY <1>1, AheadRange DEF Front, After
<1>3. /\ \A i \in Slots : own[i] <=> Ahead(RxHead, i) < Pending
      /\ Pending = IF Ahead(RxHead, hwSlot) = 0 THEN RxCount ELSE Ahead(RxHead, hwSlot)
  BY <1>1, <1>2 DEF RxInStep, Pending
<1>4. \A i \in Slots : own'[i] <=> Ahead(After(RxHead), i) < Pending - 1
  BY <1>1, <1>3, RxAssumption DEF Ahead, After, Slots
<1>5. own'[After(RxHead)] <=> 0 < Pending - 1
  <2>1. Ahead(After(RxHead), After(RxHead)) = 0
    BY <1>2, AheadRange, Zenon
  <2>2. own'[After(RxHead)] <=> Ahead(After(RxHead), After(RxHead)) < Pending - 1
    BY <1>2, <1>4, Zenon
  <2> QED BY <2>1, <2>2, Zenon
<1>6. Pending' = IF ~own'[After(RxHead)] THEN 0
                 ELSE IF Ahead(After(RxHead), hwSlot) = 0 THEN RxCount
                 ELSE Ahead(After(RxHead), hwSlot)
  BY <1>1, <1>2 DEF Pending, Ahead
<1>7. Pending \in 1 .. RxCount
  BY <1>1, <1>3, AheadRange, RxAssumption
<1>8. Pending' = Pending - 1 /\ (Pending = 1 => hwSlot = After(RxHead))
  BY <1>1, <1>3, <1>5, <1>6, <1>7, RxAssumption DEF Ahead, After, Slots
<1> QED BY <1>2, <1>4, <1>7, <1>8

LEMMA RecycleOwnInv == ASSUME IInv, RecycleOwn PROVE IInv'
<1> USE DEF IInv
<1>1. TypeOK'
  BY DEF TypeOK, RecycleOwn, callVars, hwVars
<1>2. /\ State = "Initialized" /\ State' = State /\ pc = "release" /\ pc' = "advance"
      /\ own[RxHead] /\ own \in [Slots -> BOOLEAN]
      /\ own' = [own EXCEPT ![RxHead] = FALSE]
      /\ RxHead' = RxHead /\ RxHead \in Slots /\ hwSlot' = hwSlot /\ hwSlot \in Slots
  BY DEF RecycleOwn, EngineInStep, TypeOK, callVars, hwVars
<1>3. /\ Front' = After(RxHead)
      /\ Pending \in 1 .. RxCount /\ Pending' = Pending - 1
      /\ Pending = 1 => hwSlot = After(RxHead)
      /\ \A i \in Slots : own'[i] <=> Ahead(After(RxHead), i) < Pending - 1
  BY RecycleOwnPending
<1>4. RxInStep'
  <2>1. \A i \in Slots : own'[i] <=> Ahead(Front, i)' < Pending'
    BY <1>3 DEF Ahead
  <2>2. Pending' = 0 => hwSlot' = Front'
    BY <1>2, <1>3
  <2> QED BY <2>1, <2>2 DEF RxInStep
<1>5. EngineInStep' /\ NoTornCopy'
  BY <1>2 DEF EngineInStep, NoTornCopy, RecycleOwn, callVars, hwVars
<1>6. StatusFresh'
  BY <1>2 DEF StatusFresh, RecycleOwn
<1> QED BY <1>1, <1>4, <1>5, <1>6

LEMMA RecycleAdvanceInv == ASSUME IInv, RecycleAdvance PROVE IInv'
<1> USE DEF IInv
<1>1. /\ State = "Initialized" /\ State' = State /\ pc = "advance"
      /\ pc' \in {"idle", "poll"} /\ UNCHANGED <<ringVars, hwVars>>
      /\ RxHead' = (RxHead + 1) % RxCount /\ RxHead \in Slots
  BY DEF RecycleAdvance, NextRx, EngineInStep, TypeOK
<1>2. RxHead' = After(RxHead) /\ After(RxHead) \in Slots
  BY <1>1, IndexStep, AheadRange, RxAssumption DEF After, Slots
<1>3. TypeOK'
  BY <1>2 DEF TypeOK, RecycleAdvance, NextRx, ringVars, hwVars
<1>4. Front' = Front
  BY <1>1, <1>2 DEF Front
<1>5. Pending' = Pending
  BY <1>1, <1>4 DEF Pending, Ahead, ringVars, hwVars
<1>6. RxInStep'
  BY <1>1, <1>4, <1>5 DEF RxInStep, Ahead, ringVars, hwVars
<1>7. EngineInStep' /\ NoTornCopy' /\ StatusFresh'
  BY <1>1 DEF EngineInStep, NoTornCopy, StatusFresh, ringVars, hwVars
<1> QED BY <1>3, <1>6, <1>7

LEMMA HwStoreInv == ASSUME IInv, NEW f \in Frames, HwStore(f) PROVE IInv'
<1> USE DEF IInv
<1>1. TypeOK'
  BY DEF TypeOK, HwStore, callVars
<1>2. Front' = Front /\ Pending' = Pending
  BY DEF Front, Pending, Ahead, After, HwStore, callVars
<1>3. RxInStep'
  BY <1>2 DEF RxInStep, Ahead, HwStore, callVars
<1>4. EngineInStep' /\ NoTornCopy' /\ StatusFresh'
  BY DEF EngineInStep, NoTornCopy, StatusFresh, HwStore, callVars
<1> QED BY <1>1, <1>3, <1>4

\* OWN written back: one frame more, at the engine's slot.
LEMMA WriteBackPending ==
  ASSUME IInv, NEW s \in Written, HwWriteBack(s)
  PROVE  /\ Front' = Front /\ Front \in Slots
         /\ Pending = Ahead(Front, hwSlot) /\ Pending \in 0 .. RxCount - 1
         /\ Pending' = Pending + 1
         /\ \A i \in Slots : own'[i] <=> Ahead(Front, i) < Pending + 1
<1> USE DEF IInv
<1>1. /\ State = "Initialized" /\ State' = State /\ pc' = pc /\ RxHead' = RxHead
      /\ ~own[hwSlot] /\ hwSlot \in Slots /\ RxHead \in Slots
      /\ own \in [Slots -> BOOLEAN]
      /\ own' = [own EXCEPT ![hwSlot] = TRUE]
      /\ hwSlot' = After(hwSlot) /\ After(hwSlot) \in Slots
  BY AheadRange DEF HwWriteBack, EngineInStep, TypeOK, callVars, After
<1>2. Front' = Front /\ Front \in Slots
  BY <1>1, AheadRange DEF Front, After
<1>3. /\ \A i \in Slots : own[i] <=> Ahead(Front, i) < Pending
      /\ Pending = 0 => hwSlot = Front
  BY <1>1 DEF RxInStep
<1>4. own[Front] => Pending = Ahead(Front, hwSlot) /\ Pending > 0
  <2>1. ~(Ahead(Front, hwSlot) < Pending)
    BY <1>1, <1>3
  <2>2. Ahead(Front, hwSlot) \in 0 .. RxCount - 1
    BY <1>1, <1>2, AheadRange
  <2>3. own[Front] => Pending = IF Ahead(Front, hwSlot) = 0 THEN RxCount
                                ELSE Ahead(Front, hwSlot)
    BY DEF Pending
  <2> QED BY <2>1, <2>2, <2>3, RxAssumption
<1>5. ~own[Front] => Pending = 0 /\ hwSlot = Front
  BY <1>3 DEF Pending
<1>6. Pending = Ahead(Front, hwSlot)
  BY <1>1, <1>2, <1>4, <1>5, AheadRange
<1>7. own'[Front]
  BY <1>1, <1>2, <1>5
<1>8. Pending' = IF Ahead(Front, After(hwSlot)) = 0 THEN RxCount
                 ELSE Ahead(Front, After(hwSlot))
  BY <1>1, <1>2, <1>7 DEF Pending, Ahead
<1>9. Pending' = Pending + 1
  BY <1>1, <1>2, <1>6, <1>8, RxAssumption DEF Ahead, After, Slots
<1>10. \A i \in Slots : own'[i] <=> Ahead(Front, i) < Pending + 1
  BY <1>1, <1>2, <1>3, <1>6, RxAssumption DEF Ahead, Slots
<1>11. Pending \in 0 .. RxCount - 1
  BY <1>1, <1>2, <1>6, AheadRange
<1> QED BY <1>2, <1>6, <1>9, <1>10, <1>11

LEMMA HwWriteBackInv == ASSUME IInv, NEW s \in Written, HwWriteBack(s) PROVE IInv'
<1> USE DEF IInv
<1>1. /\ State = "Initialized" /\ State' = State /\ pc' = pc /\ RxHead' = RxHead
      /\ ~own[hwSlot] /\ hwSlot \in Slots /\ RxHead \in Slots
      /\ own \in [Slots -> BOOLEAN]
      /\ own' = [own EXCEPT ![hwSlot] = TRUE]
      /\ hwSlot' = After(hwSlot) /\ After(hwSlot) \in Slots
  BY AheadRange DEF HwWriteBack, EngineInStep, TypeOK, callVars, After
<1>2. TypeOK'
  BY <1>1 DEF TypeOK, HwWriteBack, callVars, Written
<1>3. /\ Front' = Front /\ Front \in Slots
      /\ Pending \in 0 .. RxCount - 1 /\ Pending' = Pending + 1
      /\ \A i \in Slots : own'[i] <=> Ahead(Front, i) < Pending + 1
  BY WriteBackPending
<1>4. RxInStep'
  <2>1. \A i \in Slots : own'[i] <=> Ahead(Front, i)' < Pending'
    BY <1>3 DEF Ahead
  <2>2. Pending' # 0
    BY <1>3, RxAssumption
  <2> QED BY <2>1, <2>2 DEF RxInStep
<1>5. EngineInStep' /\ NoTornCopy'
  BY <1>1 DEF EngineInStep, NoTornCopy, HwWriteBack, callVars
<1>6. StatusFresh'
  BY <1>1 DEF StatusFresh, EngineInStep, HwWriteBack, Written, TypeOK
<1> QED BY <1>2, <1>4, <1>5, <1>6

-----------------------------------------------------------------------------
\* IInv is an invariant of the receive ring.
THEOREM RingInvariant == Spec => []IInv
<1>1. IInv /\ [Next]_vars => IInv'
  <2> SUFFICES ASSUME IInv, [Next]_vars PROVE IInv'
    OBVIOUS
  <2>1. ASSUME NEW ok \in BOOLEAN, Initialize(ok) PROVE IInv'
    BY <2>1, InitializeInv
  <2>2. CASE Shutdown
    BY <2>2, ShutdownInv
  <2>3. CASE (\E large \in BOOLEAN : ReceiveCall(large)) \/ PollOwn \/ ReadStatus \/ CopyFrame
    BY <2>3, ReceivingReadsInv
  <2>4. CASE RecycleCtrl
    BY <2>4, RecycleCtrlInv
  <2>5. CASE RecycleOwn
    BY <2>5, RecycleOwnInv
  <2>6. CASE RecycleAdvance
    BY <2>6, RecycleAdvanceInv
  <2>7. ASSUME NEW f \in Frames, HwStore(f) PROVE IInv'
    BY <2>7, HwStoreInv
  <2>8. ASSUME NEW s \in Written, HwWriteBack(s) PROVE IInv'
    BY <2>8, HwWriteBackInv
  <2>9. CASE UNCHANGED vars
    BY <2>9
    DEF vars, callVars, ringVars, hwVars, IInv, TypeOK, EngineInStep, RxInStep,
        NoTornCopy, StatusFresh, Front, Pending, Ahead, After
  <2> QED
    BY <2>1, <2>2, <2>3, <2>4, <2>5, <2>6, <2>7, <2>8, <2>9 DEF Next, Receiving
<1> QED BY InitInv, <1>1, PTL DEF Spec

\* The packet buffer being copied to the client is never the one the DMA
\* engine is writing, and no status is lost or left over.
THEOREM ReceiveRaceFree == Spec => [](NoTornCopy /\ StatusFresh)
  BY RingInvariant, PTL DEF IInv

\* Driver and engine never disagree on which frames are waiting.
THEOREM ReceiveInStep == Spec => [](TypeOK /\ RxInStep)
  BY RingInvariant, PTL DEF IInv

-----------------------------------------------------------------------------
(* The refinement: every step of the ring is a step of the FIFO, or none.  *)

\* A function on 1 .. n is a queue of length n.
LEMMA FunctionIsQueue ==
  ASSUME NEW S, NEW n \in Nat, NEW s \in [1 .. n -> S]
  PROVE  s \in Seq(S) /\ Len(s) = n
  OBVIOUS

\* A queue that agrees with another one up to its last element.
LEMMA QueueGrows ==
  ASSUME NEW S, NEW n \in Nat, NEW s \in [1 .. n -> S], NEW t \in [1 .. n + 1 -> S],
         \A k \in 1 .. n : t[k] = s[k]
  PROVE  t = Append(s, t[n + 1])
<1>1. s \in Seq(S) /\ Len(s) = n /\ t \in Seq(S) /\ Len(t) = n + 1 /\ t[n + 1] \in S
  BY FunctionIsQueue
<1>2. /\ Append(s, t[n + 1]) \in Seq(S) /\ Len(Append(s, t[n + 1])) = n + 1
      /\ \A k \in 1 .. n : Append(s, t[n + 1])[k] = s[k]
      /\ Append(s, t[n + 1])[n + 1] = t[n + 1]
  BY <1>1, AppendProperties
<1>3. \A k \in 1 .. n + 1 : k \in 1 .. n \/ k = n + 1
  OBVIOUS
<1>4. \A k \in 1 .. n + 1 : t[k] = Append(s, t[n + 1])[k]
  BY <1>2, <1>3
<1> QED BY <1>1, <1>2, <1>4, SeqEqual

\* A queue that has moved up by one.
LEMMA QueueShrinks ==
  ASSUME NEW S, NEW n \in Nat, NEW s \in [1 .. n + 1 -> S], NEW t \in [1 .. n -> S],
         \A k \in 1 .. n : t[k] = s[k + 1]
  PROVE  s # <<>> /\ Head(s) = s[1] /\ t = Tail(s)
<1>1. s \in Seq(S) /\ Len(s) = n + 1 /\ t \in Seq(S) /\ Len(t) = n
  BY FunctionIsQueue
<1>2. s # <<>>
  BY <1>1
<1>3. Tail(s) \in Seq(S) /\ Len(Tail(s)) = n /\ \A k \in 1 .. n : Tail(s)[k] = s[k + 1]
  BY <1>1, <1>2, HeadTailProperties
<1>4. t = Tail(s)
  BY <1>1, <1>3, SeqEqual
<1> QED BY <1>1, <1>2, <1>4

EntryType == [frame : Frames \cup {NoFrame}, good : BOOLEAN]

\* The places of the queue are distinct slots, counted from the front.
LEMMA QueueSlots ==
  ASSUME Front \in Slots
  PROVE  /\ \A k \in 0 .. RxCount - 1 : SlotAt(k) \in Slots /\ Ahead(Front, SlotAt(k)) = k
         /\ \A i \in Slots : SlotAt(Ahead(Front, i)) = i
  BY RxAssumption DEF SlotAt, Slots, Ahead

LEMMA FrontRange == ASSUME TypeOK PROVE Front \in Slots
  BY AheadRange DEF Front, TypeOK

\* What the FIFO holds while the interface is up.
QueueShape ==
  /\ Front \in Slots /\ Pending \in 0 .. RxCount
  /\ FifoPending \in [1 .. Pending -> EntryType] /\ Len(FifoPending) = Pending
  /\ \A k \in 1 .. Pending : FifoPending[k] = FifoEntry(k)

LEMMA QueueIs == IInv /\ FifoUp => QueueShape
<1> SUFFICES ASSUME IInv, FifoUp PROVE QueueShape
  OBVIOUS
<1> USE DEF IInv
<1>1. Front \in Slots /\ hwSlot \in Slots
  BY FrontRange DEF TypeOK
<1>2. Pending \in 0 .. RxCount
  BY <1>1, AheadRange, RxAssumption DEF Pending
<1>3. FifoPending = [k \in 1 .. Pending |-> FifoEntry(k)]
  BY DEF FifoPending
<1>4. \A k \in 1 .. Pending : FifoEntry(k) \in EntryType
  <2> SUFFICES ASSUME NEW k \in 1 .. Pending PROVE FifoEntry(k) \in EntryType
    OBVIOUS
  <2>1. k - 1 \in 0 .. RxCount - 1
    BY <1>2, RxAssumption
  <2>2. SlotAt(k - 1) \in Slots
    BY <1>1, <2>1, QueueSlots
  <2>3. data[SlotAt(k - 1)] \in Frames \cup {NoFrame}
    BY <2>2 DEF TypeOK
  <2>4. (IF pc = "release" /\ k = 1 THEN status = "good" ELSE ctrl[SlotAt(k - 1)] = "good") \in BOOLEAN
    OBVIOUS
  <2> QED BY <2>3, <2>4 DEF FifoEntry, EntryType
<1>5. FifoPending \in [1 .. Pending -> EntryType]
  BY <1>3, <1>4
<1>6. Len(FifoPending) = Pending
  BY <1>2, <1>5, FunctionIsQueue, RxAssumption
<1> QED BY <1>1, <1>2, <1>3, <1>5, <1>6 DEF QueueShape

\* The slots of the queue are the ones software owns.
LEMMA QueueOwned ==
  ASSUME IInv, FifoUp, NEW k \in 1 .. Pending
  PROVE  /\ k - 1 \in 0 .. RxCount - 1 /\ SlotAt(k - 1) \in Slots /\ own[SlotAt(k - 1)]
         /\ SlotAt(k - 1) = Front <=> k = 1
<1>1. Front \in Slots /\ Pending \in 0 .. RxCount
  BY QueueIs DEF QueueShape
<1>2. k - 1 \in 0 .. RxCount - 1 /\ k - 1 < Pending
  BY <1>1, RxAssumption
<1>3. SlotAt(k - 1) \in Slots /\ Ahead(Front, SlotAt(k - 1)) = k - 1
  BY <1>1, <1>2, QueueSlots
<1>4. own[SlotAt(k - 1)]
  BY <1>2, <1>3 DEF IInv, RxInStep, FifoUp
<1>5. SlotAt(k - 1) = Front <=> k - 1 = 0
  BY <1>1, <1>3, AheadRange
<1> QED BY <1>1, <1>2, <1>3, <1>4, <1>5

\* A step that leaves the length and the entries leaves the queue.
LEMMA QueueSame ==
  ASSUME FifoUp, FifoUp', Pending' = Pending,
         \A k \in 1 .. Pending : FifoEntry(k)' = FifoEntry(k)
  PROVE  FifoPending' = FifoPending
  BY DEF FifoPending

\* CallInPlace is invariant: while a frame is handed over the engine writes
\* neither its status nor its data.
LEMMA CallStep ==
  ASSUME IInv, CallInPlace, [Next]_vars
  PROVE  CallInPlace'
<1>1. /\ RxHead \in Slots /\ hwSlot \in Slots
      /\ ctrl \in [Slots -> Written \cup {"clear"}] /\ data \in [Slots -> Frames \cup {NoFrame}]
      /\ storing => ~own[hwSlot]
      /\ pc \in {"status", "copy", "recycle", "release"} => own[RxHead]
      /\ pc # "idle" => State = "Initialized"
      /\ State \in {"Started", "Initialized"}
  BY DEF IInv, TypeOK, EngineInStep
<1>2. ASSUME NEW ok \in BOOLEAN, Initialize(ok) PROVE CallInPlace'
  BY <1>1, <1>2 DEF Initialize, CallInPlace
<1>3. CASE Shutdown
  BY <1>3 DEF Shutdown, CallInPlace
<1>4. CASE \/ \E large \in BOOLEAN : ReceiveCall(large)
           \/ PollOwn
  BY <1>4 DEF ReceiveCall, PollOwn, CallInPlace, callVars, ringVars, hwVars
<1>5. CASE ReadStatus
  BY <1>5 DEF ReadStatus, AfterStatus, CallInPlace, ringVars, hwVars
<1>6. CASE CopyFrame
  BY <1>6 DEF CopyFrame, CallInPlace, ringVars, hwVars
<1>7. CASE RecycleCtrl \/ RecycleOwn \/ RecycleAdvance
  BY <1>7 DEF RecycleCtrl, RecycleOwn, RecycleAdvance, CallInPlace, callVars, ringVars, hwVars
<1>8. ASSUME NEW f \in Frames, HwStore(f) PROVE CallInPlace'
  BY <1>1, <1>8 DEF HwStore, CallInPlace, callVars
<1>9. ASSUME NEW s \in Written, HwWriteBack(s) PROVE CallInPlace'
  BY <1>1, <1>9 DEF HwWriteBack, CallInPlace, callVars
<1>10. CASE UNCHANGED vars
  BY <1>10 DEF vars, CallInPlace, callVars, ringVars, hwVars
<1> QED BY <1>2, <1>3, <1>4, <1>5, <1>6, <1>7, <1>8, <1>9, <1>10 DEF Next, Receiving

LEMMA CallInvariant == Spec => []CallInPlace
<1>1. Init => CallInPlace
  BY DEF Init, CallInPlace
<1>2. IInv /\ CallInPlace /\ [Next]_vars => CallInPlace'
  BY CallStep
<1> QED BY <1>1, <1>2, RingInvariant, PTL DEF Spec

LEMMA FifoInit == Init => Fifo!Init
  BY DEF Init, Fifo!Init, FifoUp, FifoPending, FifoDelivered

LEMMA FifoOpen ==
  ASSUME IInv, NEW ok \in BOOLEAN, Initialize(ok)
  PROVE  Fifo!Next \/ UNCHANGED Fifo!vars
<1>1. pc = "idle" /\ pc' = "idle" /\ State = "Started" /\ delivered' = delivered
  BY DEF IInv, EngineInStep, TypeOK, Initialize
<1>2. FifoDelivered' = FifoDelivered /\ FifoPending = <<>> /\ ~FifoUp
  BY <1>1 DEF FifoDelivered, FifoPending, FifoUp
<1>3. CASE ok
  <2>1. State' = "Initialized" /\ RxHead' = 0 /\ own' = [i \in Slots |-> FALSE] /\ 0 \in Slots
    BY <1>3, RxAssumption DEF Initialize, GemInitRings, Slots
  <2>2. Pending' = 0 /\ FifoUp'
    BY <1>1, <2>1 DEF Pending, Front, FifoUp
  <2>3. FifoPending' = <<>>
    BY <2>2 DEF FifoPending
  <2> QED BY <1>2, <2>2, <2>3 DEF Fifo!Next, Fifo!Open
<1>4. CASE ~ok
  <2>1. State' = "Started"
    BY <1>1, <1>4 DEF Initialize
  <2> QED BY <1>2, <2>1 DEF Fifo!vars, FifoPending, FifoUp
<1> QED BY <1>3, <1>4

LEMMA FifoClose == ASSUME IInv, Shutdown PROVE Fifo!Next
<1>1. FifoUp /\ ~FifoUp' /\ FifoPending' = <<>> /\ FifoDelivered' = FifoDelivered
  BY DEF Shutdown, FifoUp, FifoPending, FifoDelivered
<1> QED BY <1>1 DEF Fifo!Next, Fifo!Close, FifoUp

\* Up to the copy the driver only reads.
LEMMA FifoRead ==
  ASSUME IInv,
         (\E large \in BOOLEAN : ReceiveCall(large)) \/ PollOwn \/ ReadStatus \/ CopyFrame
  PROVE  UNCHANGED Fifo!vars
<1>1. /\ UNCHANGED <<State, RxHead, ringVars, hwVars, delivered>>
      /\ State = "Initialized"
      /\ pc # "advance" /\ pc' # "advance" /\ pc # "release" /\ pc' # "release"
  BY DEF ReceiveCall, PollOwn, ReadStatus, AfterStatus, CopyFrame, callVars, IInv, EngineInStep
<1>2. Front' = Front /\ Pending' = Pending
  BY <1>1 DEF Front, Pending, Ahead, ringVars, hwVars
<1>3. \A k \in 1 .. Pending : FifoEntry(k)' = FifoEntry(k)
  BY <1>1, <1>2 DEF FifoEntry, SlotAt, ringVars
<1>4. FifoPending' = FifoPending
  BY <1>1, <1>2, <1>3, QueueSame DEF FifoUp
<1> QED BY <1>1, <1>4 DEF Fifo!vars, FifoUp, FifoDelivered

\* Once the status is erased the driver's copy of it stands in.
LEMMA FifoErase == ASSUME IInv, CallInPlace, RecycleCtrl PROVE UNCHANGED Fifo!vars
<1>1. /\ State = "Initialized" /\ State' = State /\ pc = "recycle" /\ pc' = "release"
      /\ status = ctrl[RxHead] /\ ctrl' = [ctrl EXCEPT ![RxHead] = "clear"]
      /\ RxHead \in Slots /\ ctrl \in [Slots -> Written \cup {"clear"}]
      /\ UNCHANGED <<status, got, RxHead, own, data, hwSlot, delivered>>
  BY DEF RecycleCtrl, CallInPlace, callVars, hwVars, IInv, EngineInStep, TypeOK
<1>2. Front' = Front /\ Pending' = Pending /\ Front = RxHead
  BY <1>1 DEF Front, Pending, Ahead
<1>3. \A k \in 1 .. Pending : FifoEntry(k)' = FifoEntry(k)
  <2> SUFFICES ASSUME NEW k \in 1 .. Pending PROVE FifoEntry(k)' = FifoEntry(k)
    OBVIOUS
  <2>1. SlotAt(k - 1)' = SlotAt(k - 1)
    BY <1>2 DEF SlotAt
  <2>2. SlotAt(k - 1) \in Slots /\ (SlotAt(k - 1) = RxHead <=> k = 1)
    BY <1>1, <1>2, QueueOwned DEF FifoUp
  <2>3. CASE k = 1
    BY <1>1, <2>1, <2>2, <2>3 DEF FifoEntry
  <2>4. CASE k # 1
    BY <1>1, <2>1, <2>2, <2>4 DEF FifoEntry
  <2> QED BY <2>3, <2>4
<1>4. FifoPending' = FifoPending
  BY <1>1, <1>2, <1>3, QueueSame DEF FifoUp
<1> QED BY <1>1, <1>4 DEF Fifo!vars, FifoUp, FifoDelivered

\* Clearing OWN takes the oldest frame out: delivered if good, else dropped.
LEMMA FifoTake == ASSUME IInv, CallInPlace, RecycleOwn PROVE Fifo!Next
<1>1. /\ State = "Initialized" /\ State' = State /\ pc = "release" /\ pc' = "advance"
      /\ status = "good" => got = data[RxHead]
      /\ RxHead \in Slots
      /\ UNCHANGED <<status, got, RxHead, ctrl, data, hwSlot, delivered>>
  BY DEF RecycleOwn, CallInPlace, callVars, hwVars, IInv, EngineInStep, TypeOK
<1>2. /\ Front = RxHead /\ Front' = After(RxHead) /\ After(RxHead) \in Slots
      /\ Pending \in 1 .. RxCount /\ Pending' = Pending - 1
  BY RecycleOwnPending
<1>3. PICK n \in Nat : n + 1 = Pending /\ n = Pending' /\ n + 1 <= RxCount
  BY <1>2, RxAssumption
<1>4. /\ FifoPending \in [1 .. n + 1 -> EntryType]
      /\ \A k \in 1 .. n + 1 : FifoPending[k] = FifoEntry(k)
  BY <1>1, <1>3, QueueIs DEF QueueShape, FifoUp
<1>5. /\ FifoPending' \in [1 .. n -> EntryType]
      /\ \A k \in 1 .. n : FifoPending'[k] = FifoEntry(k)'
  <2>1. IInv' /\ FifoUp'
    BY <1>1, RecycleOwnInv DEF FifoUp
  <2>2. QueueShape'
    BY <2>1, QueueIs, PTL
  <2>3. EntryType' = EntryType
    BY DEF EntryType
  <2> QED BY <1>3, <2>2, <2>3 DEF QueueShape
<1>6. \A k \in 1 .. n : FifoPending'[k] = FifoPending[k + 1]
  <2> SUFFICES ASSUME NEW k \in 1 .. n PROVE FifoPending'[k] = FifoPending[k + 1]
    OBVIOUS
  <2>1. k + 1 \in 1 .. n + 1 /\ (k + 1) - 1 = k /\ k + 1 # 1 /\ k < RxCount
    <3>1. n + 1 <= RxCount /\ RxCount \in Nat
      BY <1>3, RxAssumption
    <3> QED BY <3>1
  <2>2. SlotAt(k - 1)' = SlotAt(k)
    BY <1>1, <1>2, <2>1, RxAssumption DEF SlotAt, After, Slots
  <2>3. FifoEntry(k)' = [frame |-> data[SlotAt(k)], good |-> ctrl[SlotAt(k)] = "good"]
    BY <1>1, <2>2 DEF FifoEntry
  <2>4. FifoEntry(k + 1) = [frame |-> data[SlotAt(k)], good |-> ctrl[SlotAt(k)] = "good"]
    BY <2>1 DEF FifoEntry
  <2> QED BY <1>4, <1>5, <2>1, <2>3, <2>4
<1>7. FifoPending # <<>> /\ Head(FifoPending) = FifoPending[1] /\ FifoPending' = Tail(FifoPending)
  BY <1>4, <1>5, <1>6, QueueShrinks
<1>8. FifoPending[1] = [frame |-> data[RxHead], good |-> status = "good"]
  <2>1. SlotAt(1 - 1) = RxHead /\ 1 \in 1 .. n + 1
    BY <1>1, <1>2, RxAssumption DEF SlotAt, Slots
  <2>2. FifoEntry(1) = [frame |-> data[RxHead], good |-> status = "good"]
    BY <1>1, <2>1 DEF FifoEntry
  <2> QED BY <1>4, <2>1, <2>2
<1>9. Head(FifoPending).frame = data[RxHead] /\ Head(FifoPending).good = (status = "good")
  BY <1>7, <1>8
<1>10. CASE status = "good"
  <2>1. FifoDelivered' = data[RxHead]
    BY <1>1, <1>10 DEF FifoDelivered
  <2> QED BY <1>1, <1>7, <1>9, <1>10, <2>1 DEF Fifo!Next, Fifo!Deliver, FifoUp
<1>11. CASE status # "good"
  <2>1. FifoDelivered' = FifoDelivered
    BY <1>1, <1>11 DEF FifoDelivered
  <2> QED BY <1>1, <1>7, <1>9, <1>11, <2>1 DEF Fifo!Next, Fifo!Drop, FifoUp
<1> QED BY <1>10, <1>11

\* The cursor and the return of the call follow what was already done.
LEMMA FifoAdvance == ASSUME IInv, RecycleAdvance PROVE UNCHANGED Fifo!vars
<1>1. /\ State = "Initialized" /\ State' = State /\ pc = "advance" /\ pc' \in {"idle", "poll"}
      /\ RxHead' = (RxHead + 1) % RxCount /\ RxHead \in Slots
      /\ delivered' = IF status = "good" THEN got ELSE delivered
      /\ UNCHANGED <<ringVars, hwVars>>
  BY DEF RecycleAdvance, NextRx, IInv, EngineInStep, TypeOK
<1>2. RxHead' = After(RxHead)
  BY <1>1, IndexStep, RxAssumption DEF After, Slots
<1>3. Front' = Front
  BY <1>1, <1>2 DEF Front
<1>4. Pending' = Pending
  BY <1>1, <1>3 DEF Pending, Ahead, ringVars, hwVars
<1>5. \A k \in 1 .. Pending : FifoEntry(k)' = FifoEntry(k)
  BY <1>1, <1>3 DEF FifoEntry, SlotAt, ringVars
<1>6. FifoPending' = FifoPending
  BY <1>1, <1>4, <1>5, QueueSame DEF FifoUp
<1>7. FifoDelivered' = FifoDelivered
  BY <1>1 DEF FifoDelivered
<1> QED BY <1>1, <1>6, <1>7 DEF Fifo!vars, FifoUp

\* The engine stores into a slot outside the queue.
LEMMA FifoStore == ASSUME IInv, NEW f \in Frames, HwStore(f) PROVE UNCHANGED Fifo!vars
<1>1. /\ State = "Initialized" /\ State' = State /\ ~own[hwSlot] /\ hwSlot \in Slots
      /\ data' = [data EXCEPT ![hwSlot] = f] /\ data \in [Slots -> Frames \cup {NoFrame}]
      /\ UNCHANGED <<callVars, pc, own, ctrl, hwSlot, delivered>>
  BY DEF HwStore, callVars, IInv, EngineInStep, TypeOK
<1>2. Front' = Front /\ Pending' = Pending
  BY <1>1 DEF Front, Pending, Ahead, After, callVars
<1>3. \A k \in 1 .. Pending : FifoEntry(k)' = FifoEntry(k)
  <2> SUFFICES ASSUME NEW k \in 1 .. Pending PROVE FifoEntry(k)' = FifoEntry(k)
    OBVIOUS
  <2>1. SlotAt(k - 1)' = SlotAt(k - 1)
    BY <1>2 DEF SlotAt
  <2>2. SlotAt(k - 1) \in Slots /\ SlotAt(k - 1) # hwSlot
    BY <1>1, QueueOwned DEF FifoUp
  <2>3. data'[SlotAt(k - 1)] = data[SlotAt(k - 1)]
    BY <1>1, <2>2
  <2> QED BY <1>1, <2>1, <2>3 DEF FifoEntry, callVars
<1>4. FifoPending' = FifoPending
  BY <1>1, <1>2, <1>3, QueueSame DEF FifoUp
<1> QED BY <1>1, <1>4 DEF Fifo!vars, FifoUp, FifoDelivered, callVars

\* A descriptor written back is a frame that has arrived.
LEMMA FifoArrive ==
  ASSUME IInv, CallInPlace, NEW s \in Written, HwWriteBack(s)
  PROVE  Fifo!Next
<1>1. /\ State = "Initialized" /\ State' = State /\ ~own[hwSlot] /\ hwSlot \in Slots
      /\ data[hwSlot] \in Frames
      /\ ctrl' = [ctrl EXCEPT ![hwSlot] = s] /\ ctrl \in [Slots -> Written \cup {"clear"}]
      /\ pc = "release" => own[RxHead]
      /\ UNCHANGED <<callVars, pc, data, delivered>>
  BY DEF HwWriteBack, CallInPlace, callVars, IInv, EngineInStep, TypeOK
<1>2. /\ Front' = Front /\ Front \in Slots
      /\ Pending = Ahead(Front, hwSlot) /\ Pending \in 0 .. RxCount - 1
      /\ Pending' = Pending + 1
  BY WriteBackPending
<1>3. Pending \in Nat /\ Pending < RxCount
  BY <1>2, RxAssumption
<1>4. /\ FifoPending \in [1 .. Pending -> EntryType] /\ Len(FifoPending) = Pending
      /\ \A k \in 1 .. Pending : FifoPending[k] = FifoEntry(k)
  BY <1>1, QueueIs DEF QueueShape, FifoUp
<1>5. /\ FifoPending' \in [1 .. Pending + 1 -> EntryType]
      /\ \A k \in 1 .. Pending + 1 : FifoPending'[k] = FifoEntry(k)'
  <2>1. IInv' /\ FifoUp'
    BY <1>1, HwWriteBackInv DEF FifoUp
  <2>2. QueueShape'
    BY <2>1, QueueIs, PTL
  <2>3. EntryType' = EntryType
    BY DEF EntryType
  <2> QED BY <1>2, <2>2, <2>3 DEF QueueShape
<1>6. \A k \in 1 .. Pending : FifoPending'[k] = FifoPending[k]
  <2> SUFFICES ASSUME NEW k \in 1 .. Pending PROVE FifoPending'[k] = FifoPending[k]
    OBVIOUS
  <2>1. SlotAt(k - 1)' = SlotAt(k - 1) /\ k \in 1 .. Pending + 1
    BY <1>2, <1>3 DEF SlotAt
  <2>2. SlotAt(k - 1) \in Slots /\ SlotAt(k - 1) # hwSlot
    BY <1>1, QueueOwned DEF FifoUp
  <2>3. ctrl'[SlotAt(k - 1)] = ctrl[SlotAt(k - 1)]
    BY <1>1, <2>2
  <2>4. FifoEntry(k)' = FifoEntry(k)
    BY <1>1, <2>1, <2>3 DEF FifoEntry, callVars
  <2> QED BY <1>4, <1>5, <2>1, <2>4
<1>7. FifoPending'[Pending + 1] = [frame |-> data[hwSlot], good |-> s = "good"]
  <2>1. PICK k \in 1 .. Pending + 1 : k = Pending + 1 /\ k - 1 = Pending
    BY <1>3
  <2>2. SlotAt(k - 1)' = SlotAt(k - 1)
    BY <1>2 DEF SlotAt
  <2>3. SlotAt(k - 1) = hwSlot
    BY <1>1, <1>2, <2>1, QueueSlots
  <2>4. pc = "release" => k # 1
    <3>1. pc = "release" => Front = RxHead
      BY DEF Front
    <3>2. own[Front] => Pending # 0
      BY <1>1, <1>2, AheadRange
    <3> QED BY <1>1, <1>3, <2>1, <3>1, <3>2
  <2>5. ctrl'[hwSlot] = s
    BY <1>1
  <2>6. FifoEntry(k)' = [frame |-> data[hwSlot], good |-> s = "good"]
    BY <1>1, <2>2, <2>3, <2>4, <2>5 DEF FifoEntry
  <2> QED BY <1>5, <2>1, <2>6
<1>8. FifoPending' = Append(FifoPending, [frame |-> data[hwSlot], good |-> s = "good"])
  BY <1>3, <1>4, <1>5, <1>6, <1>7, QueueGrows
<1>9. UNCHANGED <<FifoUp, FifoDelivered>>
  BY <1>1 DEF FifoUp, FifoDelivered, callVars
<1>10. Fifo!Arrive(data[hwSlot], s = "good")
  BY <1>1, <1>3, <1>4, <1>8, <1>9 DEF Fifo!Arrive, FifoUp
<1>11. (s = "good") \in BOOLEAN
  OBVIOUS
<1> QED BY <1>1, <1>10, <1>11 DEF Fifo!Next

\* The ring implements the FIFO, for every ring size: the client gets the
\* frames with a good status in order of arrival, each once and unchanged,
\* whatever the interleaving of the driver with the DMA engine.
THEOREM RxRefinesFifo == Spec => ImplementsFifo
<1>1. Init => Fifo!Init
  BY FifoInit
<1>2. IInv /\ CallInPlace /\ [Next]_vars => [Fifo!Next]_Fifo!vars
  <2> SUFFICES ASSUME IInv, CallInPlace, [Next]_vars
               PROVE  Fifo!Next \/ UNCHANGED Fifo!vars
    OBVIOUS
  <2>1. ASSUME NEW ok \in BOOLEAN, Initialize(ok) PROVE Fifo!Next \/ UNCHANGED Fifo!vars
    BY <2>1, FifoOpen
  <2>2. CASE Shutdown
    BY <2>2, FifoClose
  <2>3. CASE (\E large \in BOOLEAN : ReceiveCall(large)) \/ PollOwn \/ ReadStatus \/ CopyFrame
    BY <2>3, FifoRead
  <2>4. CASE RecycleCtrl
    BY <2>4, FifoErase
  <2>5. CASE RecycleOwn
    BY <2>5, FifoTake
  <2>6. CASE RecycleAdvance
    BY <2>6, FifoAdvance
  <2>7. ASSUME NEW f \in Frames, HwStore(f) PROVE UNCHANGED Fifo!vars
    BY <2>7, FifoStore
  <2>8. ASSUME NEW s \in Written, HwWriteBack(s) PROVE Fifo!Next
    BY <2>8, FifoArrive
  <2>9. CASE UNCHANGED vars
    BY <2>9
    DEF vars, callVars, ringVars, hwVars, Fifo!vars, FifoUp, FifoPending, FifoDelivered,
        FifoEntry, SlotAt, Pending, Front, Ahead, After
  <2> QED
    BY <2>1, <2>2, <2>3, <2>4, <2>5, <2>6, <2>7, <2>8, <2>9 DEF Next, Receiving
<1> QED BY <1>1, <1>2, RingInvariant, CallInvariant, PTL DEF Spec, ImplementsFifo, Fifo!Spec
=============================================================================
