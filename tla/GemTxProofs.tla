----------------------------- MODULE GemTxProofs -----------------------------
(***************************************************************************)
(* Proofs about the transmit ring for every ring size, counter width and   *)
(* set of buffers: IInv is an inductive invariant, so the ring never loses *)
(* or shares a buffer and never leaves a published frame unsent.           *)
(***************************************************************************)
EXTENDS GemTx, Sequences, SequenceTheorems, TLAPS

-----------------------------------------------------------------------------
(* Arithmetic of free-running counters, for every modulus.                 *)

\* Reducing a difference of two counters: the (UINT16) cast.
LEMMA ModOnce ==
  ASSUME NEW m \in Nat \ {0}, NEW x \in Int, -m <= x, x < m
  PROVE  x % m = IF x >= 0 THEN x ELSE x + m
  OBVIOUS

\* Quotient and remainder are unique.
LEMMA ModUnique ==
  ASSUME NEW n \in Nat \ {0}, NEW q \in Int, NEW r \in Int, 0 <= r, r < n
  PROVE  (n * q + r) % n = r
  OBVIOUS

\* Every counter value has a quotient and a remainder.
LEMMA DivMod ==
  ASSUME NEW n \in Nat \ {0}, NEW c \in Int
  PROVE  \E q \in Int, r \in 0 .. n - 1 : c = n * q + r /\ c % n = r
<1>1. PICK q \in Int : q = c \div n
  OBVIOUS
<1>2. c - n * q \in 0 .. n - 1
  BY <1>1
<1>3. PICK r \in 0 .. n - 1 : r = c - n * q
  BY <1>2
<1>4. (n * q + r) % n = r
  BY ModUnique
<1>5. c = n * q + r
  BY <1>3
<1>6. c % n = r
  BY <1>4, <1>5, Zenon
<1> QED BY <1>5, <1>6, Zenon

\* A counter that moves by one moves the slot it selects by one.
LEMMA ModStep ==
  ASSUME NEW n \in Nat \ {0}, NEW c \in Int
  PROVE  (c + 1) % n = IF c % n = n - 1 THEN 0 ELSE (c % n) + 1
<1>1. PICK q \in Int, r \in 0 .. n - 1 : c = n * q + r /\ c % n = r
  BY DivMod, Zenon
<1>3. CASE r = n - 1
  <2>1. c + 1 = n * (q + 1) + 0
    BY <1>1, <1>3
  <2>2. (n * (q + 1) + 0) % n = 0
    BY ModUnique
  <2>3. (c + 1) % n = 0
    BY <2>1, <2>2, Zenon
  <2> QED BY <1>1, <2>3, <1>3, Zenon
<1>4. CASE r # n - 1
  <2>1. c + 1 = n * q + (r + 1)
    BY <1>1
  <2>2. r + 1 \in Int /\ 0 <= r + 1 /\ r + 1 < n
    BY <1>1, <1>4
  <2>3. (n * q + (r + 1)) % n = r + 1
    BY <2>2, ModUnique
  <2>4. (c + 1) % n = r + 1
    BY <2>1, <2>3, Zenon
  <2> QED BY <1>1, <2>4, <1>4, Zenon
<1> QED BY <1>3, <1>4, Zenon

-----------------------------------------------------------------------------
(* The counters.                                                           *)

\* What one step of a 16-bit counter does, to its value and to its slot.
LEMMA CounterStep ==
  ASSUME NEW c \in 0 .. CounterMod - 1
  PROVE  /\ Inc(c) \in 0 .. CounterMod - 1
         /\ Inc(c) = IF c = CounterMod - 1 THEN 0 ELSE c + 1
         /\ Inc(c) % TxCount =
              IF c % TxCount = TxCount - 1 THEN 0 ELSE (c % TxCount) + 1
<1>1. Inc(c) = IF c = CounterMod - 1 THEN 0 ELSE c + 1
  <2>1. CASE c = CounterMod - 1
    <3>1. (CounterMod * 1 + 0) % CounterMod = 0
      BY ModUnique, TxAssumption
    <3>2. c + 1 = CounterMod * 1 + 0
      BY <2>1, TxAssumption
    <3> QED BY <2>1, <3>1, <3>2, Zenon DEF Inc
  <2>2. CASE c # CounterMod - 1
    <3>1. (CounterMod * 0 + (c + 1)) % CounterMod = c + 1
      <4>1. c + 1 \in Int /\ 0 <= c + 1 /\ c + 1 < CounterMod
        BY <2>2, TxAssumption
      <4>2. CounterMod \in Nat \ {0} /\ 0 \in Int
        BY TxAssumption
      <4> QED BY <4>1, <4>2, ModUnique, Zenon
    <3>2. c + 1 = CounterMod * 0 + (c + 1)
      BY TxAssumption
    <3> QED BY <2>2, <3>1, <3>2, Zenon DEF Inc
  <2> QED BY <2>1, <2>2
<1>2. (c + 1) % TxCount = IF c % TxCount = TxCount - 1 THEN 0 ELSE (c % TxCount) + 1
  <2>1. TxCount \in Nat \ {0} /\ c \in Int
    BY TxAssumption
  <2> QED BY <2>1, ModStep, Zenon
<1>3. Inc(c) % TxCount = (c + 1) % TxCount
  <2>1. CASE c = CounterMod - 1
    <3>1. 0 % TxCount = 0
      BY TxAssumption
    <3>2. CounterMod % TxCount = 0
      BY TxAssumption
    <3>3. c + 1 = CounterMod
      BY <2>1, TxAssumption
    <3> QED BY <1>1, <2>1, <3>1, <3>2, <3>3, Zenon
  <2>2. CASE c # CounterMod - 1
    BY <1>1, <2>2, Zenon
  <2> QED BY <2>1, <2>2
<1>4. Inc(c) \in 0 .. CounterMod - 1
  BY <1>1, TxAssumption
<1> QED BY <1>1, <1>2, <1>3, <1>4, Zenon

\* The distance between two counters.
LEMMA CounterDistance ==
  ASSUME NEW p \in 0 .. CounterMod - 1, NEW c \in 0 .. CounterMod - 1
  PROVE  (p - c) % CounterMod = IF p >= c THEN p - c ELSE p - c + CounterMod
<1>1. p - c \in Int /\ -CounterMod <= p - c /\ p - c < CounterMod
      /\ CounterMod \in Nat \ {0}
  BY TxAssumption
<1>2. (p - c) % CounterMod = IF p - c >= 0 THEN p - c ELSE (p - c) + CounterMod
  BY <1>1, ModOnce, Zenon
<1> QED BY <1>2, TxAssumption

\* The cursors as linear facts, which is all the steps below need.
LEMMA CursorRange ==
  ASSUME TypeOK
  PROVE  /\ HeadSlot \in Slots
         /\ TailSlot \in Slots
         /\ InFlight \in 0 .. CounterMod - 1
         /\ InFlight = IF TxProd >= TxCons THEN TxProd - TxCons
                                          ELSE TxProd - TxCons + CounterMod
<1>1. TxProd \in 0 .. CounterMod - 1 /\ TxCons \in 0 .. CounterMod - 1
  BY DEF TypeOK
<1>2. InFlight = IF TxProd >= TxCons THEN TxProd - TxCons
                                   ELSE TxProd - TxCons + CounterMod
  BY <1>1, CounterDistance, Zenon DEF InFlight
<1>3. HeadSlot \in Slots /\ TailSlot \in Slots
  BY <1>1, TxAssumption DEF HeadSlot, TailSlot, Slots
<1> QED BY <1>1, <1>2, <1>3, TxAssumption

\* Bookkeeping moves the head by one slot, for every value of the counter.
LEMMA BookCursors ==
  ASSUME TypeOK, TxProd' = Inc(TxProd), TxCons' = TxCons, InFlight < TxCount
  PROVE  /\ InFlight' = InFlight + 1
         /\ TailSlot' = TailSlot
         /\ HeadSlot' = IF HeadSlot = TxCount - 1 THEN 0 ELSE HeadSlot + 1
         /\ HeadSlot \in Slots /\ TailSlot \in Slots /\ InFlight \in Nat
<1>1. TxProd \in 0 .. CounterMod - 1 /\ TxCons \in 0 .. CounterMod - 1
  BY DEF TypeOK
<1>2. HeadSlot' = IF HeadSlot = TxCount - 1 THEN 0 ELSE HeadSlot + 1
  BY <1>1, CounterStep, Zenon DEF HeadSlot
<1>3. TailSlot' = TailSlot
  BY DEF TailSlot
<1>4. TxProd' = IF TxProd = CounterMod - 1 THEN 0 ELSE TxProd + 1
  BY <1>1, CounterStep, Zenon
<1>5. InFlight' = IF TxProd' >= TxCons' THEN TxProd' - TxCons'
                                       ELSE TxProd' - TxCons' + CounterMod
  <2>1. TxProd' \in 0 .. CounterMod - 1 /\ TxCons' \in 0 .. CounterMod - 1
    BY <1>1, CounterStep
  <2> QED BY <2>1, CounterDistance, Zenon DEF InFlight
<1>6. InFlight' = InFlight + 1
  BY <1>1, <1>4, <1>5, CursorRange, TxAssumption
<1> QED BY <1>2, <1>3, <1>6, CursorRange, TxAssumption

\* A returned buffer moves the tail by one slot.
LEMMA RecycleCursors ==
  ASSUME TypeOK, TxCons' = Inc(TxCons), TxProd' = TxProd, TxCons # TxProd
  PROVE  /\ InFlight' = InFlight - 1
         /\ HeadSlot' = HeadSlot
         /\ TailSlot' = IF TailSlot = TxCount - 1 THEN 0 ELSE TailSlot + 1
<1>1. TxProd \in 0 .. CounterMod - 1 /\ TxCons \in 0 .. CounterMod - 1
  BY DEF TypeOK
<1>2. TailSlot' = IF TailSlot = TxCount - 1 THEN 0 ELSE TailSlot + 1
  BY <1>1, CounterStep, Zenon DEF TailSlot
<1>3. HeadSlot' = HeadSlot
  BY DEF HeadSlot
<1>4. TxCons' = IF TxCons = CounterMod - 1 THEN 0 ELSE TxCons + 1
  BY <1>1, CounterStep, Zenon
<1>5. InFlight' = IF TxProd' >= TxCons' THEN TxProd' - TxCons'
                                       ELSE TxProd' - TxCons' + CounterMod
  <2>1. TxProd' \in 0 .. CounterMod - 1 /\ TxCons' \in 0 .. CounterMod - 1
    BY <1>1, CounterStep
  <2> QED BY <2>1, CounterDistance, Zenon DEF InFlight
<1>6. InFlight' = InFlight - 1
  BY <1>1, <1>4, <1>5, CursorRange, TxAssumption
<1> QED BY <1>2, <1>3, <1>6

-----------------------------------------------------------------------------
(* The invariant holds initially.                                          *)

LEMMA InitInv == Init => IInv
<1> SUFFICES ASSUME Init PROVE IInv
  OBVIOUS
<1>1. TypeOK
  BY TxAssumption DEF Init, TypeOK, NoCur, Slots
<1>2. InFlight = 0 /\ HeadSlot = TailSlot /\ TailSlot \in Slots
  BY <1>1, CursorRange DEF Init, HeadSlot, TailSlot
<1>3. CursorsAgree
  BY <1>2, TxAssumption DEF CursorsAgree, SlotAt, Slots
<1>4. CallInProgress /\ DmaEnabled /\ WindowExact /\ NoSharedBuffer
      /\ NoLostBuffer /\ DmaInStep /\ NoLostKick
  BY DEF Init, CallInProgress, DmaEnabled, WindowExact, NoSharedBuffer,
         NoLostBuffer, DmaInStep, NoLostKick
<1> QED BY <1>1, <1>3, <1>4 DEF IInv

-----------------------------------------------------------------------------
(* Steps of the driver.                                                    *)

LEMMA InitializeInv ==
  ASSUME IInv, NEW ok \in BOOLEAN, Initialize(ok)
  PROVE  IInv'
<1> USE DEF IInv
<1>1. /\ pc = "idle" /\ pc' = "idle" /\ clientBufs' = Buffers
      /\ cur' = cur
  BY DEF Initialize, CallInProgress, TypeOK
<1>2. TypeOK'
  BY TxAssumption DEF TypeOK, Initialize, GemInitRings, Slots
<1>3. TxProd' = 0 /\ TxCons' = 0
  BY DEF Initialize, GemInitRings
<1>4. InFlight' = 0 /\ HeadSlot' = 0 /\ TailSlot' = 0
  BY <1>3, TxAssumption DEF InFlight, HeadSlot, TailSlot
<1>5. CursorsAgree'
  BY <1>4, TxAssumption DEF CursorsAgree, SlotAt
<1>6. CallInProgress' /\ DmaEnabled'
  BY <1>1 DEF CallInProgress, DmaEnabled, Initialize, GemInitRings, TypeOK
<1>7. WindowExact' /\ NoSharedBuffer' /\ NoLostBuffer'
  BY <1>1, <1>4, TxAssumption
  DEF WindowExact, NoSharedBuffer, NoLostBuffer, HeldBufs, ClientSees,
      Initialize, GemInitRings, Ahead, Slots
<1>8. DmaInStep' /\ NoLostKick'
  <2>1. hwSlot' = 0 /\ used' = [i \in Slots |-> TRUE] /\ 0 \in Slots
    BY TxAssumption DEF Initialize, GemInitRings, Slots
  <2>2. Unsent' = 0 /\ PublishedSlot' = 0 /\ Held' = 0
    BY <1>1, <1>4, <2>1 DEF Unsent, PublishedSlot, Held
  <2> QED BY <2>1, <2>2 DEF DmaInStep, NoLostKick, Ahead, Slots
<1> QED BY <1>2, <1>5, <1>6, <1>7, <1>8

LEMMA ShutdownInv == ASSUME IInv, Shutdown PROVE IInv'
<1> USE DEF IInv
<1>1. TypeOK'
  BY DEF TypeOK, Shutdown, ringVars
<1>2. InFlight' = InFlight /\ HeadSlot' = HeadSlot /\ TailSlot' = TailSlot
  BY DEF Shutdown, InFlight, HeadSlot, TailSlot
<1>3. CursorsAgree' /\ CallInProgress' /\ DmaEnabled'
  BY <1>2 DEF CursorsAgree, SlotAt, CallInProgress, DmaEnabled, Shutdown
<1>4. State' # "Initialized"
  BY DEF Shutdown
<1> QED
  BY <1>1, <1>3, <1>4
  DEF WindowExact, NoSharedBuffer, NoLostBuffer, DmaInStep, NoLostKick

\* A step that leaves the cursors alone leaves everything computed from them.
LEMMA SameCursors ==
  ASSUME UNCHANGED <<TxProd, TxCons>>
  PROVE  InFlight' = InFlight /\ HeadSlot' = HeadSlot /\ TailSlot' = TailSlot
  BY DEF InFlight, HeadSlot, TailSlot

LEMMA TransmitCopyInv ==
  ASSUME IInv, NEW b \in Buffers, NEW f \in Frames, TransmitCopy(b, f)
  PROVE  IInv'
<1> USE DEF IInv
<1>1. TypeOK'
  BY CursorRange DEF TypeOK, TransmitCopy, Room, hwVars
<1>2. InFlight' = InFlight /\ HeadSlot' = HeadSlot /\ TailSlot' = TailSlot
  BY SameCursors DEF TransmitCopy, Room
<1>3. InFlight < TxCount
  BY CursorRange, TxAssumption DEF TransmitCopy, Room
<1>4. CursorsAgree' /\ CallInProgress' /\ DmaEnabled'
  BY <1>2, <1>3
  DEF CursorsAgree, SlotAt, CallInProgress, DmaEnabled, TransmitCopy, Room, hwVars
<1>5. WindowExact' /\ NoSharedBuffer' /\ NoLostBuffer'
  BY <1>2
  DEF WindowExact, NoSharedBuffer, NoLostBuffer, HeldBufs, ClientSees, TransmitCopy, Room
<1>6. DmaInStep' /\ NoLostKick'
  <2>1. PublishedSlot' = PublishedSlot /\ Held' = Held
    BY <1>2 DEF PublishedSlot, Held, TransmitCopy, Room
  <2>2. Unsent' = Unsent
    BY <2>1 DEF Unsent, Ahead, TransmitCopy, Room, hwVars
  <2> QED BY <2>1, <2>2 DEF DmaInStep, NoLostKick, Ahead, TransmitCopy, Room, hwVars
<1> QED BY <1>1, <1>4, <1>5, <1>6

\* A descriptor published is one more for the engine to send.
LEMMA PublishUnsent ==
  ASSUME IInv, TransmitPublish
  PROVE  Unsent' = Unsent + 1 /\ Unsent \in Nat
<1> USE DEF IInv
<1>1. /\ State = "Initialized" /\ InFlight < TxCount /\ InFlight \in Nat
      /\ HeadSlot \in Slots /\ hwSlot \in Slots /\ hwSlot' = hwSlot
      /\ PublishedSlot = HeadSlot /\ Held = InFlight
  BY CursorRange DEF TransmitPublish, CallInProgress, TypeOK, PublishedSlot, Held, hwVars
<1>2. PublishedSlot' = IF HeadSlot = TxCount - 1 THEN 0 ELSE HeadSlot + 1
  BY SameCursors DEF TransmitPublish, PublishedSlot
<1>3. used' = [used EXCEPT ![HeadSlot] = FALSE] /\ used \in [Slots -> BOOLEAN]
  BY DEF TransmitPublish, TypeOK
<1>4. /\ \A i \in Slots : ~used[i] <=> Ahead(hwSlot, i) < Unsent
      /\ Unsent <= InFlight
      /\ Unsent = 0 => hwSlot = HeadSlot
  BY <1>1 DEF DmaInStep
<1>5. Unsent \in Nat
  BY <1>1, TxAssumption DEF Unsent, Ahead, Slots
<1> QED BY <1>1, <1>2, <1>3, <1>4, <1>5, TxAssumption DEF Unsent, Ahead, Slots

LEMMA TransmitPublishInv == ASSUME IInv, TransmitPublish PROVE IInv'
<1> USE DEF IInv
<1>1. TypeOK'
  BY CursorRange DEF TypeOK, TransmitPublish, hwVars
<1>2. InFlight' = InFlight /\ HeadSlot' = HeadSlot /\ TailSlot' = TailSlot
  BY SameCursors DEF TransmitPublish
<1>3. CursorsAgree' /\ CallInProgress' /\ DmaEnabled'
  BY <1>2, CursorRange
  DEF CursorsAgree, SlotAt, CallInProgress, DmaEnabled, TransmitPublish, hwVars, TypeOK
<1>4. WindowExact' /\ NoSharedBuffer' /\ NoLostBuffer'
  BY <1>2
  DEF WindowExact, NoSharedBuffer, NoLostBuffer, HeldBufs, ClientSees, TransmitPublish
<1>5. DmaInStep'
  <2>1. /\ State = "Initialized" /\ InFlight < TxCount
        /\ HeadSlot \in Slots /\ hwSlot \in Slots
        /\ PublishedSlot = HeadSlot /\ Held = InFlight
        /\ InFlight \in Nat
    BY CursorRange, TxAssumption
    DEF TransmitPublish, CallInProgress, TypeOK, PublishedSlot, Held
  <2>2. /\ PublishedSlot' = IF HeadSlot = TxCount - 1 THEN 0 ELSE HeadSlot + 1
        /\ Held' = InFlight + 1
    BY <1>2 DEF TransmitPublish, PublishedSlot, Held
  <2>3. /\ used' = [used EXCEPT ![HeadSlot] = FALSE] /\ hwSlot' = hwSlot
        /\ State' = State /\ used \in [Slots -> BOOLEAN]
    BY DEF TransmitPublish, hwVars, TypeOK
  <2>4. /\ \A i \in Slots : ~used[i] <=> Ahead(hwSlot, i) < Unsent
        /\ Unsent <= InFlight
        /\ Unsent = 0 => hwSlot = HeadSlot
    BY <2>1 DEF DmaInStep
  <2>5. Unsent' = Unsent + 1 /\ Unsent \in Nat
    BY PublishUnsent
  <2>6. \A i \in Slots : ~used'[i] <=> Ahead(hwSlot, i) < Unsent + 1
    BY <2>1, <2>3, <2>4, TxAssumption DEF Unsent, Ahead, Slots
  <2> QED BY <2>1, <2>2, <2>3, <2>4, <2>5, <2>6 DEF DmaInStep
<1>6. NoLostKick'
  BY DEF NoLostKick, TransmitPublish
<1> QED BY <1>1, <1>3, <1>4, <1>5, <1>6
LEMMA TransmitBookInv == ASSUME IInv, TransmitBook PROVE IInv'
<1> USE DEF IInv
<1>1. /\ State = "Initialized" /\ pc = "published" /\ pc' = "booked"
      /\ cur.buf \in clientBufs /\ cur' = cur /\ State' = State
      /\ clientBufs' = clientBufs /\ clientBufs \subseteq Buffers
      /\ InFlight < TxCount
  BY DEF TransmitBook, CallInProgress, TypeOK
<1>2. TypeOK'
  BY <1>1, CursorRange, CounterStep DEF TypeOK, TransmitBook, ringVars, hwVars
<1>3. /\ InFlight' = InFlight + 1
      /\ TailSlot' = TailSlot
      /\ HeadSlot' = IF HeadSlot = TxCount - 1 THEN 0 ELSE HeadSlot + 1
      /\ HeadSlot \in Slots /\ TailSlot \in Slots /\ InFlight \in Nat
  <2>1. TxProd' = Inc(TxProd) /\ TxCons' = TxCons
    BY DEF TransmitBook
  <2> QED BY <1>1, <2>1, BookCursors
<1>4. TxUserBuffer' = [TxUserBuffer EXCEPT ![HeadSlot] = cur.buf]
      /\ TxUserBuffer \in [Slots -> Buffers \cup {NoBuffer}]
      /\ cur.buf # NoBuffer
  BY <1>1, TxAssumption DEF TransmitBook, TypeOK
<1>5. HeadSlot = SlotAt(InFlight)
  BY DEF CursorsAgree
<1>6. CursorsAgree'
  BY <1>1, <1>3, <1>5, TxAssumption DEF CursorsAgree, SlotAt, Slots
<1>7. CallInProgress' /\ DmaEnabled'
  <2>1. InFlight' > 0 /\ TxUserBuffer'[SlotAt(InFlight - 1)'] = cur.buf
    <3>1. SlotAt(InFlight - 1)' = HeadSlot
      BY <1>3, <1>5, TxAssumption DEF SlotAt, Slots
    <3> QED BY <1>3, <1>4, <3>1
  <2> QED
    BY <1>1, <2>1 DEF CallInProgress, DmaEnabled, TransmitBook, ringVars, hwVars
<1>8. WindowExact'
  <2>1. \A i \in Slots : TxUserBuffer[i] # NoBuffer <=> Ahead(TailSlot, i) < InFlight
    BY <1>1 DEF WindowExact
  <2>2. Ahead(TailSlot, HeadSlot) = InFlight
    BY <1>1, <1>3, <1>5, TxAssumption DEF SlotAt, Slots, Ahead
  <2>3. \A i \in Slots : Ahead(TailSlot, i) = InFlight => i = HeadSlot
    BY <1>3, <2>2, TxAssumption DEF Slots, Ahead
  <2>4. \A i \in Slots : Ahead(TailSlot, i) \in Int
    BY <1>3, TxAssumption DEF Slots, Ahead
  <2>5. \A i \in Slots : TxUserBuffer'[i] # NoBuffer <=> Ahead(TailSlot, i) < InFlight + 1
    BY <1>3, <1>4, <2>1, <2>2, <2>3, <2>4
  <2>6. InFlight + 1 <= TxCount
    BY <1>1, <1>3, TxAssumption
  <2> QED BY <1>3, <2>5, <2>6 DEF WindowExact, Ahead
<1>9. NoSharedBuffer' /\ NoLostBuffer'
  <2>1. /\ HeldBufs \cap clientBufs = {}
        /\ \A i, j \in Slots :
             (TxUserBuffer[i] = TxUserBuffer[j] /\ TxUserBuffer[i] # NoBuffer) => i = j
        /\ Buffers \subseteq HeldBufs \cup clientBufs
    BY <1>1 DEF NoSharedBuffer, NoLostBuffer, ClientSees
  <2>2. ClientSees' = clientBufs \ {cur.buf}
    BY <1>1 DEF ClientSees
  <2>3. TxUserBuffer[HeadSlot] = NoBuffer
    <3>1. Ahead(TailSlot, HeadSlot) = InFlight
      BY <1>1, <1>3, <1>5, TxAssumption DEF SlotAt, Slots, Ahead
    <3> QED BY <1>1, <1>3, <3>1 DEF WindowExact
  <2>4. HeldBufs' = HeldBufs \cup {cur.buf}
    BY <1>3, <1>4, <2>3 DEF HeldBufs
  <2>5. \A i \in Slots : TxUserBuffer[i] # cur.buf
    BY <1>1, <1>4, <2>1 DEF HeldBufs
  <2>6. NoSharedBuffer'
    BY <1>4, <2>1, <2>2, <2>4, <2>5 DEF NoSharedBuffer
  <2>7. NoLostBuffer'
    BY <1>1, <2>1, <2>2, <2>4 DEF NoLostBuffer
  <2> QED BY <2>6, <2>7
<1>10. DmaInStep' /\ NoLostKick'
  <2>1. /\ used' = used /\ hwSlot' = hwSlot
    BY DEF TransmitBook, ringVars, hwVars
  <2>2. PublishedSlot' = PublishedSlot /\ Held' = Held
    BY <1>1, <1>3 DEF PublishedSlot, Held
  <2>3. Unsent' = Unsent
    BY <2>1, <2>2 DEF Unsent, Ahead
  <2> QED BY <1>1, <2>1, <2>2, <2>3 DEF DmaInStep, NoLostKick, Ahead
<1> QED BY <1>2, <1>6, <1>7, <1>8, <1>9, <1>10

LEMMA TransmitKickInv == ASSUME IInv, TransmitKick PROVE IInv'
<1> USE DEF IInv
<1>1. /\ State = "Initialized" /\ pc = "booked" /\ pc' = "idle" /\ State' = State
      /\ cur.buf \in clientBufs /\ clientBufs \subseteq Buffers
      /\ clientBufs' = clientBufs \ {cur.buf} /\ dma # "off" /\ dma' = "active"
  BY DEF TransmitKick, StartTx, CallInProgress, TypeOK, DmaEnabled
<1>2. TypeOK'
  BY DEF TypeOK, TransmitKick, StartTx, ringVars, NoCur
<1>3. InFlight' = InFlight /\ HeadSlot' = HeadSlot /\ TailSlot' = TailSlot
  BY SameCursors DEF TransmitKick, StartTx
<1>4. CursorsAgree' /\ CallInProgress' /\ DmaEnabled'
  BY <1>1, <1>3
  DEF CursorsAgree, SlotAt, CallInProgress, DmaEnabled, TransmitKick, StartTx, ringVars
<1>5. WindowExact' /\ NoSharedBuffer' /\ NoLostBuffer'
  BY <1>1, <1>3
  DEF WindowExact, NoSharedBuffer, NoLostBuffer, HeldBufs, ClientSees, TransmitKick, StartTx
<1>6. DmaInStep' /\ NoLostKick'
  <2>1. PublishedSlot' = PublishedSlot /\ Held' = Held
    BY <1>1, <1>3 DEF PublishedSlot, Held
  <2>2. Unsent' = Unsent
    BY <2>1 DEF Unsent, Ahead, TransmitKick, StartTx, ringVars
  <2> QED
    BY <1>1, <2>1, <2>2 DEF DmaInStep, NoLostKick, Ahead, TransmitKick, StartTx, ringVars
<1> QED BY <1>2, <1>4, <1>5, <1>6
\* A buffer is only returned once its frame is sent.
LEMMA RecycleUnsent ==
  ASSUME IInv, GetRecycledTxBuffer
  PROVE  Unsent' = Unsent /\ Unsent \in Nat /\ Unsent <= InFlight - 1
<1> USE DEF IInv
<1>1. /\ State = "Initialized" /\ pc = "idle" /\ pc' = "idle" /\ used[TailSlot] /\ TxCons # TxProd
      /\ used' = used /\ hwSlot' = hwSlot /\ hwSlot \in Slots
  BY DEF GetRecycledTxBuffer, Completed, ringVars, hwVars, TypeOK
<1>2. /\ HeadSlot \in Slots /\ TailSlot \in Slots /\ HeadSlot' = HeadSlot
      /\ InFlight \in Nat /\ InFlight > 0 /\ InFlight <= TxCount /\ HeadSlot = SlotAt(InFlight)
  BY <1>1, CursorRange, TxAssumption DEF TypeOK, CursorsAgree, HeadSlot, GetRecycledTxBuffer
<1>3. PublishedSlot = HeadSlot /\ PublishedSlot' = HeadSlot /\ Held = InFlight
  BY <1>1, <1>2 DEF PublishedSlot, Held
<1>4. Unsent' = Unsent /\ Unsent \in Nat
  BY <1>1, <1>2, <1>3, TxAssumption DEF Unsent, Ahead, Slots
<1>5. /\ \A i \in Slots : ~used[i] <=> Ahead(hwSlot, i) < Unsent
      /\ Unsent <= InFlight
      /\ Unsent = 0 => hwSlot = HeadSlot
  BY <1>1, <1>3 DEF DmaInStep
<1>6. ~(Ahead(hwSlot, TailSlot) < Unsent)
  BY <1>1, <1>2, <1>5
<1>7. Unsent <= InFlight - 1
  BY <1>1, <1>2, <1>3, <1>4, <1>5, <1>6, TxAssumption DEF SlotAt, Ahead, Slots, Unsent
<1> QED BY <1>4, <1>7

LEMMA GetRecycledInv == ASSUME IInv, GetRecycledTxBuffer PROVE IInv'
<1> USE DEF IInv
<1> DEFINE buf == TxUserBuffer[TailSlot]
<1>1. /\ State = "Initialized" /\ pc = "idle" /\ pc' = "idle" /\ State' = State
      /\ cur' = cur /\ used[TailSlot] /\ TxCons # TxProd
      /\ clientBufs \subseteq Buffers
      /\ clientBufs' = clientBufs \cup {buf}
      /\ TxUserBuffer' = [TxUserBuffer EXCEPT ![TailSlot] = NoBuffer]
      /\ TxUserBuffer \in [Slots -> Buffers \cup {NoBuffer}]
  BY DEF GetRecycledTxBuffer, Completed, TypeOK
<1>2. /\ HeadSlot \in Slots /\ TailSlot \in Slots
      /\ InFlight \in Nat /\ InFlight > 0 /\ InFlight <= TxCount
  BY <1>1, CursorRange, TxAssumption DEF TypeOK, CursorsAgree
<1>3. buf \in Buffers /\ buf # NoBuffer
  <2>1. Ahead(TailSlot, TailSlot) < InFlight
    BY <1>2, TxAssumption DEF Ahead, Slots
  <2> QED BY <1>1, <1>2, <2>1 DEF WindowExact
<1>4. TypeOK'
  BY <1>1, <1>2, <1>3, CounterStep DEF TypeOK, GetRecycledTxBuffer, Completed, ringVars, hwVars
<1>5. /\ InFlight' = InFlight - 1
      /\ HeadSlot' = HeadSlot
      /\ TailSlot' = IF TailSlot = TxCount - 1 THEN 0 ELSE TailSlot + 1
  <2>1. TxCons' = Inc(TxCons) /\ TxProd' = TxProd
    BY DEF GetRecycledTxBuffer
  <2> QED BY <1>1, <2>1, RecycleCursors
<1>6. HeadSlot = SlotAt(InFlight)
  BY DEF CursorsAgree
<1>7. CursorsAgree'
  BY <1>2, <1>5, <1>6, TxAssumption DEF CursorsAgree, SlotAt, Slots
<1>8. CallInProgress' /\ DmaEnabled'
  BY <1>1 DEF CallInProgress, DmaEnabled, GetRecycledTxBuffer, Completed, ringVars, hwVars
<1>9. WindowExact'
  <2>1. \A i \in Slots : TxUserBuffer[i] # NoBuffer <=> Ahead(TailSlot, i) < InFlight
    BY <1>1 DEF WindowExact
  <2>2. \A i \in Slots : TxUserBuffer'[i] # NoBuffer <=> Ahead(TailSlot', i) < InFlight - 1
    <3> SUFFICES ASSUME NEW i \in Slots
                 PROVE  TxUserBuffer'[i] # NoBuffer <=> Ahead(TailSlot', i) < InFlight - 1
      OBVIOUS
    <3>1. CASE i = TailSlot
      <4>1. TxUserBuffer'[i] = NoBuffer
        BY <1>1, <1>2, <3>1
      <4>2. Ahead(TailSlot', i) = TxCount - 1
        BY <1>2, <1>5, <3>1, TxAssumption DEF Ahead, Slots
      <4> QED BY <1>2, <4>1, <4>2, TxAssumption
    <3>2. CASE i # TailSlot
      <4>1. TxUserBuffer'[i] = TxUserBuffer[i]
        BY <1>1, <3>2
      <4>2. Ahead(TailSlot', i) = Ahead(TailSlot, i) - 1
        BY <1>2, <1>5, <3>2, TxAssumption DEF Ahead, Slots
      <4>3. Ahead(TailSlot, i) \in Int
        BY <1>2, TxAssumption DEF Ahead, Slots
      <4> QED BY <1>2, <2>1, <4>1, <4>2, <4>3
    <3> QED BY <3>1, <3>2
  <2>3. InFlight' <= TxCount
    BY <1>2, <1>5, TxAssumption
  <2> QED BY <1>5, <2>2, <2>3 DEF WindowExact, Ahead
<1>10. NoSharedBuffer' /\ NoLostBuffer'
  <2>1. /\ HeldBufs \cap clientBufs = {}
        /\ \A i, j \in Slots :
             (TxUserBuffer[i] = TxUserBuffer[j] /\ TxUserBuffer[i] # NoBuffer) => i = j
        /\ Buffers \subseteq HeldBufs \cup clientBufs
    BY <1>1 DEF NoSharedBuffer, NoLostBuffer, ClientSees
  <2>2. ClientSees' = clientBufs \cup {buf}
    BY <1>1 DEF ClientSees
  <2>3. HeldBufs' = HeldBufs \ {buf}
    BY <1>1, <1>2, <1>3, <2>1 DEF HeldBufs
  <2>4. NoSharedBuffer'
    BY <1>1, <1>2, <2>1, <2>2, <2>3 DEF NoSharedBuffer
  <2>5. NoLostBuffer'
    BY <2>1, <2>2, <2>3 DEF NoLostBuffer
  <2> QED BY <2>4, <2>5
<1>11. DmaInStep' /\ NoLostKick'
  <2>1. used' = used /\ hwSlot' = hwSlot /\ dma' = dma /\ hwSlot \in Slots
    BY DEF GetRecycledTxBuffer, Completed, ringVars, hwVars, TypeOK
  <2>2. /\ PublishedSlot = HeadSlot /\ PublishedSlot' = HeadSlot
        /\ Held = InFlight /\ Held' = InFlight - 1
    BY <1>1, <1>2, <1>5 DEF PublishedSlot, Held
  <2>3. Unsent' = Unsent /\ Unsent \in Nat /\ Unsent <= InFlight - 1
    BY RecycleUnsent
  <2>4. /\ \A i \in Slots : ~used[i] <=> Ahead(hwSlot, i) < Unsent
        /\ Unsent <= InFlight
        /\ Unsent = 0 => hwSlot = HeadSlot
    BY <1>1, <2>2 DEF DmaInStep
  <2> QED BY <1>1, <2>1, <2>2, <2>3, <2>4 DEF DmaInStep, NoLostKick, Ahead
<1> QED BY <1>4, <1>7, <1>8, <1>9, <1>10, <1>11

-----------------------------------------------------------------------------
(* Steps of the DMA engine.                                                *)

\* A descriptor finished is one less, and the last one meets the driver.
LEMMA HwFinishUnsent ==
  ASSUME IInv, HwFinish
  PROVE  Unsent \in 1 .. TxCount /\ Unsent' = Unsent - 1 /\ (Unsent = 1 => hwSlot' = PublishedSlot)
<1> USE DEF IInv
<1>1. /\ State = "Initialized" /\ ~used[hwSlot] /\ hwSlot \in Slots
      /\ used' = [used EXCEPT ![hwSlot] = TRUE] /\ used \in [Slots -> BOOLEAN]
      /\ hwSlot' = IF hwSlot = TxCount - 1 THEN 0 ELSE hwSlot + 1
  BY DEF HwFinish, HwNextSlot, DmaEnabled, TypeOK
<1>2. PublishedSlot' = PublishedSlot /\ PublishedSlot \in Slots
  BY SameCursors, CursorRange, TxAssumption DEF PublishedSlot, HwFinish, driverVars, Slots
<1>3. \A i \in Slots : ~used[i] <=> Ahead(hwSlot, i) < Unsent
  BY <1>1 DEF DmaInStep
<1>4. /\ Unsent \in 1 .. TxCount
      /\ Unsent = IF Ahead(hwSlot, PublishedSlot) = 0 THEN TxCount
                  ELSE Ahead(hwSlot, PublishedSlot)
  BY <1>1, <1>2, TxAssumption DEF Unsent, Ahead, Slots
<1>5. \A i \in Slots : ~used'[i] <=> Ahead(hwSlot', i) < Unsent - 1
  BY <1>1, <1>3, <1>4, TxAssumption, SMTT(30) DEF Ahead, Slots
<1>6. hwSlot' \in Slots
  BY <1>1, TxAssumption DEF Slots
<1>7. Unsent = 1 => hwSlot' = PublishedSlot
  BY <1>1, <1>2, <1>4, TxAssumption DEF Ahead, Slots
<1>8. Unsent' = IF used'[hwSlot'] THEN 0
                ELSE IF Ahead(hwSlot', PublishedSlot) = 0 THEN TxCount
                ELSE Ahead(hwSlot', PublishedSlot)
  BY <1>2 DEF Unsent, Ahead
<1>9. ~used'[hwSlot'] <=> 0 < Unsent - 1
  <2>1. \A i \in Slots : Ahead(i, i) = 0
    BY TxAssumption DEF Ahead, Slots
  <2>2. Ahead(hwSlot', hwSlot') = 0
    BY <1>6, <2>1, Zenon
  <2>3. ~used'[hwSlot'] <=> Ahead(hwSlot', hwSlot') < Unsent - 1
    BY <1>5, <1>6, Zenon
  <2> QED BY <2>2, <2>3, Zenon
<1>10. CASE Unsent = 1
  BY <1>4, <1>7, <1>8, <1>9, <1>10
<1>11. CASE Unsent # 1
  <2>1. Ahead(hwSlot', PublishedSlot) = Unsent - 1
    BY <1>1, <1>2, <1>4, <1>11, TxAssumption DEF Ahead, Slots
  <2> QED BY <1>4, <1>7, <1>8, <1>9, <1>11, <2>1
<1> QED BY <1>10, <1>11

LEMMA HwFinishInv == ASSUME IInv, HwFinish PROVE IInv'
<1> USE DEF IInv
<1>1. /\ State = "Initialized" /\ State' = State /\ pc' = pc /\ cur' = cur
      /\ TxUserBuffer' = TxUserBuffer /\ clientBufs' = clientBufs
      /\ dma = "active" /\ dma' = dma /\ ~used[hwSlot] /\ hwSlot \in Slots
      /\ used' = [used EXCEPT ![hwSlot] = TRUE] /\ used \in [Slots -> BOOLEAN]
  BY DEF HwFinish, driverVars, DmaEnabled, TypeOK
<1>2. hwSlot' = IF hwSlot = TxCount - 1 THEN 0 ELSE hwSlot + 1
  BY <1>1 DEF HwFinish, HwNextSlot, DmaEnabled
<1>3. TypeOK'
  BY <1>1, <1>2, TxAssumption DEF TypeOK, HwFinish, driverVars, Slots
<1>4. InFlight' = InFlight /\ HeadSlot' = HeadSlot /\ TailSlot' = TailSlot
  BY SameCursors DEF HwFinish, driverVars
<1>5. CursorsAgree' /\ CallInProgress' /\ DmaEnabled'
  BY <1>1, <1>4
  DEF CursorsAgree, SlotAt, CallInProgress, DmaEnabled, HwFinish
<1>6. WindowExact' /\ NoSharedBuffer' /\ NoLostBuffer'
  BY <1>1, <1>4 DEF WindowExact, NoSharedBuffer, NoLostBuffer, HeldBufs, ClientSees
<1>7. DmaInStep'
  <2>1. PublishedSlot' = PublishedSlot /\ Held' = Held
    BY <1>1, <1>4 DEF PublishedSlot, Held
  <2>2. PublishedSlot \in Slots
    BY CursorRange, TxAssumption DEF PublishedSlot, Slots
  <2>3. /\ \A i \in Slots : ~used[i] <=> Ahead(hwSlot, i) < Unsent
        /\ Unsent <= Held
    BY <1>1 DEF DmaInStep
  <2>4. Unsent \in 1 .. TxCount
    BY <1>1, <2>2, TxAssumption DEF Unsent, Ahead, Slots
  <2>5. Held \in Nat
    BY CursorRange, TxAssumption DEF Held
  <2>6. \A i \in Slots : ~used'[i] <=> Ahead(hwSlot', i) < Unsent - 1
    BY <1>1, <1>2, <2>3, <2>4, TxAssumption DEF Ahead, Slots
  <2>7. hwSlot' \in Slots
    BY <1>3 DEF TypeOK
  <2>8. Unsent' = Unsent - 1 /\ (Unsent = 1 => hwSlot' = PublishedSlot)
    BY HwFinishUnsent
  <2>9. \A i \in Slots : (~used[i])' <=> Ahead(hwSlot, i)' < Unsent'
    BY <2>6, <2>8 DEF Ahead
  <2>10. Unsent' <= Held' /\ (Unsent' = 0 => hwSlot' = PublishedSlot')
    BY <2>1, <2>3, <2>4, <2>5, <2>8
  <2> QED BY <2>9, <2>10 DEF DmaInStep
<1>8. NoLostKick'
  BY <1>1 DEF NoLostKick
<1> QED BY <1>3, <1>5, <1>6, <1>7, <1>8

LEMMA HwHaltInv == ASSUME IInv, HwHalt PROVE IInv'
<1> USE DEF IInv
<1>1. /\ State = "Initialized" /\ dma' = "idle" /\ used[hwSlot] /\ hwSlot \in Slots
      /\ UNCHANGED <<driverVars, ringVars, hwSlot, clientBufs, wire>>
  BY DEF HwHalt, DmaEnabled, TypeOK
<1>2. TypeOK'
  BY <1>1 DEF TypeOK, driverVars, ringVars
<1>3. InFlight' = InFlight /\ HeadSlot' = HeadSlot /\ TailSlot' = TailSlot
  BY <1>1, SameCursors DEF driverVars
<1>4. CursorsAgree' /\ CallInProgress' /\ DmaEnabled'
  BY <1>1, <1>3 DEF CursorsAgree, SlotAt, CallInProgress, DmaEnabled, driverVars, ringVars
<1>5. WindowExact' /\ NoSharedBuffer' /\ NoLostBuffer'
  BY <1>1, <1>3
  DEF WindowExact, NoSharedBuffer, NoLostBuffer, HeldBufs, ClientSees, driverVars
<1>6. DmaInStep'
  <2>1. PublishedSlot' = PublishedSlot /\ Held' = Held
    BY <1>1, <1>3 DEF PublishedSlot, Held, driverVars
  <2>2. Unsent' = Unsent
    BY <1>1, <2>1 DEF Unsent, Ahead, ringVars
  <2> QED BY <1>1, <2>1, <2>2 DEF DmaInStep, Ahead, ringVars, driverVars
<1>7. NoLostKick'
  <2>1. Unsent = 0
    BY <1>1 DEF Unsent
  <2>2. \A i \in Slots : Ahead(hwSlot, i) >= 0 /\ Ahead(hwSlot, i) \in Int
    BY <1>1, TxAssumption DEF Ahead, Slots
  <2>3. \A i \in Slots : used[i]
    BY <1>1, <2>1, <2>2 DEF DmaInStep
  <2> QED BY <1>1, <2>3 DEF NoLostKick, ringVars
<1> QED BY <1>2, <1>4, <1>5, <1>6, <1>7

-----------------------------------------------------------------------------
\* IInv is an invariant: every step of the driver and of the DMA engine
\* preserves the whole of the ring bookkeeping.
THEOREM RingInvariant == Spec => []IInv
<1>1. Init => IInv
  BY InitInv
<1>2. IInv /\ [Next]_vars => IInv'
  <2> SUFFICES ASSUME IInv, [Next]_vars PROVE IInv'
    OBVIOUS
  <2>1. ASSUME NEW ok \in BOOLEAN, Initialize(ok) PROVE IInv'
    BY <2>1, InitializeInv
  <2>2. CASE Shutdown
    BY <2>2, ShutdownInv
  <2>3. ASSUME NEW b \in Buffers, NEW f \in Frames, TransmitCopy(b, f) PROVE IInv'
    BY <2>3, TransmitCopyInv
  <2>4. CASE TransmitPublish
    BY <2>4, TransmitPublishInv
  <2>5. CASE TransmitBook
    BY <2>5, TransmitBookInv
  <2>6. CASE TransmitKick
    BY <2>6, TransmitKickInv
  <2>7. CASE GetRecycledTxBuffer
    BY <2>7, GetRecycledInv
  <2>8. CASE HwFinish
    BY <2>8, HwFinishInv
  <2>9. CASE HwHalt
    BY <2>9, HwHaltInv
  <2>10. CASE UNCHANGED vars
    BY <2>10
    DEF vars, driverVars, ringVars, hwVars, IInv, TypeOK, CursorsAgree, SlotAt,
        CallInProgress, DmaEnabled, WindowExact, NoSharedBuffer, NoLostBuffer,
        DmaInStep, NoLostKick, InFlight, HeadSlot, TailSlot, HeldBufs, ClientSees,
        Unsent, Held, PublishedSlot, Ahead
  <2> QED
    BY <2>1, <2>2, <2>3, <2>4, <2>5, <2>6, <2>7, <2>8, <2>9, <2>10
    DEF Next, Transmitting, Hardware
<1> QED BY <1>1, <1>2, PTL DEF Spec

\* Type correctness of every reachable state.
THEOREM TypeCorrect == Spec => []TypeOK
  BY RingInvariant, PTL DEF IInv

\* Custody: a transmit buffer is always in exactly one of two places, the
\* client's hands or one slot of the ring between the cursors, so GetStatus
\* neither loses a buffer nor returns one twice.
THEOREM BufferCustody == Spec => []CustodyExact
  BY RingInvariant, PTL DEF IInv, CustodyExact

\* Every published frame is still ahead of a running DMA engine.
THEOREM NothingStuck == Spec => [](DmaInStep /\ NoLostKick)
  BY RingInvariant, PTL DEF IInv
\* The slot a new frame is copied into belongs to the driver.
LEMMA HeadSlotFree ==
  ASSUME IInv, State = "Initialized", pc = "idle", InFlight < TxCount
  PROVE  used[HeadSlot]
<1> USE DEF IInv
<1>1. /\ HeadSlot \in Slots /\ InFlight \in Nat /\ hwSlot \in Slots
      /\ PublishedSlot = HeadSlot /\ Held = InFlight
  BY CursorRange, TxAssumption DEF TypeOK, PublishedSlot, Held
<1>2. /\ \A i \in Slots : ~used[i] <=> Ahead(hwSlot, i) < Unsent
      /\ Unsent <= InFlight
  BY <1>1 DEF DmaInStep
<1>3. Ahead(hwSlot, HeadSlot) \in Nat
  BY <1>1, TxAssumption DEF Ahead, Slots
<1>4. ~(Ahead(hwSlot, HeadSlot) < Unsent)
  BY <1>1, <1>2, <1>3, TxAssumption DEF Unsent
<1> QED BY <1>1, <1>2, <1>4

\* No DMA race on frame data: the driver copies a frame only into a bounce
\* buffer whose descriptor the DMA engine has given back.
THEOREM DmaRaceFree == Spec => NoBounceOverwrite
<1>1. IInv /\ [Next]_vars => [\A i \in Slots : bounce'[i] # bounce[i] => used[i]]_vars
  <2> SUFFICES ASSUME IInv, Next, NEW i \in Slots, bounce'[i] # bounce[i]
               PROVE  used[i]
    BY DEF vars, ringVars
  <2>1. ASSUME NEW b \in Buffers, NEW f \in Frames, TransmitCopy(b, f) PROVE used[i]
    <3>1. State = "Initialized" /\ pc = "idle" /\ InFlight < TxCount
      BY <2>1, CursorRange, TxAssumption DEF TransmitCopy, Room, IInv
    <3>2. i = HeadSlot
      BY <2>1 DEF TransmitCopy, Room, IInv, TypeOK
    <3> QED BY <3>1, <3>2, HeadSlotFree
  <2>2. CASE \E b \in Buffers, f \in Frames : TransmitCopy(b, f)
    BY <2>1, <2>2
  <2>3. CASE bounce' = bounce
    BY <2>3
  <2> QED
    BY <2>2, <2>3
    DEF Next, Transmitting, Hardware, Initialize, Shutdown, TransmitPublish,
        TransmitBook, TransmitKick, StartTx, GetRecycledTxBuffer, Completed, HwFinish, HwHalt, ringVars
<1> QED BY <1>1, RingInvariant, PTL DEF Spec, NoBounceOverwrite

-----------------------------------------------------------------------------
(* The refinement: every step of the ring is a step of the FIFO, or none.  *)

\* A function on 1 .. n is a queue of length n.
LEMMA FunctionIsQueue ==
  ASSUME NEW S, NEW n \in Nat, NEW s \in [1 .. n -> S]
  PROVE  s \in Seq(S) /\ Len(s) = n
  OBVIOUS

\* A queue that agrees with another one up to its last element.
LEMMA QueueGrows ==
  ASSUME NEW S, NEW n \in Nat, NEW s \in [1 .. n -> S], NEW t \in [1 .. n + 1 -> S],
         \A k \in 1 .. n : t[k] = s[k]
  PROVE  t = Append(s, t[n + 1])
<1>1. s \in Seq(S) /\ Len(s) = n /\ t \in Seq(S) /\ Len(t) = n + 1 /\ t[n + 1] \in S
  BY FunctionIsQueue
<1>2. /\ Append(s, t[n + 1]) \in Seq(S) /\ Len(Append(s, t[n + 1])) = n + 1
      /\ \A k \in 1 .. n : Append(s, t[n + 1])[k] = s[k]
      /\ Append(s, t[n + 1])[n + 1] = t[n + 1]
  BY <1>1, AppendProperties
<1>3. \A k \in 1 .. n + 1 : k \in 1 .. n \/ k = n + 1
  OBVIOUS
<1>4. \A k \in 1 .. n + 1 : t[k] = Append(s, t[n + 1])[k]
  BY <1>2, <1>3
<1> QED BY <1>1, <1>2, <1>4, SeqEqual

\* A queue that has moved up by one.
LEMMA QueueShrinks ==
  ASSUME NEW S, NEW n \in Nat, NEW s \in [1 .. n + 1 -> S], NEW t \in [1 .. n -> S],
         \A k \in 1 .. n : t[k] = s[k + 1]
  PROVE  s # <<>> /\ Head(s) = s[1] /\ t = Tail(s)
<1>1. s \in Seq(S) /\ Len(s) = n + 1 /\ t \in Seq(S) /\ Len(t) = n
  BY FunctionIsQueue
<1>2. s # <<>>
  BY <1>1
<1>3. Tail(s) \in Seq(S) /\ Len(Tail(s)) = n /\ \A k \in 1 .. n : Tail(s)[k] = s[k + 1]
  BY <1>1, <1>2, HeadTailProperties
<1>4. t = Tail(s)
  BY <1>1, <1>3, SeqEqual
<1> QED BY <1>1, <1>2, <1>4

EntryType == [buf : Buffers \cup {NoBuffer}, frame : Frames \cup {NoFrame}]

\* The places of the window are distinct slots, counted from the tail.
LEMMA WindowSlots ==
  ASSUME TypeOK
  PROVE  /\ \A k \in 0 .. TxCount - 1 : SlotAt(k) \in Slots /\ Ahead(TailSlot, SlotAt(k)) = k
         /\ \A k, l \in 0 .. TxCount - 1 : SlotAt(k) = SlotAt(l) => k = l
  BY CursorRange, TxAssumption DEF SlotAt, Slots, Ahead

\* What the FIFO holds while the interface is up.
QueueShape ==
  /\ InFlight \in Nat /\ InFlight <= Held /\ Held \in 0 .. TxCount
  /\ FifoQueue \in [1 .. Held -> EntryType] /\ Len(FifoQueue) = Held
  /\ \A k \in 1 .. Held : FifoQueue[k] = FifoEntry(k)

LEMMA QueueIs == IInv /\ FifoUp => QueueShape
<1> SUFFICES ASSUME IInv, FifoUp PROVE QueueShape
  OBVIOUS
<1> USE DEF IInv, FifoUp
<1>1. InFlight \in Nat /\ InFlight <= Held /\ Held \in 0 .. TxCount
  BY CursorRange, TxAssumption DEF Held, CursorsAgree, CallInProgress
<1>2. FifoQueue = [k \in 1 .. Held |-> FifoEntry(k)]
  BY DEF FifoQueue
<1>3. \A k \in 1 .. Held : FifoEntry(k) \in EntryType
  <2> SUFFICES ASSUME NEW k \in 1 .. Held PROVE FifoEntry(k) \in EntryType
    OBVIOUS
  <2>1. CASE k <= InFlight
    <3>1. k - 1 \in 0 .. TxCount - 1
      BY <1>1, TxAssumption
    <3>2. SlotAt(k - 1) \in Slots
      BY <3>1, WindowSlots
    <3> QED BY <2>1, <3>2 DEF FifoEntry, EntryType, TypeOK
  <2>2. CASE ~(k <= InFlight)
    BY <2>2 DEF FifoEntry, EntryType, TypeOK
  <2> QED BY <2>1, <2>2
<1>4. FifoQueue \in [1 .. Held -> EntryType]
  BY <1>2, <1>3
<1>5. Len(FifoQueue) = Held
  BY <1>1, <1>4, FunctionIsQueue
<1> QED BY <1>1, <1>2, <1>4, <1>5 DEF QueueShape

\* A step that leaves the length and the entries leaves the queue.
LEMMA QueueSame ==
  ASSUME State = "Initialized", State' = State, Held' = Held,
         \A k \in 1 .. Held : FifoEntry(k)' = FifoEntry(k)
  PROVE  FifoQueue' = FifoQueue
  BY DEF FifoQueue, FifoUp

\* CopyInPlace is invariant.
LEMMA CopyStep ==
  ASSUME IInv, CopyInPlace, [Next]_vars
  PROVE  CopyInPlace'
<1>1. TypeOK /\ CallInProgress
  BY DEF IInv
<1>2. ASSUME NEW b \in Buffers, NEW f \in Frames, TransmitCopy(b, f) PROVE CopyInPlace'
  BY <1>1, <1>2, CursorRange, SameCursors DEF TransmitCopy, CopyInPlace, TypeOK
<1>3. CASE TransmitPublish
  BY <1>3, SameCursors DEF TransmitPublish, CopyInPlace
<1>4. CASE \/ TransmitBook \/ TransmitKick
  BY <1>4 DEF TransmitBook, TransmitKick, CopyInPlace
<1>5. CASE \/ \E ok \in BOOLEAN : Initialize(ok)
           \/ Shutdown \/ GetRecycledTxBuffer
  BY <1>1, <1>5 DEF Initialize, Shutdown, GetRecycledTxBuffer, CopyInPlace, CallInProgress
<1>6. CASE HwFinish \/ HwHalt \/ UNCHANGED vars
  BY <1>6, SameCursors DEF HwFinish, HwHalt, vars, driverVars, ringVars, CopyInPlace
<1> QED BY <1>2, <1>3, <1>4, <1>5, <1>6 DEF Next, Transmitting, Hardware

LEMMA CopyInvariant == Spec => []CopyInPlace
<1>1. Init => CopyInPlace
  BY DEF Init, CopyInPlace
<1>2. IInv /\ CopyInPlace /\ [Next]_vars => CopyInPlace'
  BY CopyStep
<1> QED BY <1>1, <1>2, RingInvariant, PTL DEF Spec

LEMMA FifoInit == Init => Fifo!Init
  BY DEF Init, Fifo!Init, FifoUp, FifoQueue, FifoDone, FifoClient

LEMMA FifoOpen ==
  ASSUME IInv, NEW ok \in BOOLEAN, Initialize(ok)
  PROVE  Fifo!Next \/ UNCHANGED Fifo!vars
<1>1. pc = "idle" /\ pc' = "idle" /\ State = "Started" /\ clientBufs' = clientBufs /\ wire' = wire
  BY DEF IInv, CallInProgress, TypeOK, Initialize
<1>2. FifoClient' = FifoClient /\ FifoQueue = <<>> /\ FifoDone = 0 /\ ~FifoUp
  BY <1>1 DEF FifoClient, FifoQueue, FifoDone, FifoUp
<1>3. CASE ok
  <2>1. State' = "Initialized" /\ TxProd' = 0 /\ TxCons' = 0 /\ hwSlot' = 0 /\ 0 \in Slots
        /\ used' = [i \in Slots |-> TRUE]
    BY <1>3, TxAssumption DEF Initialize, GemInitRings, Slots
  <2>2. Held' = 0 /\ Unsent' = 0
    <3>1. InFlight' = 0
      BY <2>1, TxAssumption DEF InFlight
    <3> QED BY <1>1, <2>1, <3>1 DEF Held, Unsent
  <2>3. FifoUp' /\ FifoDone' = 0
    BY <2>1, <2>2 DEF FifoUp, FifoDone
  <2>4. FifoQueue' = <<>>
    BY <2>2, <2>3 DEF FifoQueue
  <2> QED BY <1>1, <1>2, <2>3, <2>4 DEF Fifo!Next, Fifo!Open
<1>4. CASE ~ok
  <2>1. State' = "Started"
    BY <1>1, <1>4 DEF Initialize
  <2> QED BY <1>1, <1>2, <2>1 DEF Fifo!vars, FifoQueue, FifoDone, FifoUp
<1> QED BY <1>3, <1>4

LEMMA FifoClose == ASSUME IInv, Shutdown PROVE Fifo!Next
<1>1. /\ FifoUp /\ ~FifoUp' /\ FifoQueue' = <<>> /\ FifoDone' = 0
      /\ FifoClient' = Buffers /\ wire' = wire
  BY DEF Shutdown, FifoUp, FifoQueue, FifoDone, FifoClient
<1> QED BY <1>1 DEF Fifo!Next, Fifo!Close, FifoUp

\* Copying writes a bounce buffer outside the window: the FIFO stands still.
LEMMA FifoCopy ==
  ASSUME IInv, NEW b \in Buffers, NEW f \in Frames, TransmitCopy(b, f)
  PROVE  UNCHANGED Fifo!vars
<1> USE DEF IInv
<1>1. /\ State = "Initialized" /\ State' = State /\ pc = "idle" /\ pc' = "copied"
      /\ bounce' = [bounce EXCEPT ![HeadSlot] = f] /\ bounce \in [Slots -> Frames \cup {NoFrame}]
      /\ UNCHANGED <<TxUserBuffer, TxProd, TxCons, used, hwSlot, clientBufs, wire>>
  BY DEF TransmitCopy, hwVars, TypeOK
<1>2. InFlight' = InFlight /\ HeadSlot' = HeadSlot /\ TailSlot' = TailSlot
  BY <1>1, SameCursors
<1>3. Held' = Held /\ Held = InFlight /\ PublishedSlot' = PublishedSlot /\ Unsent' = Unsent
  BY <1>1, <1>2, CursorRange DEF Held, PublishedSlot, Unsent, Ahead
<1>4. InFlight < TxCount /\ InFlight \in Nat
  BY CursorRange, TxAssumption DEF TransmitCopy, Room
<1>5. \A k \in 1 .. Held : FifoEntry(k)' = FifoEntry(k)
  <2> SUFFICES ASSUME NEW k \in 1 .. InFlight PROVE FifoEntry(k)' = FifoEntry(k)
    BY <1>3
  <2>1. k - 1 \in 0 .. TxCount - 1 /\ InFlight \in 0 .. TxCount - 1 /\ k - 1 # InFlight /\ k <= InFlight
    BY <1>4, TxAssumption
  <2>2. SlotAt(k - 1) # HeadSlot /\ SlotAt(k - 1) \in Slots
    BY <2>1, WindowSlots DEF CursorsAgree
  <2>3. SlotAt(k - 1)' = SlotAt(k - 1)
    BY <1>2 DEF SlotAt
  <2>4. bounce'[SlotAt(k - 1)] = bounce[SlotAt(k - 1)]
    BY <1>1, <2>2
  <2> QED BY <1>1, <1>2, <2>1, <2>3, <2>4 DEF FifoEntry
<1>6. FifoQueue' = FifoQueue
  BY <1>1, <1>3, <1>5, QueueSame
<1> QED BY <1>1, <1>3, <1>6 DEF Fifo!vars, FifoUp, FifoDone, FifoClient

\* Publishing the descriptor is the moment the frame is accepted.
LEMMA FifoAccept == ASSUME IInv, CopyInPlace, TransmitPublish PROVE Fifo!Next
<1> USE DEF IInv
<1>1. /\ State = "Initialized" /\ State' = State /\ pc = "copied" /\ pc' = "published"
      /\ cur' = cur /\ cur.buf \in clientBufs /\ cur.buf \in Buffers /\ cur.frame \in Frames
      /\ cur \in EntryType /\ InFlight < TxCount
      /\ UNCHANGED <<TxUserBuffer, TxProd, TxCons, bounce, hwSlot, clientBufs, wire>>
  BY DEF TransmitPublish, CallInProgress, TypeOK, CopyInPlace, hwVars, EntryType
<1>2. InFlight' = InFlight /\ HeadSlot' = HeadSlot /\ TailSlot' = TailSlot
  BY <1>1, SameCursors
<1>3. Held = InFlight /\ Held' = Held + 1 /\ Held \in Nat
  BY <1>1, <1>2, CursorRange DEF Held
<1>4. /\ FifoQueue \in [1 .. Held -> EntryType] /\ Len(FifoQueue) = Held
      /\ \A k \in 1 .. Held : FifoQueue[k] = FifoEntry(k)
  BY <1>1, QueueIs DEF QueueShape, FifoUp
<1>5. /\ FifoQueue' \in [1 .. Held + 1 -> EntryType]
      /\ \A k \in 1 .. Held + 1 : FifoQueue'[k] = FifoEntry(k)'
  <2>1. IInv' /\ FifoUp'
    BY <1>1, TransmitPublishInv DEF FifoUp
  <2>2. QueueShape'
    BY <2>1, QueueIs, PTL
  <2>3. EntryType' = EntryType
    BY DEF EntryType
  <2> QED BY <1>3, <2>2, <2>3 DEF QueueShape
<1>6. \A k \in 1 .. Held : FifoEntry(k)' = FifoEntry(k)
  BY <1>1, <1>2, <1>3 DEF FifoEntry, SlotAt
<1>7. \A k \in 1 .. Held + 1 : k = Held + 1 => FifoEntry(k)' = cur
  BY <1>1, <1>2, <1>3 DEF FifoEntry
<1>8. FifoQueue' = Append(FifoQueue, cur)
  <2>1. FifoQueue'[Held + 1] = cur
    <3>1. PICK k \in 1 .. Held + 1 : k = Held + 1
      BY <1>3
    <3>2. FifoQueue'[k] = cur
      BY <1>5, <1>7, <3>1
    <3> QED BY <3>1, <3>2
  <2>2. \A k \in 1 .. Held : FifoQueue'[k] = FifoQueue[k]
    BY <1>3, <1>4, <1>5, <1>6
  <2> QED BY <1>3, <1>4, <1>5, <2>1, <2>2, QueueGrows
<1>9. cur = [buf |-> cur.buf, frame |-> cur.frame]
  BY <1>1 DEF EntryType
<1>10. FifoDone' = FifoDone
  <2>1. Unsent' = Unsent + 1 /\ Unsent \in Nat
    BY PublishUnsent
  <2> QED BY <1>1, <1>3, <2>1 DEF FifoDone, FifoUp
<1>11. FifoClient = clientBufs /\ FifoClient' = clientBufs \ {cur.buf} /\ FifoUp /\ FifoUp'
  BY <1>1 DEF FifoClient, FifoUp
<1>12. Fifo!Accept(cur.buf, cur.frame)
  BY <1>1, <1>3, <1>4, <1>8, <1>9, <1>10, <1>11 DEF Fifo!Accept
<1> QED BY <1>1, <1>12 DEF Fifo!Next

\* Bookkeeping moves the frame from the call to the window.
LEMMA FifoBook == ASSUME IInv, CopyInPlace, TransmitBook PROVE UNCHANGED Fifo!vars
<1> USE DEF IInv
<1>1. /\ State = "Initialized" /\ State' = State /\ pc = "published" /\ pc' = "booked"
      /\ cur' = cur /\ cur \in EntryType /\ InFlight < TxCount /\ bounce[HeadSlot] = cur.frame
      /\ TxUserBuffer' = [TxUserBuffer EXCEPT ![HeadSlot] = cur.buf]
      /\ TxUserBuffer \in [Slots -> Buffers \cup {NoBuffer}]
      /\ TxProd' = Inc(TxProd) /\ TxProd \in 0 .. CounterMod - 1 /\ TxCons \in 0 .. CounterMod - 1
      /\ UNCHANGED <<TxCons, bounce, used, hwSlot, clientBufs, wire>>
  BY DEF TransmitBook, CallInProgress, TypeOK, CopyInPlace, hwVars, ringVars, EntryType
<1>2. /\ InFlight' = InFlight + 1 /\ TailSlot' = TailSlot /\ InFlight \in Nat
      /\ HeadSlot' = IF HeadSlot = TxCount - 1 THEN 0 ELSE HeadSlot + 1
      /\ HeadSlot \in Slots
  BY <1>1, BookCursors
<1>3. Held = InFlight + 1 /\ Held' = Held /\ PublishedSlot' = PublishedSlot
  BY <1>1, <1>2 DEF Held, PublishedSlot
<1>4. Unsent' = Unsent
  BY <1>1, <1>3 DEF Unsent, Ahead
<1>5. \A k \in 1 .. Held : FifoEntry(k)' = FifoEntry(k)
  <2> SUFFICES ASSUME NEW k \in 1 .. InFlight + 1 PROVE FifoEntry(k)' = FifoEntry(k)
    BY <1>3
  <2>1. SlotAt(k - 1)' = SlotAt(k - 1) /\ k <= InFlight'
    BY <1>2 DEF SlotAt
  <2>2. FifoEntry(k)' = [buf |-> TxUserBuffer'[SlotAt(k - 1)], frame |-> bounce[SlotAt(k - 1)]]
    BY <1>1, <2>1 DEF FifoEntry
  <2>3. CASE k = InFlight + 1
    <3>1. SlotAt(k - 1) = HeadSlot
      BY <1>2, <2>3 DEF CursorsAgree
    <3>2. FifoEntry(k)' = [buf |-> cur.buf, frame |-> cur.frame]
      BY <1>1, <1>2, <2>2, <3>1
    <3>3. FifoEntry(k) = cur
      BY <1>2, <2>3 DEF FifoEntry
    <3> QED BY <1>1, <3>2, <3>3 DEF EntryType
  <2>4. CASE k # InFlight + 1
    <3>1. k - 1 \in 0 .. TxCount - 1 /\ InFlight \in 0 .. TxCount - 1 /\ k - 1 # InFlight /\ k <= InFlight
      BY <1>1, <1>2, <2>4, TxAssumption
    <3>2. SlotAt(k - 1) # HeadSlot /\ SlotAt(k - 1) \in Slots
      BY <3>1, WindowSlots DEF CursorsAgree
    <3>3. TxUserBuffer'[SlotAt(k - 1)] = TxUserBuffer[SlotAt(k - 1)]
      BY <1>1, <3>2
    <3> QED BY <2>2, <3>1, <3>3 DEF FifoEntry
  <2> QED BY <2>3, <2>4
<1>6. FifoQueue' = FifoQueue
  BY <1>1, <1>3, <1>5, QueueSame
<1> QED BY <1>1, <1>3, <1>4, <1>6 DEF Fifo!vars, FifoUp, FifoDone, FifoClient

\* The return from Transmit and a halt of the engine are not seen.
LEMMA FifoKick == ASSUME IInv, TransmitKick PROVE UNCHANGED Fifo!vars
<1> USE DEF IInv
<1>1. /\ State = "Initialized" /\ State' = State /\ pc = "booked" /\ pc' = "idle"
      /\ clientBufs' = clientBufs \ {cur.buf}
      /\ UNCHANGED <<TxUserBuffer, TxProd, TxCons, bounce, used, hwSlot, wire>>
  BY DEF TransmitKick, CallInProgress, ringVars
<1>2. InFlight' = InFlight /\ HeadSlot' = HeadSlot /\ TailSlot' = TailSlot
  BY <1>1, SameCursors
<1>3. Held' = Held /\ Held = InFlight /\ PublishedSlot' = PublishedSlot /\ Unsent' = Unsent
  BY <1>1, <1>2, CursorRange DEF Held, PublishedSlot, Unsent, Ahead
<1>4. \A k \in 1 .. Held : FifoEntry(k)' = FifoEntry(k)
  <2> SUFFICES ASSUME NEW k \in 1 .. InFlight PROVE FifoEntry(k)' = FifoEntry(k)
    BY <1>3
  <2>1. k <= InFlight /\ SlotAt(k - 1)' = SlotAt(k - 1)
    BY <1>2, CursorRange DEF SlotAt
  <2> QED BY <1>1, <1>2, <2>1 DEF FifoEntry
<1>5. FifoQueue' = FifoQueue
  BY <1>1, <1>3, <1>4, QueueSame
<1> QED BY <1>1, <1>3, <1>5 DEF Fifo!vars, FifoUp, FifoDone, FifoClient

LEMMA FifoHalt ==
  ASSUME UNCHANGED <<driverVars, ringVars, hwSlot, wire, clientBufs>>
  PROVE  UNCHANGED Fifo!vars
<1>1. InFlight' = InFlight /\ HeadSlot' = HeadSlot /\ TailSlot' = TailSlot
  BY SameCursors DEF driverVars
<1>2. Held' = Held /\ PublishedSlot' = PublishedSlot
  BY <1>1 DEF Held, PublishedSlot, driverVars
<1>3. Unsent' = Unsent
  BY <1>2 DEF Unsent, Ahead, ringVars
<1>4. \A k \in 1 .. Held : FifoEntry(k)' = FifoEntry(k)
  BY <1>1 DEF FifoEntry, SlotAt, driverVars, ringVars
<1>5. FifoQueue' = FifoQueue
  BY <1>2, <1>4 DEF FifoQueue, FifoUp, driverVars
<1> QED BY <1>2, <1>3, <1>5 DEF Fifo!vars, FifoUp, FifoDone, FifoClient, driverVars

\* GetStatus returns the oldest buffer, whose frame is done with.
LEMMA FifoReturn == ASSUME IInv, GetRecycledTxBuffer PROVE Fifo!Next
<1> USE DEF IInv
<1>1. /\ State = "Initialized" /\ State' = State /\ pc = "idle" /\ pc' = "idle"
      /\ TxCons # TxProd /\ TxCons' = Inc(TxCons)
      /\ clientBufs' = clientBufs \cup {TxUserBuffer[TailSlot]}
      /\ TxUserBuffer' = [TxUserBuffer EXCEPT ![TailSlot] = NoBuffer]
      /\ TxUserBuffer \in [Slots -> Buffers \cup {NoBuffer}]
      /\ UNCHANGED <<TxProd, bounce, used, hwSlot, wire>>
  BY DEF GetRecycledTxBuffer, Completed, TypeOK, ringVars, hwVars
<1>2. /\ InFlight' = InFlight - 1 /\ HeadSlot' = HeadSlot
      /\ TailSlot' = IF TailSlot = TxCount - 1 THEN 0 ELSE TailSlot + 1
  BY <1>1, RecycleCursors
<1>3. PICK n \in Nat : n = InFlight - 1 /\ n + 1 = InFlight /\ n + 1 <= TxCount
  BY <1>1, CursorRange, TxAssumption DEF CursorsAgree, TypeOK
<1>4. Held = n + 1 /\ Held' = n /\ TailSlot \in Slots
  BY <1>1, <1>2, <1>3, CursorRange DEF Held
<1>5. /\ FifoQueue \in [1 .. n + 1 -> EntryType]
      /\ \A k \in 1 .. n + 1 : FifoQueue[k] = FifoEntry(k)
  BY <1>1, <1>4, QueueIs DEF QueueShape, FifoUp
<1>6. /\ FifoQueue' \in [1 .. n -> EntryType]
      /\ \A k \in 1 .. n : FifoQueue'[k] = FifoEntry(k)'
  <2>1. IInv' /\ FifoUp'
    BY <1>1, GetRecycledInv DEF FifoUp
  <2>2. QueueShape'
    BY <2>1, QueueIs, PTL
  <2>3. EntryType' = EntryType
    BY DEF EntryType
  <2> QED BY <1>4, <2>2, <2>3 DEF QueueShape
<1>7. \A k \in 1 .. n : FifoQueue'[k] = FifoQueue[k + 1]
  <2> SUFFICES ASSUME NEW k \in 1 .. n PROVE FifoQueue'[k] = FifoQueue[k + 1]
    OBVIOUS
  <2>1. k \in 0 .. TxCount - 1 /\ 0 \in 0 .. TxCount - 1 /\ k # 0 /\ k + 1 \in 1 .. n + 1
        /\ k <= InFlight' /\ k + 1 <= InFlight /\ (k + 1) - 1 = k
    BY <1>2, <1>3, TxAssumption
  <2>2. SlotAt(k - 1)' = SlotAt(k)
    BY <1>2, <1>4, <2>1, TxAssumption DEF SlotAt, Slots
  <2>3. SlotAt(0) = TailSlot
    BY <1>4, TxAssumption DEF SlotAt, Slots
  <2>4. SlotAt(k) \in Slots /\ SlotAt(k) # TailSlot
    BY <2>1, <2>3, WindowSlots
  <2>5. TxUserBuffer'[SlotAt(k)] = TxUserBuffer[SlotAt(k)]
    BY <1>1, <2>4
  <2>6. FifoEntry(k)' = [buf |-> TxUserBuffer[SlotAt(k)], frame |-> bounce[SlotAt(k)]]
    BY <1>1, <2>1, <2>2, <2>5 DEF FifoEntry
  <2>7. FifoEntry(k + 1) = [buf |-> TxUserBuffer[SlotAt(k)], frame |-> bounce[SlotAt(k)]]
    BY <2>1 DEF FifoEntry
  <2> QED BY <1>5, <1>6, <2>1, <2>6, <2>7
<1>8. FifoQueue # <<>> /\ Head(FifoQueue) = FifoQueue[1] /\ FifoQueue' = Tail(FifoQueue)
  BY <1>5, <1>6, <1>7, QueueShrinks
<1>9. FifoQueue[1].buf = TxUserBuffer[TailSlot]
  <2>1. SlotAt(1 - 1) = TailSlot /\ 1 <= InFlight /\ 1 \in 1 .. n + 1
    BY <1>3, <1>4, TxAssumption DEF SlotAt, Slots
  <2>2. FifoEntry(1).buf = TxUserBuffer[TailSlot]
    BY <2>1 DEF FifoEntry
  <2> QED BY <1>5, <2>1, <2>2
<1>10. FifoDone > 0 /\ FifoDone' = FifoDone - 1
  <2>1. Unsent' = Unsent /\ Unsent \in Nat /\ Unsent <= n
    BY <1>3, RecycleUnsent
  <2>2. FifoDone = n + 1 - Unsent /\ FifoDone' = n - Unsent
    BY <1>1, <1>4, <2>1 DEF FifoDone, FifoUp
  <2> QED BY <1>3, <2>1, <2>2
<1>11. FifoClient' = FifoClient \cup {Head(FifoQueue).buf} /\ UNCHANGED FifoUp
  BY <1>1, <1>8, <1>9 DEF FifoClient, FifoUp
<1>12. Fifo!Return
  BY <1>1, <1>8, <1>10, <1>11 DEF Fifo!Return
<1> QED BY <1>12 DEF Fifo!Next

\* The engine sends the oldest frame it has not sent, as it was accepted.
LEMMA FifoFinish == ASSUME IInv, CopyInPlace, HwFinish PROVE Fifo!Next
<1> USE DEF IInv
<1>1. /\ State = "Initialized" /\ State' = State /\ ~used[hwSlot] /\ hwSlot \in Slots
      /\ wire' \in {wire, bounce[hwSlot]} /\ UNCHANGED <<driverVars, bounce, clientBufs>>
  BY DEF HwFinish, DmaEnabled, TypeOK, driverVars
<1>2. InFlight' = InFlight /\ HeadSlot' = HeadSlot /\ TailSlot' = TailSlot
  BY <1>1, SameCursors DEF driverVars
<1>3. Held' = Held
  BY <1>1, <1>2 DEF Held, driverVars
<1>4. /\ InFlight \in Nat /\ InFlight <= Held /\ Held \in 0 .. TxCount
      /\ FifoQueue \in [1 .. Held -> EntryType] /\ Len(FifoQueue) = Held
      /\ \A k \in 1 .. Held : FifoQueue[k] = FifoEntry(k)
  BY <1>1, QueueIs DEF QueueShape, FifoUp
<1>5. \A k \in 1 .. Held : FifoEntry(k)' = FifoEntry(k)
  BY <1>1, <1>2 DEF FifoEntry, SlotAt, driverVars
<1>6. FifoQueue' = FifoQueue
  BY <1>1, <1>3, <1>5, QueueSame
<1>7. Unsent' = Unsent - 1 /\ Unsent \in 1 .. TxCount
  BY HwFinishUnsent
<1>8. Unsent <= Held
  BY <1>1 DEF DmaInStep
<1>9. PICK d \in Nat : d = Held - Unsent /\ d + 1 \in 1 .. Held
  BY <1>4, <1>7, <1>8, TxAssumption
<1>10. FifoDone = d /\ FifoDone' = d + 1 /\ UNCHANGED FifoUp
  BY <1>1, <1>3, <1>4, <1>7, <1>9, TxAssumption DEF FifoDone, FifoUp
<1>11. hwSlot = SlotAt(d)
  <2>1. HeadSlot \in Slots /\ TailSlot \in Slots /\ HeadSlot = SlotAt(InFlight)
    BY CursorRange DEF CursorsAgree
  <2>2. Unsent = IF Ahead(hwSlot, PublishedSlot) = 0 THEN TxCount ELSE Ahead(hwSlot, PublishedSlot)
    BY <1>1 DEF Unsent
  <2>3. CASE pc = "published"
    <3>1. PublishedSlot = (IF HeadSlot = TxCount - 1 THEN 0 ELSE HeadSlot + 1) /\ Held = InFlight + 1
      BY <2>3 DEF PublishedSlot, Held
    <3> QED BY <1>1, <1>4, <1>7, <1>9, <2>1, <2>2, <3>1, TxAssumption DEF SlotAt, Ahead, Slots
  <2>4. CASE pc # "published"
    <3>1. PublishedSlot = HeadSlot /\ Held = InFlight
      BY <1>4, <2>4 DEF PublishedSlot, Held
    <3> QED BY <1>1, <1>4, <1>7, <1>9, <2>1, <2>2, <3>1, TxAssumption DEF SlotAt, Ahead, Slots
  <2> QED BY <2>3, <2>4
<1>12. FifoQueue[d + 1].frame = bounce[hwSlot]
  <2>1. FifoQueue[d + 1] = FifoEntry(d + 1) /\ (d + 1) - 1 = d
    BY <1>4, <1>9
  <2>2. CASE d + 1 <= InFlight
    BY <1>11, <2>1, <2>2 DEF FifoEntry
  <2>3. CASE ~(d + 1 <= InFlight)
    <3>1. pc = "published" /\ d = InFlight
      BY <1>4, <1>9, <2>3 DEF Held
    <3>2. hwSlot = HeadSlot
      BY <1>11, <3>1 DEF CursorsAgree
    <3>3. FifoEntry(d + 1) = cur
      BY <2>3 DEF FifoEntry
    <3> QED BY <2>1, <3>1, <3>2, <3>3 DEF CopyInPlace
  <2> QED BY <2>2, <2>3
<1>13. UNCHANGED FifoClient
  BY <1>1 DEF FifoClient, driverVars
<1>14. Fifo!Finish
  BY <1>1, <1>4, <1>6, <1>9, <1>10, <1>12, <1>13 DEF Fifo!Finish
<1> QED BY <1>14 DEF Fifo!Next

\* The ring implements the FIFO, for every ring size and counter width: the
\* wire and the client see frames and buffers in the order of acceptance,
\* whatever the interleaving of the driver with the DMA engine.
THEOREM TxRefinesFifo == Spec => ImplementsFifo
<1>1. Init => Fifo!Init
  BY FifoInit
<1>2. IInv /\ CopyInPlace /\ [Next]_vars => [Fifo!Next]_Fifo!vars
  <2> SUFFICES ASSUME IInv, CopyInPlace, [Next]_vars
               PROVE  Fifo!Next \/ UNCHANGED Fifo!vars
    OBVIOUS
  <2>1. ASSUME NEW ok \in BOOLEAN, Initialize(ok) PROVE Fifo!Next \/ UNCHANGED Fifo!vars
    BY <2>1, FifoOpen
  <2>2. CASE Shutdown
    BY <2>2, FifoClose
  <2>3. ASSUME NEW b \in Buffers, NEW f \in Frames, TransmitCopy(b, f) PROVE UNCHANGED Fifo!vars
    BY <2>3, FifoCopy
  <2>4. CASE TransmitPublish
    BY <2>4, FifoAccept
  <2>5. CASE TransmitBook
    BY <2>5, FifoBook
  <2>6. CASE TransmitKick
    BY <2>6, FifoKick
  <2>7. CASE GetRecycledTxBuffer
    BY <2>7, FifoReturn
  <2>8. CASE HwFinish
    BY <2>8, FifoFinish
  <2>9. CASE HwHalt \/ UNCHANGED vars
    BY <2>9, FifoHalt DEF HwHalt, vars, hwVars
  <2> QED
    BY <2>1, <2>2, <2>3, <2>4, <2>5, <2>6, <2>7, <2>8, <2>9 DEF Next, Transmitting, Hardware
<1> QED BY <1>1, <1>2, RingInvariant, CopyInvariant, PTL DEF Spec, ImplementsFifo, Fifo!Spec
=============================================================================
