------------------------- MODULE FirmwareUpdateProofs -------------------------
(***************************************************************************)
(* The card stays whole, whatever is updated, dumped or cut: proved for    *)
(* every number of volumes, every card and every bound.  And no reset      *)
(* without a press, for every devicetree that names the button's line.     *)
(***************************************************************************)
EXTENDS FirmwareUpdate, WellFoundedInduction, TLAPS

-----------------------------------------------------------------------------
(* The file that is found.                                                 *)

\* A set of naturals has a least one.
LEMMA NatMin ==
  ASSUME NEW T \in SUBSET Nat, T # {}
  PROVE  \E m \in T : \A n \in T : m <= n
<1> DEFINE R == OpToRel(<, Nat)
<1>1. IsWellFoundedOn(R, Nat)
  BY NatLessThanWellFounded, Zenon
<1> HIDE DEF R
<1>2. PICK m \in T : \A n \in T : ~(<<n, m>> \in R)
  BY <1>1, WFMin
<1>3. \A n \in T : ~(n < m)
  BY <1>2, Zenon DEF R, OpToRel
<1> QED BY <1>3

\* Rpi5FmpOpenFirmwareFile opens one of the files that can be used, and none
\* only when there is none.
LEMMA FirstIsOne ==
  ASSUME NEW S \in SUBSET Files
  PROVE  /\ FirstOf(S) \in Files \cup {NoFile}
         /\ FirstOf(S) # NoFile => FirstOf(S) \in S
<1>1. CASE S = {}
  BY <1>1 DEF FirstOf
<1>2. CASE S # {}
  <2> DEFINE Vs == {f[1] : f \in S}
  <2>1. Volumes \in Nat
    BY FmpAssumption
  <2>2. \A f \in S : f[1] \in Nat /\ f[2] \in Nat
    BY <2>1 DEF Files, Names
  <2>3. Vs \in SUBSET Nat /\ Vs # {}
    BY <1>2, <2>2
  <2> HIDE DEF Vs
  <2>4. PICK v \in Vs : \A n \in Vs : v <= n
    BY <2>3, NatMin
  <2> DEFINE On == {f \in S : f[1] = v}
             Ns == {f[2] : f \in On}
  <2>5. Ns \in SUBSET Nat /\ Ns # {}
    BY <2>2, <2>4 DEF Vs
  <2> HIDE DEF Ns
  <2>6. PICK k \in Ns : \A n \in Ns : k <= n
    BY <2>5, NatMin
  <2>7. PICK f \in On : f[2] = k
    BY <2>6 DEF Ns
  <2>8. ASSUME NEW g \in S
        PROVE  f[1] < g[1] \/ (f[1] = g[1] /\ f[2] <= g[2])
    <3>1. f[1] = v /\ g[1] \in Vs /\ v <= g[1] /\ v \in Nat /\ g[1] \in Nat
      BY <2>2, <2>3, <2>4, <2>7, <2>8 DEF Vs
    <3>2. g[1] = v => g[2] \in Ns /\ f[2] <= g[2]
      BY <2>6, <2>7, <2>8 DEF Ns
    <3> QED BY <3>1, <3>2
  <2>9. f \in S
    BY <2>7
  <2>10. FirstOf(S) \in S
    <3> DEFINE Least(h) == \A g \in S : h[1] < g[1] \/ (h[1] = g[1] /\ h[2] <= g[2])
    <3>1. Least(f)
      BY <2>8
    <3>2. FirstOf(S) = CHOOSE h \in S : Least(h)
      BY <1>2 DEF FirstOf
    <3> HIDE DEF Least
    <3> QED BY <2>9, <3>1, <3>2
  <2> QED BY <2>10
<1> QED BY <1>1, <1>2

\* What VarBlockServiceDxe latches and a capsule opens is a firmware file on a
\* volume that can be written.
LEMMA StoreIsOurs ==
  /\ CheckStore \in Files \cup {NoFile}
  /\ CheckStore # NoFile => CheckStore \in Files /\ disk[CheckStore].ours
<1>1. Usable(TRUE) \in SUBSET Files
  BY DEF Usable
<1>2. \A f \in Usable(TRUE) : f \in Files /\ disk[f].ours
  BY DEF Usable, Rpi5FmpCheckFirmwareFile
<1> QED BY <1>1, <1>2, FirstIsOne DEF CheckStore, Rpi5FmpOpenFirmwareFile

\* No step makes or unmakes a firmware file: the next boot finds the same one.
LEMMA SameStore ==
  ASSUME OursStay, OursStay', readOnly' = readOnly,
         \A f \in Files : disk'[f].ours = disk[f].ours
  PROVE  CheckStore' = CheckStore
<1>1. Usable(TRUE) = {f \in Files : f[1] \notin readOnly /\ disk[f].ours}
  BY DEF Usable, Rpi5FmpCheckFirmwareFile, OursStay
<1>2. Usable(TRUE)' = {f \in Files : f[1] \notin readOnly' /\ disk'[f].ours}
  BY DEF Usable, Rpi5FmpCheckFirmwareFile, OursStay
<1>3. Usable(TRUE)' = Usable(TRUE)
  BY <1>1, <1>2
<1> QED BY <1>3 DEF CheckStore, Rpi5FmpOpenFirmwareFile

-----------------------------------------------------------------------------
(* The card.                                                               *)

\* The board comes up with the card its owner put in.
LEMMA CardInit == Init => IInv
<1> SUFFICES ASSUME Init PROVE IInv
  OBVIOUS
<1>1. PICK b \in Boards : readOnly = b.readOnly /\ disk = [f \in Files |-> Content(b.card[f])]
  BY DEF Init
<1>2. b.card \in [Files -> {"ours", "foreign", "absent"}]
  BY FmpAssumption
<1>3. ASSUME NEW f \in Files
      PROVE  /\ disk[f] \in [ours : BOOLEAN, head : Heads, tail : Int]
             /\ disk[f].ours => disk[f].head # "absent"
             /\ ~disk[f].ours => disk[f].head \in {"stub", "absent"} /\ disk[f].tail = -1
  <2>1. disk[f] = Content(b.card[f]) /\ b.card[f] \in {"ours", "foreign", "absent"}
    BY <1>1, <1>2
  <2> QED BY <2>1 DEF Content, Heads
<1>4. disk \in [Files -> [ours : BOOLEAN, head : Heads, tail : Int]]
  BY <1>1, <1>3
<1>5. TypeOK
  BY <1>4, StoreIsOurs DEF TypeOK, Init, NoPayload
<1>6. OursStay /\ SameFile /\ SuccessForgotten /\ CardIsWhole
  BY <1>3 DEF OursStay, SameFile, SuccessForgotten, CardIsWhole, Init
<1> QED BY <1>5, <1>6 DEF IInv

\* A step that writes the head of the file that is open: what a file is, and
\* the tails, stay.
LEMMA HeadWritten ==
  ASSUME TypeOK, NEW g \in Files, NEW h \in Heads,
         disk' = [disk EXCEPT ![g].head = h]
  PROVE  /\ disk' \in [Files -> [ours : BOOLEAN, head : Heads, tail : Int]]
         /\ \A f \in Files : disk'[f].ours = disk[f].ours /\ disk'[f].tail = disk[f].tail
         /\ \A f \in Files : f # g => disk'[f].head = disk[f].head
         /\ disk'[g].head = h
BY DEF TypeOK

\* A capsule writes the head of the open file with something that is not
\* "absent": the files, and so the file that is found, stay.
LEMMA WriteKeeps ==
  ASSUME IInv, pc # "idle", NEW h \in Heads, h # "absent",
         disk' = [disk EXCEPT ![file].head = h],
         readOnly' = readOnly, store' = store, file' = file, dumps' = dumps
  PROVE  /\ disk' \in [Files -> [ours : BOOLEAN, head : Heads, tail : Int]]
         /\ OursStay' /\ store' = CheckStore'
         /\ \A f \in Files : ~disk'[f].ours => disk'[f].head \in {"stub", "absent"} /\ disk'[f].tail = -1
         /\ store' # NoFile /\ dumps' > 0 => disk'[store'].tail = dumps'
         /\ \A f \in Files : f # file => disk'[f].head = disk[f].head
         /\ disk'[file].head = h
<1>1. file = store /\ store = CheckStore /\ file \in Files /\ disk[file].ours
  BY StoreIsOurs DEF IInv, SameFile
<1>2. /\ disk' \in [Files -> [ours : BOOLEAN, head : Heads, tail : Int]]
      /\ \A f \in Files : disk'[f].ours = disk[f].ours /\ disk'[f].tail = disk[f].tail
      /\ \A f \in Files : f # file => disk'[f].head = disk[f].head
      /\ disk'[file].head = h
  BY <1>1, HeadWritten DEF IInv
<1>3. OursStay'
  BY <1>2 DEF IInv, OursStay
<1>4. CheckStore' = CheckStore
  BY <1>2, <1>3, SameStore DEF IInv
<1>5. \A f \in Files : ~disk'[f].ours => disk'[f].head \in {"stub", "absent"} /\ disk'[f].tail = -1
  BY <1>1, <1>2 DEF IInv, CardIsWhole
<1>6. store' # NoFile /\ dumps' > 0 => disk'[store'].tail = dumps'
  BY <1>1, <1>2 DEF IInv, CardIsWhole
<1> QED BY <1>1, <1>2, <1>3, <1>4, <1>5, <1>6

\* A step that writes nothing: the file that is found stays.
LEMMA NothingWritten ==
  ASSUME IInv, UNCHANGED <<disk, readOnly>>
  PROVE  /\ disk' \in [Files -> [ours : BOOLEAN, head : Heads, tail : Int]]
         /\ OursStay' /\ CheckStore' = CheckStore
         /\ \A f \in Files : disk'[f] = disk[f]
<1>1. OursStay'
  BY DEF IInv, OursStay
<1>2. CheckStore' = CheckStore
  BY <1>1, SameStore DEF IInv
<1> QED BY <1>1, <1>2 DEF IInv, TypeOK

\* Every step keeps the card whole.
LEMMA CardStep == IInv /\ [Next]_vars => IInv'
<1> SUFFICES ASSUME IInv, [Next]_vars PROVE IInv'
  OBVIOUS
<1>0. /\ NoFile \notin Files /\ "absent" \notin Versions
      /\ Versions \subseteq Heads /\ "torn" \in Heads
  BY FmpAssumption DEF NoFile, Files, Heads
<1>i. /\ TypeOK /\ OursStay /\ SameFile /\ SuccessForgotten /\ CardIsWhole
      /\ store = CheckStore
      /\ CheckStore # NoFile => CheckStore \in Files /\ disk[CheckStore].ours
  BY StoreIsOurs DEF IInv, SameFile
<1>1. CASE SetImage
  <2>1. UNCHANGED <<readOnly, disk, store, dumps, faults, good>>
    BY <1>1 DEF SetImage
  <2>2. /\ disk' \in [Files -> [ours : BOOLEAN, head : Heads, tail : Int]]
        /\ OursStay' /\ CheckStore' = CheckStore
    BY <2>1, NothingWritten
  <2>3. pc = "idle"
    BY <1>1 DEF SetImage
  <2>4. \/ pc' = "idle" /\ UNCHANGED <<payload, file>>
        \/ pc' = "opened" /\ payload' \in Payloads /\ file' = CheckStore /\ file' # NoFile
    BY <1>1 DEF SetImage, CheckStore
  <2>5. TypeOK'
    BY <1>i, <2>1, <2>2, <2>4 DEF TypeOK, Payloads
  <2>6. SameFile' /\ SuccessForgotten'
    BY <1>i, <2>1, <2>2, <2>4 DEF SameFile, SuccessForgotten, Payloads
  <2>7. CardIsWhole'
    BY <1>i, <2>1 DEF CardIsWhole
  <2> QED BY <2>2, <2>5, <2>6, <2>7 DEF IInv
<1>2. CASE WriteBegin
  <2>1. /\ pc = "opened" /\ pc' = "writing"
        /\ UNCHANGED <<readOnly, store, payload, file, dumps>>
        /\ good' = IF good[1] = file THEN <<NoFile, "v0">> ELSE good
    BY <1>2 DEF WriteBegin
  <2>2. file \in Files /\ file = store /\ disk[file].ours
    BY <1>i, <2>1 DEF SameFile
  <2>3. PICK h \in {disk[file].head, "torn"} : disk' = [disk EXCEPT ![file].head = h]
    BY <1>2 DEF WriteBegin
  <2>4. h \in Heads /\ h # "absent"
    BY <1>0, <1>i, <2>2 DEF TypeOK, OursStay
  <2>5. /\ disk' \in [Files -> [ours : BOOLEAN, head : Heads, tail : Int]]
        /\ OursStay' /\ store' = CheckStore'
        /\ \A f \in Files : ~disk'[f].ours => disk'[f].head \in {"stub", "absent"} /\ disk'[f].tail = -1
        /\ store' # NoFile /\ dumps' > 0 => disk'[store'].tail = dumps'
        /\ \A f \in Files : f # file => disk'[f].head = disk[f].head
    BY <2>1, <2>3, <2>4, WriteKeeps
  <2>6. TypeOK'
    <3>1. good' \in (Files \cup {NoFile}) \X (Versions \cup {"v0"})
      BY <1>i, <2>1 DEF TypeOK
    <3> QED BY <1>i, <2>1, <2>5, <3>1 DEF TypeOK
  <2>7. good'[1] # file
    BY <1>0, <2>1, <2>2
  <2>8. SameFile' /\ SuccessForgotten'
    BY <1>i, <2>1, <2>5, <2>7 DEF SameFile, SuccessForgotten
  <2>9. good'[1] # NoFile => disk'[good'[1]].head = good'[2]
    BY <1>i, <2>1, <2>5 DEF CardIsWhole, TypeOK
  <2> QED BY <2>5, <2>6, <2>8, <2>9 DEF IInv, CardIsWhole
<1>3. CASE WriteEnd
  <2>1. /\ pc = "writing" /\ pc' \in {"written", "close"}
        /\ UNCHANGED <<readOnly, store, payload, file, dumps, good>>
    BY <1>3 DEF WriteEnd
  <2>2. file \in Files /\ file = store /\ disk[file].ours /\ payload.version \in Versions
    BY <1>i, <2>1 DEF SameFile, SuccessForgotten
  <2>3. PICK h \in {disk[file].head, "torn", payload.version} : disk' = [disk EXCEPT ![file].head = h]
    BY <1>3 DEF WriteEnd
  <2>4. h \in Heads /\ h # "absent"
    BY <1>0, <1>i, <2>2 DEF TypeOK, OursStay
  <2>5. /\ disk' \in [Files -> [ours : BOOLEAN, head : Heads, tail : Int]]
        /\ OursStay' /\ store' = CheckStore'
        /\ \A f \in Files : ~disk'[f].ours => disk'[f].head \in {"stub", "absent"} /\ disk'[f].tail = -1
        /\ store' # NoFile /\ dumps' > 0 => disk'[store'].tail = dumps'
        /\ \A f \in Files : f # file => disk'[f].head = disk[f].head
    BY <2>1, <2>3, <2>4, WriteKeeps
  <2>6. TypeOK'
    BY <1>i, <2>1, <2>5 DEF TypeOK
  <2>7. SameFile' /\ SuccessForgotten'
    BY <1>i, <2>1, <2>2, <2>5 DEF SameFile, SuccessForgotten
  <2>8. good'[1] # NoFile => disk'[good'[1]].head = good'[2]
    BY <1>i, <2>1, <2>5 DEF CardIsWhole, TypeOK, SuccessForgotten
  <2> QED BY <2>5, <2>6, <2>7, <2>8 DEF IInv, CardIsWhole
<1>4. CASE Flush
  <2>1. /\ pc = "written" /\ pc' \in {"done", "close"}
        /\ UNCHANGED <<readOnly, store, payload, file, dumps, good>>
    BY <1>4 DEF Flush
  <2>2. file \in Files /\ file = store /\ disk[file].ours /\ payload.version \in Versions
    BY <1>i, <2>1 DEF SameFile, SuccessForgotten
  <2>3. CASE disk' = [disk EXCEPT ![file].head = Flushed]
    <3>1. Flushed \in Heads /\ Flushed # "absent"
      BY <1>0, <2>2 DEF Flushed
    <3>2. /\ disk' \in [Files -> [ours : BOOLEAN, head : Heads, tail : Int]]
          /\ OursStay' /\ store' = CheckStore'
          /\ \A f \in Files : ~disk'[f].ours => disk'[f].head \in {"stub", "absent"} /\ disk'[f].tail = -1
          /\ store' # NoFile /\ dumps' > 0 => disk'[store'].tail = dumps'
          /\ \A f \in Files : f # file => disk'[f].head = disk[f].head
          /\ disk'[file].head = Flushed
      BY <2>1, <2>3, <3>1, WriteKeeps
    <3>3. TypeOK'
      BY <1>i, <2>1, <3>2 DEF TypeOK
    <3>4. SameFile' /\ SuccessForgotten'
      BY <1>i, <2>1, <2>2, <3>2 DEF SameFile, SuccessForgotten, Flushed
    <3>5. good'[1] # NoFile => disk'[good'[1]].head = good'[2]
      BY <1>i, <2>1, <3>2 DEF CardIsWhole, TypeOK, SuccessForgotten
    <3> QED BY <3>2, <3>3, <3>4, <3>5 DEF IInv, CardIsWhole
  <2>4. CASE pc' = "close" /\ UNCHANGED disk
    <3>1. /\ disk' \in [Files -> [ours : BOOLEAN, head : Heads, tail : Int]]
          /\ OursStay' /\ CheckStore' = CheckStore
      BY <2>1, <2>4, NothingWritten
    <3>2. TypeOK'
      BY <1>i, <2>1, <3>1 DEF TypeOK
    <3>3. SameFile' /\ SuccessForgotten'
      BY <1>i, <2>1, <2>4, <3>1 DEF SameFile, SuccessForgotten
    <3>4. CardIsWhole'
      BY <1>i, <2>1, <2>4 DEF CardIsWhole
    <3> QED BY <3>1, <3>2, <3>3, <3>4 DEF IInv
  <2> QED BY <1>4, <2>3, <2>4 DEF Flush
<1>5. CASE SeekFails
  <2>1. /\ pc = "opened" /\ pc' = "close"
        /\ UNCHANGED <<readOnly, disk, store, payload, file, dumps, good>>
    BY <1>5 DEF SeekFails
  <2>2. /\ disk' \in [Files -> [ours : BOOLEAN, head : Heads, tail : Int]]
        /\ OursStay' /\ CheckStore' = CheckStore
    BY <2>1, NothingWritten
  <2>3. TypeOK'
    BY <1>i, <2>1, <2>2 DEF TypeOK
  <2>4. SameFile' /\ SuccessForgotten'
    BY <1>i, <2>1, <2>2 DEF SameFile, SuccessForgotten
  <2>5. CardIsWhole'
    BY <1>i, <2>1 DEF CardIsWhole
  <2> QED BY <2>2, <2>3, <2>4, <2>5 DEF IInv
<1>6. CASE Close
  <2>1. /\ pc \in {"done", "close"} /\ pc' = "idle" /\ file' = NoFile /\ payload' = NoPayload
        /\ good' = IF pc = "done" THEN <<file, payload.version>> ELSE good
        /\ UNCHANGED <<readOnly, disk, store, dumps>>
    BY <1>6 DEF Close
  <2>2. /\ disk' \in [Files -> [ours : BOOLEAN, head : Heads, tail : Int]]
        /\ OursStay' /\ CheckStore' = CheckStore
    BY <2>1, NothingWritten
  <2>3. TypeOK'
    <3>1. good' \in (Files \cup {NoFile}) \X (Versions \cup {"v0"})
      BY <1>i, <2>1 DEF TypeOK
    <3> QED BY <1>i, <2>1, <2>2, <3>1 DEF TypeOK, NoPayload
  <2>4. SameFile' /\ SuccessForgotten'
    BY <1>i, <2>1, <2>2 DEF SameFile, SuccessForgotten
  <2>5. CardIsWhole'
    BY <1>i, <2>1 DEF CardIsWhole, SuccessForgotten
  <2> QED BY <2>2, <2>3, <2>4, <2>5 DEF IInv
<1>7. CASE DumpVars
  <2>1. /\ store # NoFile /\ dumps' = dumps + 1
        /\ disk' = [disk EXCEPT ![store].tail = dumps']
        /\ UNCHANGED <<readOnly, store, pc, payload, file, good>>
    BY <1>7 DEF DumpVars
  <2>2. store \in Files /\ disk[store].ours /\ dumps' \in Nat
    BY <1>i, <2>1 DEF TypeOK
  <2>3. /\ disk' \in [Files -> [ours : BOOLEAN, head : Heads, tail : Int]]
        /\ \A f \in Files : disk'[f].ours = disk[f].ours /\ disk'[f].head = disk[f].head
        /\ \A f \in Files : f # store => disk'[f].tail = disk[f].tail
        /\ disk'[store].tail = dumps'
    BY <1>i, <2>1, <2>2 DEF TypeOK
  <2>4. OursStay'
    BY <1>i, <2>3 DEF OursStay
  <2>5. CheckStore' = CheckStore
    BY <1>i, <2>1, <2>3, <2>4, SameStore
  <2>6. TypeOK'
    BY <1>i, <2>1, <2>2, <2>3 DEF TypeOK
  <2>7. SameFile' /\ SuccessForgotten'
    BY <1>i, <2>1, <2>3, <2>5 DEF SameFile, SuccessForgotten
  <2>8. CardIsWhole'
    <3>1. good'[1] # NoFile => disk'[good'[1]].head = good'[2]
      BY <1>i, <2>1, <2>3 DEF CardIsWhole, TypeOK
    <3>2. \A f \in Files : ~disk'[f].ours => disk'[f].head \in {"stub", "absent"} /\ disk'[f].tail = -1
      BY <1>i, <2>2, <2>3 DEF CardIsWhole
    <3> QED BY <2>1, <2>3, <3>1, <3>2 DEF CardIsWhole
  <2> QED BY <2>4, <2>6, <2>7, <2>8 DEF IInv
<1>8. CASE Button \/ Poll \/ PowerCut \/ UNCHANGED vars
  <2>1. UNCHANGED fmpVars
    BY <1>8 DEF Button, Poll, PowerCut, vars
  <2>2. /\ disk' \in [Files -> [ours : BOOLEAN, head : Heads, tail : Int]]
        /\ OursStay' /\ CheckStore' = CheckStore
    BY <2>1, NothingWritten DEF fmpVars
  <2>3. TypeOK' /\ SameFile' /\ SuccessForgotten' /\ CardIsWhole'
    BY <1>i, <2>1, <2>2 DEF fmpVars, TypeOK, SameFile, SuccessForgotten, CardIsWhole
  <2> QED BY <2>2, <2>3 DEF IInv
<1>9. CASE Restart
  <2>1. /\ pc' = "idle" /\ file' = NoFile /\ payload' = NoPayload /\ store' = CheckStore
        /\ UNCHANGED <<readOnly, disk, dumps, good>>
    BY <1>9 DEF Restart
  <2>2. /\ disk' \in [Files -> [ours : BOOLEAN, head : Heads, tail : Int]]
        /\ OursStay' /\ CheckStore' = CheckStore
    BY <2>1, NothingWritten
  <2>3. store' = store
    BY <1>i, <2>1
  <2>4. TypeOK' /\ SameFile' /\ SuccessForgotten' /\ CardIsWhole'
    BY <1>i, <2>1, <2>2, <2>3 DEF TypeOK, NoPayload, SameFile, SuccessForgotten, CardIsWhole
  <2> QED BY <2>2, <2>4 DEF IInv
<1> QED BY <1>1, <1>2, <1>3, <1>4, <1>5, <1>6, <1>7, <1>8, <1>9 DEF Next

\* The inductive invariant: every boot finds the file the last one found, a
\* capsule writes that one, and a success is forgotten before its file is
\* written again.
THEOREM UpdateInvariant == Spec => []IInv
BY CardInit, CardStep, PTL DEF Spec

\* A reported update is on the card until the next one writes the file, dumps
\* outlive updates and power cuts, and a foreign boot stub is never touched
\* (FmpDeviceSetImageWithStatus, DumpVars), for every card.
THEOREM CardStaysWhole == Spec => []CardIsWhole
<1>1. IInv => CardIsWhole
  BY DEF IInv
<1> QED BY UpdateInvariant, <1>1, PTL

-----------------------------------------------------------------------------
(* The power button.                                                       *)

\* A board that is up has not been triggered since it came up.
LEMMA NotYet == ButtonInv /\ board = "up" => step # "triggered"
BY DEF ButtonInv, ResetMeansPress

\* The steps of the driver and of the button.
LEMMA ButtonStep ==
  ASSUME ButtonInv, Button
  PROVE  ButtonInv'
<1>t. /\ TreeHolds(dt) /\ EdgeIsPress /\ ResetMeansPress
      /\ dt.low \in BOOLEAN /\ dt.halt \in BOOLEAN
  BY DEF ButtonInv, TreeHolds
<1>d. dt' = dt /\ board = "up" /\ board' = "up"
  BY DEF Button, NoButton, ArmEdge, ClearStat, StartTimer, Press, Release
<1>e. step # "triggered" /\ TreeHolds(dt)'
  BY <1>t, <1>d, NotYet DEF TreeHolds
<1>1. CASE NoButton
  BY <1>1, <1>e DEF NoButton, ButtonInv, EdgeIsPress, ResetMeansPress
<1>2. CASE ArmEdge
  <2> DEFINE b == FindPowerButton(dt)
             at == BankOf(dt.widths, b[1])
             low == (b[2] % 2 = 1)
  <2>1. b # <<>> /\ at[1] >= 0
    BY <1>2 DEF ArmEdge
  <2>2. at = dt.line /\ low = dt.low /\ ReadPowerOffOnHalt(dt) = dt.halt
    BY <1>t, <2>1 DEF TreeHolds
  <2>3. /\ button' = [at |-> at, activeLow |-> low, off |-> ReadPowerOffOnHalt(dt)]
        /\ rising' = IF low THEN rising \ {at} ELSE rising \cup {at}
        /\ step' = "clear"
    BY <1>2 DEF ArmEdge
  <2> HIDE DEF b, at, low
  <2>4. button' = [at |-> dt.line, activeLow |-> dt.low, off |-> dt.halt]
    BY <2>2, <2>3
  <2>5. CASE dt.low = TRUE
    <3>1. dt.line \notin rising'
      BY <2>2, <2>3, <2>5
    <3> QED BY <1>d, <1>e, <2>3, <2>4, <2>5, <3>1 DEF ButtonInv, EdgeIsPress, ResetMeansPress
  <2>6. CASE dt.low = FALSE
    <3>1. dt.line \in rising'
      BY <2>2, <2>3, <2>6
    <3> QED BY <1>d, <1>e, <2>3, <2>4, <2>6, <3>1 DEF ButtonInv, EdgeIsPress, ResetMeansPress
  <2> QED BY <1>t, <2>5, <2>6
<1>3. CASE ClearStat
  <2>1. step = "clear" /\ step' = "timer" /\ stat' = stat \ {button.at} /\ UNCHANGED <<rising, button>>
    BY <1>3 DEF ClearStat, ClearEdge
  <2>2. button.at = dt.line
    BY <1>t, <2>1 DEF EdgeIsPress
  <2> QED BY <1>t, <1>d, <1>e, <2>1, <2>2 DEF ButtonInv, EdgeIsPress, ResetMeansPress
<1>4. CASE StartTimer
  <2>1. step = "timer" /\ step' \in {"polling", "unloaded"} /\ UNCHANGED <<stat, rising, button, pressed>>
    BY <1>4 DEF StartTimer
  <2> QED BY <1>t, <1>d, <1>e, <2>1 DEF ButtonInv, EdgeIsPress, ResetMeansPress
<1>5. CASE Press
  <2>1. pressed' = (step \in {"timer", "polling"}) /\ UNCHANGED <<rising, button, step>>
    BY <1>5 DEF Press
  <2> QED BY <1>t, <1>d, <1>e, <2>1 DEF ButtonInv, EdgeIsPress, ResetMeansPress
<1>6. CASE Release
  <2>1. UNCHANGED <<rising, button, step, pressed>>
    BY <1>6 DEF Release
  <2>2. stat' = IF dt.line \in mask /\ (dt.line \in rising) = dt.low THEN stat \cup {dt.line} ELSE stat
    BY <1>6 DEF Release, Edge
  <2>3. step \in {"timer", "polling"} => stat' = stat
    BY <1>t, <2>2 DEF EdgeIsPress
  <2> QED BY <1>t, <1>d, <1>e, <2>1, <2>3 DEF ButtonInv, EdgeIsPress, ResetMeansPress
<1> QED BY <1>1, <1>2, <1>3, <1>4, <1>5, <1>6 DEF Button

\* Every step keeps the driver's picture of the button true.
LEMMA BoardStep == ButtonInv /\ [Next]_vars => ButtonInv'
<1> SUFFICES ASSUME ButtonInv, [Next]_vars PROVE ButtonInv'
  OBVIOUS
<1>t. /\ TreeHolds(dt) /\ EdgeIsPress /\ ResetMeansPress
  BY DEF ButtonInv
<1>1. CASE UNCHANGED <<buttonVars, board>>
  BY <1>1, <1>t DEF buttonVars, ButtonInv, TreeHolds, EdgeIsPress, ResetMeansPress
<1>2. CASE Button
  BY <1>2, ButtonStep
<1>3. CASE Poll
  <2>1. /\ step = "polling" /\ step' = "triggered" /\ Pressed
        /\ board' = IF button.off THEN "off" ELSE "reset"
        /\ UNCHANGED <<dt, pin, pressed>>
    BY <1>3 DEF Poll, PowerButtonPoll
  <2>2. /\ button = [at |-> dt.line, activeLow |-> dt.low, off |-> dt.halt]
        /\ dt.line \in stat => pressed
    BY <1>t, <2>1 DEF EdgeIsPress
  <2>3. pressed \/ (dt.line \notin pin) = dt.low
    BY <2>1, <2>2 DEF Pressed
  <2>4. ResetMeansPress'
    BY <2>1, <2>2, <2>3 DEF ResetMeansPress
  <2>5. EdgeIsPress' /\ TreeHolds(dt)'
    BY <1>t, <2>1 DEF EdgeIsPress, TreeHolds
  <2> QED BY <2>4, <2>5 DEF ButtonInv
<1>4. CASE PowerCut
  <2>1. step # "triggered" /\ UNCHANGED buttonVars
    BY <1>4, NotYet DEF PowerCut
  <2> QED BY <1>t, <2>1 DEF buttonVars, ButtonInv, TreeHolds, EdgeIsPress, ResetMeansPress
<1>5. CASE Restart
  <2>1. step' = "find" /\ dt' = dt
    BY <1>5 DEF Restart
  <2> QED BY <1>t, <2>1 DEF ButtonInv, TreeHolds, EdgeIsPress, ResetMeansPress
<1>6. SetImage \/ WriteBegin \/ WriteEnd \/ Flush \/ SeekFails \/ Close \/ DumpVars
        => UNCHANGED <<buttonVars, board>>
  BY DEF SetImage, WriteBegin, WriteEnd, Flush, SeekFails, Close, DumpVars, Quiet
<1>7. UNCHANGED vars => UNCHANGED <<buttonVars, board>>
  BY DEF vars
<1> QED BY <1>1, <1>2, <1>3, <1>4, <1>5, <1>6, <1>7 DEF Next

\* On boards whose devicetree names the button's line, PowerButtonPoll resets
\* or powers off only for a press since the detector was cleared or a button
\* that is held, and does the one of the two the devicetree says, whatever
\* edges the VPU left latched and whenever updates, dumps and power cuts come.
THEOREM NoResetWithoutPress ==
  ASSUME TreesHold
  PROVE  Spec => []ResetMeansPress
<1>1. Init => ButtonInv
  <2> SUFFICES ASSUME Init PROVE ButtonInv
    OBVIOUS
  <2>1. PICK b \in Boards : ButtonInit(b.tree)
    BY DEF Init
  <2>2. dt = b.tree /\ step = "find"
    BY <2>1 DEF ButtonInit
  <2>3. TreeHolds(dt)
    BY <2>2 DEF TreesHold
  <2> QED BY <2>2, <2>3 DEF ButtonInv, EdgeIsPress, ResetMeansPress
<1>2. ButtonInv => ResetMeansPress
  BY DEF ButtonInv
<1> QED BY <1>1, <1>2, BoardStep, PTL DEF Spec
=============================================================================
