--------------------------- MODULE EepromStageProofs ---------------------------
(***************************************************************************)
(* Proofs about the staged EEPROM update and the published configuration   *)
(* for every set of settings and timestamps and every number of power      *)
(* cuts, failed writes and refused updates.                                *)
(***************************************************************************)
EXTENDS EepromStage, TLAPS

\* A fault is counted, and counts against the bound.
LEMMA FaultCount ==
  ASSUME TypeOK, NEW fails \in BOOLEAN, Fault(fails)
  PROVE  faults' \in 0 .. MaxFaults /\ (faults' = 0 => faults = 0 /\ ~fails)
  BY StageAssumption DEF TypeOK, Fault

\* And so is one in the driver's boot, which is then not a clean one.
LEMMA FailCount ==
  ASSUME TypeOK, NEW fails \in BOOLEAN, Fails(fails)
  PROVE  /\ faults' \in 0 .. MaxFaults /\ (faults' = 0 => faults = 0 /\ ~fails)
         /\ clean' \in BOOLEAN /\ (clean' => clean /\ ~fails)
<1>1. Fault(fails) /\ clean' = (clean /\ ~fails)
  BY DEF Fails
<1>2. clean' \in BOOLEAN /\ (clean' => clean /\ ~fails)
  BY <1>1
<1> QED BY <1>1, <1>2, FaultCount

\* The images the driver stages and the tools flash are images.
LEMMA StagedImages ==
  /\ \A i \in [cfg : Configs, ts : OutsideTs] : i \in Images
  /\ \A c \in Configs, t \in 0 .. MaxTs : [cfg |-> c, ts |-> t] \in Images
  /\ \A i \in Images : i.cfg \in Configs /\ i.ts \in 0 .. MaxTs /\ i # NoFile
  BY StageAssumption, NoFileAssumption DEF Images

-----------------------------------------------------------------------------
(* IInv, action by action.                                                 *)

LEMMA VpuInv == ASSUME IInv, VpuSelfUpdate \/ VpuBoot PROVE IInv'
<1> USE DEF IInv, files, nv, handed, history
<1>1. CASE VpuSelfUpdate
  <2>1. upd \in Images /\ sig \in [of : Images, ts : 0 .. MaxTs] /\ sig.of = upd /\ sig.ts # eeprom.ts
    BY <1>1 DEF VpuSelfUpdate, UpdateDue, TypeOK
  <2>2. upd.ts > eeprom.ts /\ upd.ts \in 0 .. MaxTs /\ eeprom.ts \in 0 .. MaxTs
    BY <1>1, <2>1, StagedImages DEF VpuSelfUpdate, UpdateDue, FilesAreLater, TypeOK
  <2>3. TypeOK'
    BY <1>1, <2>1 DEF VpuSelfUpdate, TypeOK
  <2>4. HandedOver' /\ FilesAreLater'
    BY <1>1, <2>2 DEF VpuSelfUpdate, HandedOver, FilesAreLater
  <2>5. GateHolds' /\ TimestampVouches'
    <3>1. pc = "idle" /\ eeprom' = upd /\ UNCHANGED <<timestamp, pc>>
      BY <1>1 DEF VpuSelfUpdate, HandedOver
    <3>2. timestamp # None => timestamp \in 0 .. MaxTs /\ timestamp < upd.ts
      BY <2>2 DEF GateHolds, TypeOK
    <3> QED BY <2>2, <3>1, <3>2 DEF GateHolds, TimestampVouches
  <2> QED BY <2>3, <2>4, <2>5
<1>2. CASE VpuBoot
  <2>0. UpdateDue \in BOOLEAN /\ Fault(UpdateDue)
    BY <1>2 DEF VpuBoot, UpdateDue
  <2>1. faults' \in 0 .. MaxFaults /\ clean' \in BOOLEAN
    BY <1>2, <2>0, FaultCount DEF VpuBoot
  <2>2. TypeOK'
    BY <1>2, <2>1, StagedImages DEF VpuBoot, TypeOK
  <2>3. HandedOver' /\ FilesAreLater' /\ GateHolds' /\ TimestampVouches'
    BY <1>2 DEF VpuBoot, HandedOver, FilesAreLater, GateHolds, TimestampVouches
  <2> QED BY <2>2, <2>3
<1> QED BY <1>1, <1>2

\* What is staged is later than what runs.
LEMMA StageUpdateInv ==
  ASSUME IInv, NEW values \in Configs, NEW rtc \in 0 .. MaxTs, StageUpdate(values, rtc)
  PROVE  IInv'
<1> USE DEF IInv, StageUpdate, files, nv, handed, history
<1> DEFINE t == StagingTimestamp(rtc)
<1>1. t \in 0 .. MaxTs /\ t > eeprom.ts
  BY StageAssumption DEF StagingTimestamp, TypeOK, HandedOver
<1>2. staging' = [image |-> [cfg |-> values, ts |-> t], ts |-> t]
  BY DEF PatchImage
<1> HIDE DEF t
<1>3. staging' \in [image : Images, ts : 0 .. MaxTs] /\ staging'.ts = t /\ staging'.image.ts = t
  BY <1>1, <1>2, StagedImages
<1>4. TypeOK'
  BY <1>3 DEF TypeOK
<1>5. HandedOver' /\ FilesAreLater' /\ GateHolds' /\ TimestampVouches'
  BY <1>1, <1>3 DEF HandedOver, FilesAreLater, GateHolds, TimestampVouches
<1> QED BY <1>4, <1>5

LEMMA StagingInv == ASSUME IInv, Staging PROVE IInv'
<1> USE DEF IInv, files, nv, handed, history
<1>0. staging.image \in Images /\ staging.ts \in 0 .. MaxTs /\ staging.image # NoFile
      /\ [of |-> staging.image, ts |-> staging.ts] \in [of : Images, ts : 0 .. MaxTs]
      /\ staging.ts = staging.image.ts /\ eeprom.ts \in 0 .. MaxTs /\ staging.image.cfg \in Configs
  BY StagedImages DEF TypeOK, FilesAreLater
<1>1. CASE ReplaceUpdBegin \/ ReplaceSigBegin
  BY <1>1, NoFileAssumption DEF ReplaceUpdBegin, ReplaceSigBegin, TypeOK, HandedOver, FilesAreLater, GateHolds, TimestampVouches
<1>2. ASSUME NEW fails \in BOOLEAN, ReplaceUpd(fails) PROVE IInv'
  <2>1. faults' \in 0 .. MaxFaults /\ clean' \in BOOLEAN
    BY <1>2, FailCount DEF ReplaceUpd
  <2>2. TypeOK'
    BY <1>0, <1>2, <2>1 DEF ReplaceUpd, TypeOK
  <2>3. HandedOver' /\ GateHolds' /\ TimestampVouches'
    BY <1>2 DEF ReplaceUpd, HandedOver, GateHolds, TimestampVouches
  <2>4. FilesAreLater'
    BY <1>0, <1>2 DEF ReplaceUpd, FilesAreLater
  <2> QED BY <2>2, <2>3, <2>4
<1>3. ASSUME NEW fails \in BOOLEAN, ReplaceSig(fails) PROVE IInv'
  <2>1. faults' \in 0 .. MaxFaults /\ clean' \in BOOLEAN
    BY <1>3, FailCount DEF ReplaceSig
  <2>2. TypeOK'
    BY <1>0, <1>3, <2>1 DEF ReplaceSig, TypeOK
  <2>3. HandedOver' /\ GateHolds' /\ TimestampVouches'
    BY <1>3 DEF ReplaceSig, HandedOver, GateHolds, TimestampVouches
  <2>4. FilesAreLater'
    BY <1>0, <1>3 DEF ReplaceSig, FilesAreLater
  <2> QED BY <2>2, <2>3, <2>4
<1>4. ASSUME NEW fails \in BOOLEAN, RecordAndReset(fails) PROVE IInv'
  <2>1. faults' \in 0 .. MaxFaults /\ clean' \in BOOLEAN
    BY <1>4, FailCount DEF RecordAndReset
  <2>2. TypeOK'
    BY <1>0, <1>4, <2>1 DEF RecordAndReset, TypeOK
  <2> QED BY <1>4, <2>2 DEF RecordAndReset, HandedOver, FilesAreLater, GateHolds, TimestampVouches
<1> QED BY <1>1, <1>2, <1>3, <1>4 DEF Staging

\* The configuration is written while the timestamp vouches for nothing.
LEMMA PublishingInv == ASSUME IInv, Publishing PROVE IInv'
<1> USE DEF IInv, files, nv, handed, history
<1>1. CASE TimestampGate
  <2>1. TypeOK'
    BY <1>1 DEF TimestampGate, TypeOK
  <2>2. UpToDate \/ timestamp = None \/ timestamp < eeprom.ts
    BY <1>1, StagedImages, StageAssumption DEF TimestampGate, UpToDate, TypeOK, HandedOver
  <2> QED BY <1>1, <2>1, <2>2 DEF TimestampGate, HandedOver, FilesAreLater, GateHolds, TimestampVouches
<1>2. ASSUME NEW fails \in BOOLEAN, OpenBootVolume(fails) \/ DeleteUpd(fails) \/ DeleteSig(fails) \/ ClearMarker(fails) PROVE IInv'
  <2>1. faults' \in 0 .. MaxFaults /\ clean' \in BOOLEAN
    BY <1>2, FailCount DEF OpenBootVolume, DeleteUpd, DeleteSig, ClearMarker
  <2>2. TypeOK'
    BY <1>2, <2>1 DEF OpenBootVolume, DeleteUpd, DeleteSig, ClearMarker, TypeOK
  <2> QED BY <1>2, <2>2 DEF OpenBootVolume, DeleteUpd, DeleteSig, ClearMarker, HandedOver, FilesAreLater, GateHolds, TimestampVouches
<1>3. ASSUME NEW fails \in BOOLEAN, PublishConfig(fails) PROVE IInv'
  <2>1. faults' \in 0 .. MaxFaults /\ clean' \in BOOLEAN
    BY <1>3, FailCount DEF PublishConfig
  <2>2. TypeOK'
    BY <1>3, <2>1 DEF PublishConfig, TypeOK
  <2>3. mCurrentValues = eeprom.cfg /\ (timestamp = None \/ timestamp < eeprom.ts) /\ eeprom.ts \in Nat
    BY <1>3, StagedImages DEF PublishConfig, HandedOver, GateHolds, TypeOK
  <2> QED BY <1>3, <2>2, <2>3 DEF PublishConfig, HandedOver, FilesAreLater, GateHolds, TimestampVouches
<1>4. ASSUME NEW fails \in BOOLEAN, PublishTimestamp(fails) PROVE IInv'
  <2>1. faults' \in 0 .. MaxFaults /\ clean' \in BOOLEAN
    BY <1>4, FailCount DEF PublishTimestamp
  <2>2. TypeOK'
    BY <1>4, <2>1 DEF PublishTimestamp, TypeOK
  <2>3. mDtbUpdateTimestamp = eeprom.ts /\ config = eeprom.cfg /\ eeprom.ts \in Nat
    BY <1>4, StagedImages DEF PublishTimestamp, HandedOver, GateHolds, TypeOK
  <2> QED BY <1>4, <2>2, <2>3 DEF PublishTimestamp, HandedOver, FilesAreLater, GateHolds, TimestampVouches
<1> QED BY <1>1, <1>2, <1>3, <1>4 DEF Publishing

LEMMA SurroundingsInv ==
  ASSUME IInv, BootloaderConfigOnReadyToBoot \/ StartOs \/ OsReset \/ PowerCut
  PROVE  IInv'
<1> USE DEF IInv, files, nv, handed, history
<1>1. CASE BootloaderConfigOnReadyToBoot
  BY <1>1 DEF BootloaderConfigOnReadyToBoot, TypeOK, HandedOver, FilesAreLater, GateHolds, TimestampVouches
<1>2. CASE StartOs \/ OsReset
  BY <1>2 DEF StartOs, OsReset, TypeOK, HandedOver, FilesAreLater, GateHolds, TimestampVouches
<1>3. CASE PowerCut
  <2>1. faults' \in 0 .. MaxFaults /\ clean' \in BOOLEAN
    BY <1>3, FailCount DEF PowerCut
  <2> QED BY <1>3, <2>1 DEF PowerCut, TypeOK, HandedOver, FilesAreLater, GateHolds, TimestampVouches
<1> QED BY <1>1, <1>2, <1>3

LEMMA OutsideFlashInv ==
  ASSUME IInv, NEW image \in [cfg : Configs, ts : OutsideTs], OutsideFlash(image)
  PROVE  IInv'
<1> USE DEF IInv, OutsideFlash, nv, handed, history
<1>1. image \in Images /\ image.ts \in 0 .. MaxTs /\ eeprom.ts \in 0 .. MaxTs
  BY StagedImages DEF TypeOK
<1>2. TypeOK'
  BY <1>1 DEF TypeOK
<1>3. HandedOver' /\ FilesAreLater'
  BY DEF HandedOver, FilesAreLater
<1>4. GateHolds' /\ TimestampVouches'
  <2>1. pc = "idle" /\ eeprom' = image /\ image.ts > eeprom.ts /\ UNCHANGED <<timestamp, pc>>
    BY DEF HandedOver
  <2>2. timestamp # None => timestamp \in 0 .. MaxTs /\ timestamp < image.ts
    BY <1>1, <2>1 DEF GateHolds, TypeOK
  <2> QED BY <1>1, <2>1, <2>2 DEF GateHolds, TimestampVouches
<1> QED BY <1>2, <1>3, <1>4

\* IInv holds across boots, faults and power cuts.
THEOREM StageInvariant == Spec => []IInv
<1>1. Init => IInv
  <2> SUFFICES ASSUME Init PROVE IInv
    OBVIOUS
  <2>1. eeprom \in Images /\ eeprom.cfg \in Configs /\ eeprom.ts = FactoryTs
    BY StageAssumption DEF Init, Images
  <2>2. TypeOK
    <3>1. staging \in [image : Images, ts : 0 .. MaxTs] /\ faults \in 0 .. MaxFaults
      BY <2>1, StageAssumption DEF Init
    <3>2. FactoryTs \in 0 .. MaxTs /\ mPublished \in BOOLEAN
      BY StageAssumption DEF Init
    <3> QED BY <2>1, <3>1, <3>2 DEF Init, TypeOK
  <2> QED BY <2>1, <2>2 DEF Init, IInv, HandedOver, FilesAreLater, GateHolds, TimestampVouches
<1>2. IInv /\ [Next]_vars => IInv'
  <2> SUFFICES ASSUME IInv, [Next]_vars PROVE IInv'
    OBVIOUS
  <2>1. CASE Next
    BY <2>1, VpuInv, StageUpdateInv, StagingInv, PublishingInv, SurroundingsInv, OutsideFlashInv DEF Next
  <2>2. CASE UNCHANGED vars
    BY <2>2 DEF vars, files, nv, handed, history, IInv, TypeOK, HandedOver, FilesAreLater, GateHolds, TimestampVouches
  <2> QED BY <2>1, <2>2
<1> QED BY <1>1, <1>2, PTL DEF Spec

\* A stored timestamp vouches for the stored configuration, whatever is cut or
\* fails between the two writes, and whoever flashes the EEPROM.
THEOREM StoredConfigIsLive == Spec => []TimestampVouches
  BY StageInvariant, PTL DEF IInv

\* No pair of files, however it was left over, sets the EEPROM back.
THEOREM NeverDowngraded == Spec => EepromMovesForward
<1>1. IInv /\ [Next]_vars => (VpuSelfUpdate => eeprom'.ts > eeprom.ts)
  <2> SUFFICES ASSUME IInv, VpuSelfUpdate PROVE eeprom'.ts > eeprom.ts
    OBVIOUS
  <2>1. upd \in Images /\ sig.of = upd /\ sig.ts = sig.of.ts /\ sig.ts # eeprom.ts /\ upd.ts >= eeprom.ts
    BY DEF IInv, TypeOK, VpuSelfUpdate, UpdateDue, FilesAreLater
  <2>2. upd.ts \in 0 .. MaxTs /\ eeprom.ts \in 0 .. MaxTs /\ eeprom' = upd
    BY <2>1, StagedImages DEF IInv, TypeOK, VpuSelfUpdate
  <2> QED BY <2>1, <2>2
<1> QED BY <1>1, StageInvariant, PTL DEF Spec, EepromMovesForward

-----------------------------------------------------------------------------
(* As long as nothing failed.                                              *)

LEMMA FaultlessBoot == ASSUME IInv, NothingFailed, VpuSelfUpdate \/ VpuBoot PROVE NothingFailed'
<1> USE DEF files, nv, handed, history
<1>0. eeprom.ts \in 0 .. MaxTs /\ (upd # NoFile => upd.ts \in 0 .. MaxTs) /\ pc = "idle"
  BY StagedImages DEF IInv, TypeOK, HandedOver, VpuSelfUpdate, VpuBoot
<1>1. CASE VpuSelfUpdate
  BY <1>0, <1>1 DEF VpuSelfUpdate, NothingFailed, Tidy, Due, UpdateDue
<1>2. CASE VpuBoot
  <2> SUFFICES ASSUME faults' = 0 PROVE NothingFailed'
    BY DEF NothingFailed
  <2>0. UpdateDue \in BOOLEAN /\ Fault(UpdateDue) /\ TypeOK
    BY <1>2 DEF VpuBoot, UpdateDue, IInv
  <2>1. faults = 0 /\ ~UpdateDue
    BY <2>0, FaultCount
  <2>2. Tidy \/ marker = eeprom.cfg
    <3>1. CASE Due
      <4>0. [of |-> upd, ts |-> upd.ts] \in [of : Images, ts : 0 .. MaxTs]
        BY <2>0, <3>1, StagedImages DEF Due, TypeOK
      <4>1. sig # NoFile /\ sig.of = upd /\ sig.ts = upd.ts
        BY <3>1, <4>0, NoFileAssumption DEF Due
      <4>2. upd.ts = eeprom.ts
        BY <2>1, <3>1, <4>1 DEF UpdateDue, Due
      <4> QED BY <3>1, <4>2 DEF Due
    <3> QED BY <1>2, <2>1, <3>1 DEF VpuBoot, NothingFailed
  <2> QED BY <1>0, <1>2, <2>2 DEF VpuBoot, NothingFailed, Tidy
<1> QED BY <1>1, <1>2

LEMMA FaultlessStaging ==
  ASSUME IInv, NothingFailed,
         Staging \/ \E values \in Configs, rtc \in 0 .. MaxTs : StageUpdate(values, rtc)
  PROVE  NothingFailed'
<1> USE DEF files, nv, handed, history
<1>0. staging.image \in Images /\ staging.image # NoFile /\ staging.ts = staging.image.ts
      /\ staging.ts \in 0 .. MaxTs /\ eeprom.ts \in 0 .. MaxTs
  BY StagedImages DEF IInv, TypeOK, FilesAreLater
<1>1. ASSUME NEW values \in Configs, NEW rtc \in 0 .. MaxTs, StageUpdate(values, rtc) PROVE NothingFailed'
  BY <1>1 DEF StageUpdate, NothingFailed
<1>2. CASE ReplaceUpdBegin \/ ReplaceSigBegin
  BY <1>2 DEF ReplaceUpdBegin, ReplaceSigBegin, NothingFailed, IInv, HandedOver
<1>3. ASSUME NEW fails \in BOOLEAN, ReplaceUpd(fails) \/ ReplaceSig(fails) PROVE NothingFailed'
  <2>1. faults' = 0 => faults = 0 /\ ~fails
    BY <1>3, FailCount DEF ReplaceUpd, ReplaceSig, IInv
  <2> QED BY <1>0, <1>3, <2>1 DEF ReplaceUpd, ReplaceSig, NothingFailed, IInv, HandedOver
<1>4. ASSUME NEW fails \in BOOLEAN, RecordAndReset(fails) PROVE NothingFailed'
  <2>1. faults' = 0 => faults = 0 /\ ~fails
    BY <1>4, FailCount DEF RecordAndReset, IInv
  <2>2. staging.ts > eeprom.ts
    BY <1>4 DEF RecordAndReset, IInv, FilesAreLater
  <2> QED BY <1>0, <1>4, <2>1, <2>2 DEF RecordAndReset, NothingFailed, Due
<1> QED BY <1>1, <1>2, <1>3, <1>4 DEF Staging

LEMMA FaultlessPublishing ==
  ASSUME IInv, NothingFailed, BootloaderConfigOnReadyToBoot \/ Publishing
  PROVE  NothingFailed'
<1> USE DEF files, nv, handed, history
<1>0. phase = "firmware" /\ mCurrentValues = eeprom.cfg /\ mDtbUpdateTimestamp = eeprom.ts
      /\ eeprom.ts \in 0 .. MaxTs /\ eeprom.cfg \in Configs /\ eeprom.cfg # None
  BY StagedImages, StageAssumption
  DEF IInv, TypeOK, HandedOver, BootloaderConfigOnReadyToBoot, Publishing, TimestampGate,
      OpenBootVolume, DeleteUpd, DeleteSig, ClearMarker, PublishConfig, PublishTimestamp
<1>1. CASE BootloaderConfigOnReadyToBoot
  BY <1>0, <1>1 DEF BootloaderConfigOnReadyToBoot, NothingFailed, Tidy
<1>2. CASE TimestampGate
  <2>1. UpToDate => config = eeprom.cfg
    BY <1>0 DEF UpToDate, IInv, TypeOK, GateHolds, TimestampVouches
  <2>2. pc = "gate" /\ (faults = 0 => Tidy) /\ UNCHANGED <<eeprom, upd, sig, marker, config, phase, mPublished, faults>>
        /\ pc' = IF UpToDate THEN "idle" ELSE "config"
    BY <1>2 DEF TimestampGate, NothingFailed
  <2> QED BY <1>0, <2>1, <2>2 DEF NothingFailed, Tidy
<1>3. ASSUME NEW fails \in BOOLEAN, OpenBootVolume(fails) \/ DeleteUpd(fails) \/ DeleteSig(fails) \/ ClearMarker(fails) PROVE NothingFailed'
  <2>1. faults' = 0 => faults = 0 /\ ~fails
    BY <1>3, FailCount DEF OpenBootVolume, DeleteUpd, DeleteSig, ClearMarker, IInv
  <2>2. CASE OpenBootVolume(fails)
    BY <1>0, <2>1, <2>2 DEF OpenBootVolume, Applied, NothingFailed
  <2>3. CASE DeleteUpd(fails) \/ DeleteSig(fails)
    BY <1>0, <2>1, <2>3 DEF DeleteUpd, DeleteSig, NothingFailed
  <2>4. CASE ClearMarker(fails)
    BY <1>0, <2>1, <2>4 DEF ClearMarker, NothingFailed, Tidy
  <2> QED BY <1>3, <2>2, <2>3, <2>4
<1>4. ASSUME NEW fails \in BOOLEAN, PublishConfig(fails) \/ PublishTimestamp(fails) PROVE NothingFailed'
  <2>1. faults' = 0 => faults = 0 /\ ~fails
    BY <1>4, FailCount DEF PublishConfig, PublishTimestamp, IInv
  <2>2. pc = "timestamp" => config = eeprom.cfg
    BY DEF IInv, GateHolds
  <2> QED BY <1>0, <1>4, <2>1, <2>2 DEF PublishConfig, PublishTimestamp, NothingFailed, Tidy
<1> QED BY <1>1, <1>2, <1>3, <1>4 DEF Publishing

LEMMA FaultlessSurroundings ==
  ASSUME IInv, NothingFailed,
         StartOs \/ OsReset \/ PowerCut \/ \E image \in [cfg : Configs, ts : OutsideTs] : OutsideFlash(image)
  PROVE  NothingFailed'
<1> USE DEF files, nv, handed, history
<1>1. CASE StartOs
  BY <1>1 DEF StartOs, NothingFailed, Tidy
<1>2. CASE OsReset
  BY <1>2 DEF OsReset, NothingFailed, Tidy, IInv, HandedOver
<1>3. CASE PowerCut
  <2>1. faults' # 0
    BY <1>3, FailCount DEF PowerCut, IInv
  <2> QED BY <2>1 DEF NothingFailed
<1>4. ASSUME NEW image \in [cfg : Configs, ts : OutsideTs], OutsideFlash(image) PROVE NothingFailed'
  BY <1>4 DEF OutsideFlash, NothingFailed, Tidy, IInv, HandedOver
<1> QED BY <1>1, <1>2, <1>3, <1>4

-----------------------------------------------------------------------------
(* In a boot in which nothing failed.                                      *)

LEMMA CleanPublishing ==
  ASSUME IInv, NothingFailedNow, BootloaderConfigOnReadyToBoot \/ Publishing
  PROVE  NothingFailedNow'
<1> USE DEF files, nv, handed, history
<1>0. phase = "firmware" /\ mCurrentValues = eeprom.cfg /\ mDtbUpdateTimestamp = eeprom.ts
      /\ eeprom.ts \in 0 .. MaxTs
  BY StagedImages
  DEF IInv, TypeOK, HandedOver, BootloaderConfigOnReadyToBoot, Publishing, TimestampGate,
      OpenBootVolume, DeleteUpd, DeleteSig, ClearMarker, PublishConfig, PublishTimestamp
<1>1. CASE BootloaderConfigOnReadyToBoot
  BY <1>0, <1>1 DEF BootloaderConfigOnReadyToBoot, NothingFailedNow
<1>2. CASE TimestampGate
  <2>1. UpToDate => config = eeprom.cfg
    BY <1>0 DEF UpToDate, IInv, TypeOK, GateHolds, TimestampVouches
  <2>2. pc = "gate" /\ UNCHANGED <<eeprom, marker, config, phase, mPublished, clean>>
        /\ pc' = IF UpToDate THEN "idle" ELSE "config"
    BY <1>2 DEF TimestampGate
  <2> QED BY <1>0, <2>1, <2>2 DEF NothingFailedNow, Published
<1>3. ASSUME NEW fails \in BOOLEAN, OpenBootVolume(fails) \/ DeleteUpd(fails) \/ DeleteSig(fails) \/ ClearMarker(fails)
      PROVE  NothingFailedNow'
  <2>1. clean' => clean /\ ~fails
    BY <1>3, FailCount DEF OpenBootVolume, DeleteUpd, DeleteSig, ClearMarker, IInv
  <2> QED BY <1>0, <1>3, <2>1 DEF OpenBootVolume, DeleteUpd, DeleteSig, ClearMarker, NothingFailedNow
<1>4. ASSUME NEW fails \in BOOLEAN, PublishConfig(fails) \/ PublishTimestamp(fails) PROVE NothingFailedNow'
  <2>1. clean' => clean /\ ~fails
    BY <1>4, FailCount DEF PublishConfig, PublishTimestamp, IInv
  <2>2. pc = "timestamp" => config = eeprom.cfg
    BY DEF IInv, GateHolds
  <2> QED BY <1>0, <1>4, <2>1, <2>2 DEF PublishConfig, PublishTimestamp, NothingFailedNow, Published
<1> QED BY <1>1, <1>2, <1>3, <1>4 DEF Publishing

LEMMA CleanStaging ==
  ASSUME IInv, NothingFailedNow,
         Staging \/ \E values \in Configs, rtc \in 0 .. MaxTs : StageUpdate(values, rtc)
  PROVE  NothingFailedNow'
<1> USE DEF files, nv, handed, history
<1>1. ASSUME NEW values \in Configs, NEW rtc \in 0 .. MaxTs, StageUpdate(values, rtc) PROVE NothingFailedNow'
  BY <1>1 DEF StageUpdate, NothingFailedNow
<1>2. CASE ReplaceUpdBegin \/ ReplaceSigBegin
  BY <1>2 DEF ReplaceUpdBegin, ReplaceSigBegin, NothingFailedNow, IInv, HandedOver
<1>3. ASSUME NEW fails \in BOOLEAN, ReplaceUpd(fails) \/ ReplaceSig(fails) PROVE NothingFailedNow'
  <2>1. clean' => clean /\ ~fails
    BY <1>3, FailCount DEF ReplaceUpd, ReplaceSig, IInv
  <2> QED BY <1>3, <2>1 DEF ReplaceUpd, ReplaceSig, NothingFailedNow, IInv, HandedOver
<1>4. ASSUME NEW fails \in BOOLEAN, RecordAndReset(fails) PROVE NothingFailedNow'
  BY <1>4 DEF RecordAndReset, NothingFailedNow
<1> QED BY <1>1, <1>2, <1>3, <1>4 DEF Staging

LEMMA CleanSurroundings ==
  ASSUME IInv, NothingFailedNow,
         \/ VpuSelfUpdate \/ VpuBoot \/ StartOs \/ OsReset \/ PowerCut
         \/ \E image \in [cfg : Configs, ts : OutsideTs] : OutsideFlash(image)
  PROVE  NothingFailedNow'
<1> USE DEF files, nv, handed, history
<1>1. CASE VpuSelfUpdate \/ VpuBoot
  BY <1>1 DEF VpuSelfUpdate, VpuBoot, NothingFailedNow, IInv, HandedOver
<1>2. CASE StartOs
  BY <1>2 DEF StartOs, NothingFailedNow, Published
<1>3. CASE OsReset \/ PowerCut
  BY <1>3 DEF OsReset, PowerCut, NothingFailedNow, IInv, HandedOver
<1>4. ASSUME NEW image \in [cfg : Configs, ts : OutsideTs], OutsideFlash(image) PROVE NothingFailedNow'
  BY <1>4 DEF OutsideFlash, NothingFailedNow, IInv, HandedOver
<1> QED BY <1>1, <1>2, <1>3, <1>4

\* Whatever failed, was cut or was flashed before, an OS started in a boot in
\* which no step failed finds the live configuration published, and no marker;
\* and while nothing has failed at all, no files of an applied update.
THEOREM TidyHandover == Spec => []CleanHandover
<1>1. Init => NothingFailed /\ NothingFailedNow
  BY DEF Init, NothingFailed, NothingFailedNow, Tidy
<1>2. IInv /\ NothingFailed /\ [Next]_vars => NothingFailed'
  <2> SUFFICES ASSUME IInv, NothingFailed, [Next]_vars PROVE NothingFailed'
    OBVIOUS
  <2>1. CASE Next
    BY <2>1, FaultlessBoot, FaultlessStaging, FaultlessPublishing, FaultlessSurroundings DEF Next
  <2>2. CASE UNCHANGED vars
    BY <2>2 DEF vars, files, nv, handed, history, NothingFailed, Tidy, Due
  <2> QED BY <2>1, <2>2
<1>3. IInv /\ NothingFailedNow /\ [Next]_vars => NothingFailedNow'
  <2> SUFFICES ASSUME IInv, NothingFailedNow, [Next]_vars PROVE NothingFailedNow'
    OBVIOUS
  <2>1. CASE Next
    BY <2>1, CleanStaging, CleanPublishing, CleanSurroundings DEF Next
  <2>2. CASE UNCHANGED vars
    BY <2>2 DEF vars, files, nv, handed, history, NothingFailedNow, Published
  <2> QED BY <2>1, <2>2
<1>4. NothingFailed /\ NothingFailedNow => CleanHandover
  BY DEF NothingFailed, NothingFailedNow, CleanHandover, Published, Tidy
<1> QED BY <1>1, <1>2, <1>3, <1>4, StageInvariant, PTL DEF Spec
=============================================================================
