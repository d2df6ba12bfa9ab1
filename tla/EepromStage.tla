------------------------------ MODULE EepromStage ------------------------------
(***************************************************************************)
(* BootloaderConfigDxe across boots: the staged update of the bootloader   *)
(* EEPROM (StageUpdate, the VPU's self-update, BlStagedMarkerCleanup) and  *)
(* the publication of the live configuration for the BMC.  Power can be    *)
(* cut between any two steps; writes can fail.                             *)
(***************************************************************************)
EXTENDS Integers

CONSTANTS Configs,     \* values of the managed bootloader settings
          MaxTs,       \* bound: the largest update timestamp
          FactoryTs,   \* timestamp of the first image
          OutsideTs,   \* timestamps of images other tools flash
          MaxFaults,   \* bound: power cuts, failed writes, refused updates
          NoFile,      \* a file that is absent or incomplete
          None         \* a variable that is absent

ASSUME StageAssumption ==
  /\ MaxTs \in Nat /\ MaxFaults \in Nat /\ FactoryTs \in 0 .. MaxTs
  /\ OutsideTs \subseteq 0 .. MaxTs
  /\ None \notin Configs /\ None \notin 0 .. MaxTs

Images == [cfg : Configs, ts : 0 .. MaxTs]

ASSUME NoFileAssumption == NoFile \notin Images /\ NoFile \notin [of : Images, ts : 0 .. MaxTs]

VARIABLES
  eeprom,     \* the image in the boot EEPROM
  upd, sig,   \* pieeprom.upd and pieeprom.sig on the boot volume
  marker,     \* NV variable BlCfgStaged
  config, timestamp,      \* NV variables BootloaderConfig and its timestamp
  phase,      \* "off", "firmware" or "os"
  mCurrentValues, mDtbUpdateTimestamp,   \* what the VPU handed over
  mPublished,
  pc,         \* where StageUpdate or the ReadyToBoot handler is
  staging,    \* the image being staged, and the timestamp for its .sig
  faults,     \* history: faults so far
  clean       \* history: nothing has failed since the VPU handed over

files    == <<upd, sig>>
nv       == <<marker, config, timestamp>>
handed   == <<mCurrentValues, mDtbUpdateTimestamp>>
history  == <<faults, clean>>
vars     == <<eeprom, files, nv, phase, handed, mPublished, pc, staging, history>>

-----------------------------------------------------------------------------
Fault(fails) ==
  /\ fails => faults < MaxFaults
  /\ faults' = IF fails THEN faults + 1 ELSE faults
\* In the driver's own boot: what it has to live with, too.
Fails(fails) == Fault(fails) /\ clean' = (clean /\ ~fails)

Init ==
  /\ eeprom \in [cfg : Configs, ts : {FactoryTs}]
  /\ upd = NoFile /\ sig = NoFile
  /\ marker = None /\ config = None /\ timestamp = None
  /\ phase = "off"
  /\ mCurrentValues = eeprom.cfg /\ mDtbUpdateTimestamp = FactoryTs
  /\ mPublished = FALSE
  /\ pc = "idle"
  /\ staging = [image |-> eeprom, ts |-> FactoryTs]
  /\ faults = 0 /\ clean = FALSE

-----------------------------------------------------------------------------
(* The VPU bootloader, as the driver relies on it: it ignores a .upd whose *)
(* .sig is missing or does not match, and one whose timestamp is the       *)
(* installed one; after a self-update it starts over.                      *)

UpdateDue == upd # NoFile /\ sig # NoFile /\ sig.of = upd /\ sig.ts # eeprom.ts

VpuSelfUpdate ==
  /\ phase = "off"
  /\ UpdateDue
  /\ eeprom' = upd
  /\ UNCHANGED <<files, nv, phase, handed, mPublished, pc, staging, history>>

\* LoadBlconfig and BootloaderConfigEntryPoint.
VpuBoot ==
  /\ phase = "off"
  /\ Fault(UpdateDue)
  /\ phase' = "firmware"
  /\ mCurrentValues' = eeprom.cfg /\ mDtbUpdateTimestamp' = eeprom.ts
  /\ mPublished' = FALSE /\ clean' = TRUE
  /\ UNCHANGED <<eeprom, files, nv, pc, staging>>

-----------------------------------------------------------------------------
(* Setup: StageUpdate.  Its checks, the SPI read and PatchImage change     *)
(* nothing until the image is complete.                                    *)

\* Mutants: the clock is trusted; a slow clock gives the installed timestamp.
TimestampFromRtc(rtc) == rtc
TimestampNotLater(rtc) == IF rtc > mDtbUpdateTimestamp THEN rtc ELSE mDtbUpdateTimestamp

\* Real time if it is plausible and later, else one past the installed.
StagingTimestamp(rtc) == IF rtc > mDtbUpdateTimestamp THEN rtc ELSE mDtbUpdateTimestamp + 1

\* Mutant: the timestamp is left alone.
PatchImageTextOnly(values, ts) == [cfg |-> values, ts |-> mDtbUpdateTimestamp]

\* bootconf.txt and the self-update timestamp are rewritten in the image.
PatchImage(values, ts) == [cfg |-> values, ts |-> ts]

StageUpdate(values, rtc) ==
  /\ phase = "firmware" /\ pc = "idle"
  /\ values # mCurrentValues
  /\ StagingTimestamp(rtc) <= MaxTs
  /\ staging' = [image |-> PatchImage(values, StagingTimestamp(rtc)),
                 ts |-> StagingTimestamp(rtc)]
  /\ pc' = "upd"
  /\ UNCHANGED <<eeprom, files, nv, phase, handed, mPublished, history>>

\* ReplaceFileContent deletes, then writes: until it is flushed the file is
\* unusable.
ReplaceUpdBegin ==
  /\ pc = "upd"
  /\ upd' = NoFile
  /\ pc' = "updWriting"
  /\ UNCHANGED <<eeprom, sig, nv, phase, handed, mPublished, staging, history>>

ReplaceUpd(fails) ==
  /\ pc = "updWriting"
  /\ Fails(fails)
  /\ upd' = IF fails THEN NoFile ELSE staging.image
  /\ pc' = IF fails THEN "idle" ELSE "sig"
  /\ UNCHANGED <<eeprom, sig, nv, phase, handed, mPublished, staging>>

ReplaceSigBegin ==
  /\ pc = "sig"
  /\ sig' = NoFile
  /\ pc' = "sigWriting"
  /\ UNCHANGED <<eeprom, upd, nv, phase, handed, mPublished, staging, history>>

\* A .sig that cannot be written takes the .upd with it.
ReplaceSig(fails) ==
  /\ pc = "sigWriting"
  /\ Fails(fails)
  /\ sig' = IF fails THEN NoFile ELSE [of |-> staging.image, ts |-> staging.ts]
  /\ upd' = IF fails THEN NoFile ELSE upd
  /\ pc' = IF fails THEN "idle" ELSE "record"
  /\ UNCHANGED <<eeprom, nv, phase, handed, mPublished, staging>>

\* The status of the marker's SetVariable is not looked at.
RecordAndReset(fails) ==
  /\ pc = "record"
  /\ Fails(fails)
  /\ marker' = IF fails THEN marker ELSE staging.image.cfg
  /\ phase' = "off"
  /\ pc' = "idle"
  /\ UNCHANGED <<eeprom, files, config, timestamp, handed, mPublished, staging>>

-----------------------------------------------------------------------------
(* The ReadyToBoot handler.                                                *)

BootloaderConfigOnReadyToBoot ==
  /\ phase = "firmware" /\ pc = "idle"
  /\ ~mPublished
  /\ mPublished' = TRUE
  /\ pc' = IF marker = None THEN "gate" ELSE "cleanup"
  /\ UNCHANGED <<eeprom, files, nv, phase, handed, staging, history>>

\* The VPU handed over what was staged.  Mutant: the comparison is inverted.
AppliedNot == marker # mCurrentValues
Applied == marker = mCurrentValues

\* BlStagedMarkerCleanup: an applied update's files go, one by one, if the
\* volume opens.  Nobody asks whether they went.
OpenBootVolume(fails) ==
  /\ pc = "cleanup"
  /\ Fails(fails)
  /\ pc' = IF Applied /\ ~fails THEN "deleteUpd" ELSE "clearMarker"
  /\ UNCHANGED <<eeprom, files, nv, phase, handed, mPublished, staging>>

DeleteUpd(fails) ==
  /\ pc = "deleteUpd"
  /\ Fails(fails)
  /\ upd' = IF fails THEN upd ELSE NoFile
  /\ pc' = "deleteSig"
  /\ UNCHANGED <<eeprom, sig, nv, phase, handed, mPublished, staging>>

DeleteSig(fails) ==
  /\ pc = "deleteSig"
  /\ Fails(fails)
  /\ sig' = IF fails THEN sig ELSE NoFile
  /\ pc' = "clearMarker"
  /\ UNCHANGED <<eeprom, upd, nv, phase, handed, mPublished, staging>>

\* The marker goes in any case.
ClearMarker(fails) ==
  /\ pc = "clearMarker"
  /\ Fails(fails)
  /\ marker' = IF fails THEN marker ELSE None
  /\ pc' = "gate"
  /\ UNCHANGED <<eeprom, files, config, timestamp, phase, handed, mPublished, staging>>

UpToDate == timestamp # None /\ timestamp >= mDtbUpdateTimestamp

\* Nothing is written while the stored timestamp is not older.
TimestampGate ==
  /\ pc = "gate"
  /\ pc' = IF UpToDate THEN "idle" ELSE "config"
  /\ UNCHANGED <<eeprom, files, nv, phase, handed, mPublished, staging, history>>

\* Mutant: the timestamp follows in any case.
PublishConfigAnyway(fails) ==
  /\ pc = "config"
  /\ Fails(fails)
  /\ config' = IF fails THEN config ELSE mCurrentValues
  /\ pc' = "timestamp"
  /\ UNCHANGED <<eeprom, files, marker, timestamp, phase, handed, mPublished, staging>>

PublishConfig(fails) ==
  /\ pc = "config"
  /\ Fails(fails)
  /\ config' = IF fails THEN config ELSE mCurrentValues
  /\ pc' = IF fails THEN "idle" ELSE "timestamp"
  /\ UNCHANGED <<eeprom, files, marker, timestamp, phase, handed, mPublished, staging>>

PublishTimestamp(fails) ==
  /\ pc = "timestamp"
  /\ Fails(fails)
  /\ timestamp' = IF fails THEN timestamp ELSE mDtbUpdateTimestamp
  /\ pc' = "idle"
  /\ UNCHANGED <<eeprom, files, marker, config, phase, handed, mPublished, staging>>

-----------------------------------------------------------------------------
(* The surroundings.                                                       *)

\* The OS starts after ReadyToBoot.
StartOs ==
  /\ phase = "firmware" /\ pc = "idle" /\ mPublished
  /\ phase' = "os"
  /\ UNCHANGED <<eeprom, files, nv, handed, mPublished, pc, staging, history>>

OsReset ==
  /\ phase = "os"
  /\ phase' = "off"
  /\ UNCHANGED <<eeprom, files, nv, handed, mPublished, pc, staging, history>>

\* An update tool of the OS brings a later image.  It goes through the same
\* two files, so a pair left on the volume goes with it.
OutsideFlash(image) ==
  /\ phase = "os"
  /\ image.ts > eeprom.ts
  /\ eeprom' = image
  /\ upd' = NoFile /\ sig' = NoFile
  /\ phase' = "off"
  /\ UNCHANGED <<nv, handed, mPublished, pc, staging, history>>

PowerCut ==
  /\ phase # "off"
  /\ Fails(TRUE)
  /\ phase' = "off"
  /\ pc' = "idle"
  /\ UNCHANGED <<eeprom, files, nv, handed, mPublished, staging>>

-----------------------------------------------------------------------------
Staging ==
  \/ ReplaceUpdBegin
  \/ ReplaceSigBegin
  \/ \E fails \in BOOLEAN : ReplaceUpd(fails) \/ ReplaceSig(fails) \/ RecordAndReset(fails)

Publishing ==
  \/ TimestampGate
  \/ \E fails \in BOOLEAN :
       \/ OpenBootVolume(fails) \/ DeleteUpd(fails) \/ DeleteSig(fails) \/ ClearMarker(fails)
       \/ PublishConfig(fails) \/ PublishTimestamp(fails)

Next ==
  \/ VpuSelfUpdate
  \/ VpuBoot
  \/ \E values \in Configs, rtc \in 0 .. MaxTs : StageUpdate(values, rtc)
  \/ Staging
  \/ BootloaderConfigOnReadyToBoot
  \/ Publishing
  \/ StartOs
  \/ OsReset
  \/ \E image \in [cfg : Configs, ts : OutsideTs] : OutsideFlash(image)
  \/ PowerCut

\* A powered machine runs; its user leaves Setup in the end.
Fairness ==
  /\ WF_vars(VpuSelfUpdate \/ VpuBoot)
  /\ WF_vars(Staging \/ Publishing)
  /\ WF_vars(BootloaderConfigOnReadyToBoot) /\ WF_vars(StartOs)

Spec == Init /\ [][Next]_vars
FairSpec == Spec /\ Fairness

-----------------------------------------------------------------------------
(* Properties.                                                             *)

\* No pair of files left over by a crash or a failed step ever sets the
\* EEPROM back to an older image.
EepromMovesForward == [][VpuSelfUpdate => eeprom'.ts > eeprom.ts]_vars

\* A stored timestamp vouches for the stored configuration, whatever is cut
\* or fails between the two writes.
TimestampVouches ==
  timestamp # None /\ timestamp = eeprom.ts => config = eeprom.cfg

\* Whatever failed in boots before, an OS started in a boot in which no step
\* failed finds the live configuration published and no marker; and as long as
\* nothing ever failed, the files of an applied update are gone as well.  (Once
\* a delete has failed nothing tracks the files any more.)
CleanHandover ==
  phase = "os" =>
    /\ clean => config = eeprom.cfg /\ marker = None
    /\ faults = 0 => upd = NoFile /\ sig = NoFile

\* What makes the three inductive: what runs is what the VPU handed over; a
\* file on the volume is never older than the EEPROM, nor is the EEPROM than
\* the stored timestamp; and, as long as nothing failed, a pair of files comes
\* with the marker that will remove it.
TypeOK ==
  /\ eeprom \in Images /\ upd \in Images \cup {NoFile}
  /\ sig \in [of : Images, ts : 0 .. MaxTs] \cup {NoFile}
  /\ marker \in Configs \cup {None} /\ config \in Configs \cup {None}
  /\ timestamp \in 0 .. MaxTs \cup {None}
  /\ phase \in {"off", "firmware", "os"}
  /\ mCurrentValues \in Configs /\ mDtbUpdateTimestamp \in 0 .. MaxTs
  /\ mPublished \in BOOLEAN
  /\ pc \in {"idle", "upd", "updWriting", "sig", "sigWriting", "record",
             "cleanup", "deleteUpd", "deleteSig", "clearMarker", "gate", "config", "timestamp"}
  /\ staging \in [image : Images, ts : 0 .. MaxTs]
  /\ faults \in 0 .. MaxFaults /\ clean \in BOOLEAN
HandedOver ==
  /\ phase # "off" => mCurrentValues = eeprom.cfg /\ mDtbUpdateTimestamp = eeprom.ts
  /\ pc # "idle" => phase = "firmware"
FilesAreLater ==
  /\ upd # NoFile => upd.ts >= eeprom.ts
  /\ sig # NoFile => sig.ts = sig.of.ts
  /\ staging.ts = staging.image.ts
  /\ pc \in {"upd", "updWriting", "sig", "sigWriting", "record"} => staging.ts > eeprom.ts
GateHolds ==
  /\ timestamp # None => timestamp <= eeprom.ts
  /\ pc \in {"config", "timestamp"} => timestamp = None \/ timestamp < eeprom.ts
  /\ pc = "timestamp" => config = eeprom.cfg

IInv == TypeOK /\ HandedOver /\ FilesAreLater /\ GateHolds /\ TimestampVouches

\* In a boot without a failure the publication gets through.
Published == config = eeprom.cfg /\ marker = None
NothingFailedNow ==
  clean =>
    /\ phase = "os" \/ (phase = "firmware" /\ pc = "idle" /\ mPublished) => Published
    /\ pc \in {"gate", "config", "timestamp"} => marker = None
    /\ pc \in {"cleanup", "deleteUpd", "deleteSig", "clearMarker", "gate", "config", "timestamp"} => mPublished

Tidy == upd = NoFile /\ sig = NoFile /\ marker = None
Due  == /\ upd # NoFile /\ marker = upd.cfg /\ sig = [of |-> upd, ts |-> upd.ts]
        /\ upd.ts = eeprom.ts => eeprom = upd
NothingFailed ==
  faults = 0 =>
    /\ phase = "off" => Tidy \/ Due
    /\ phase = "os" => Tidy /\ config = eeprom.cfg
    /\ phase = "firmware" /\ pc = "idle" =>
         IF mPublished THEN Tidy /\ config = eeprom.cfg ELSE Tidy \/ marker = eeprom.cfg
    /\ pc \in {"sig", "sigWriting", "record"} => upd = staging.image
    /\ pc = "record" => sig = [of |-> upd, ts |-> upd.ts]
    /\ pc \in {"cleanup", "deleteUpd"} => marker = eeprom.cfg
    /\ pc \in {"deleteSig", "clearMarker"} => upd = NoFile
    /\ pc = "clearMarker" => sig = NoFile
    /\ pc \in {"gate", "config", "timestamp"} => Tidy

\* A staged update takes effect: it is flashed unless something failed.
StagedTakesEffect ==
  \A image \in Images :
    (pc = "record" /\ staging.image = image) ~> (eeprom = image \/ faults > 0)

\* No update is flashed over and over: the machine reaches an OS.
AlwaysBoots == []<>(phase = "os")
=============================================================================
