---------------------------- MODULE FirmwareUpdate ----------------------------
(***************************************************************************)
(* The firmware image on the card, replaced in place by an update capsule  *)
(* (Rpi5FmpDeviceLib.c) while its tail is the variable store that          *)
(* VarBlockServiceDxe dumps (patch 0013), the power button is polled       *)
(* (PowerButton), calls fail and power goes.  A file is its head, the part *)
(* a capsule replaces, and its tail.                                       *)
(***************************************************************************)
EXTENDS PowerButton

CONSTANTS Volumes,     \* the number of volumes, in the order of their handles
          Boards,      \* devicetrees and cards: [tree, card, readOnly]
          Versions,    \* of images
          MaxDumps,    \* bound: dumps of the variable store
          MaxFaults    \* bound: file calls that fail

VARIABLES
  readOnly,  \* the volumes that are write protected
  disk,      \* the files, by <<volume, name>>
  store,     \* the file VarBlockServiceDxe latched
  pc,        \* of FmpDeviceSetImageWithStatus
  payload,   \* the image it was given
  file,      \* the file it has open
  status,    \* LastAttemptStatus
  dumps,     \* dumps so far
  faults,    \* calls that failed
  good       \* history: the file and the version of a success nobody wrote over

fmpVars == <<readOnly, disk, store, pc, payload, file, status, dumps, faults, good>>
vars == <<buttonVars, board, fmpVars>>

-----------------------------------------------------------------------------
Names    == 1 .. 2                       \* mFirmwareFileNames
Files    == (1 .. Volumes) \X Names
NoFile   == <<0, 0>>

ASSUME FmpAssumption ==
  /\ Volumes \in Nat /\ "absent" \notin Versions
  /\ \A b \in Boards : b.card \in [Files -> {"ours", "foreign", "absent"}]

\* A file is absent, somebody else's boot stub, or this firmware.
Content(kind) == CASE kind = "ours"    -> [ours |-> TRUE, head |-> "v0", tail |-> 0]
                   [] kind = "foreign" -> [ours |-> FALSE, head |-> "stub", tail |-> -1]
                   [] kind = "absent"  -> [ours |-> FALSE, head |-> "absent", tail |-> -1]

\* There is the header of a variable store where the tail begins.
Rpi5FmpCheckFirmwareFile(f) == disk[f].ours

\* The first volume that can be used so, the first name on it that is ours.
Usable(write) ==
  {f \in Files : /\ disk[f].head # "absent" /\ (write => f[1] \notin readOnly)
                 /\ Rpi5FmpCheckFirmwareFile(f)}
FirstOf(files) ==
  IF files = {} THEN NoFile
  ELSE CHOOSE f \in files : \A g \in files : f[1] < g[1] \/ (f[1] = g[1] /\ f[2] <= g[2])
Rpi5FmpOpenFirmwareFile(write) == FirstOf(Usable(write))

\* Payloads: too short, the head alone, an image with a bit more than the head,
\* a whole image, one of another layout.
Payloads == [version : Versions, shape : {"short", "head", "stump", "whole", "other"}]
Rpi5FmpValidatePayload(p) == p.shape \in {"head", "whole"}
NoPayload == [version |-> "v0", shape |-> "short"]

\* CheckStore: VarBlockServiceDxe looks for the same names in the same way.
CheckStore == Rpi5FmpOpenFirmwareFile(TRUE)

Init ==
  /\ \E b \in Boards :
       /\ ButtonInit(b.tree)
       /\ readOnly = b.readOnly
       /\ disk = [f \in Files |-> Content(b.card[f])]
  /\ store = CheckStore
  /\ pc = "idle" /\ payload = NoPayload /\ file = NoFile /\ status = "none"
  /\ dumps = 0 /\ faults = 0 /\ good = <<NoFile, "v0">>

-----------------------------------------------------------------------------
(* FmpDeviceSetImageWithStatus, a step per call of the file system.        *)

Fault == faults < MaxFaults /\ faults' = faults + 1
Quiet == UNCHANGED <<buttonVars, board>>

\* The payload is looked at, then the file opened.
SetImage ==
  /\ board = "up" /\ pc = "idle"
  /\ \E p \in Payloads :
       LET f == Rpi5FmpOpenFirmwareFile(TRUE)
       IN IF ~Rpi5FmpValidatePayload(p)
          THEN pc' = "idle" /\ status' = "format" /\ UNCHANGED <<payload, file>>
          ELSE IF f = NoFile
          THEN pc' = "idle" /\ status' = "failed" /\ UNCHANGED <<payload, file>>
          ELSE pc' = "opened" /\ status' = "failed" /\ payload' = p /\ file' = f
  /\ Quiet /\ UNCHANGED <<readOnly, disk, store, dumps, faults, good>>

\* File->Write (of the head, whatever the size of the payload): from now on
\* the file may be torn.
WriteBegin ==
  /\ board = "up" /\ pc = "opened"
  /\ \E h \in {disk[file].head, "torn"} : disk' = [disk EXCEPT ![file].head = h]
  /\ good' = IF good[1] = file THEN <<NoFile, "v0">> ELSE good
  /\ pc' = "writing"
  /\ Quiet /\ UNCHANGED <<readOnly, store, payload, file, status, dumps, faults>>
\* The write returns; what is still in the FAT driver's cache is not on the card.
WriteEnd ==
  /\ board = "up" /\ pc = "writing"
  /\ \E h \in {disk[file].head, "torn", payload.version} : disk' = [disk EXCEPT ![file].head = h]
  /\ \/ pc' = "written" /\ UNCHANGED faults
     \/ Fault /\ pc' = "close"      \* an error, or less than asked for
  /\ Quiet /\ UNCHANGED <<readOnly, store, payload, file, status, dumps, good>>

\* Mutant: success without a flush.
FlushedNot == disk[file].head
\* What Flush leaves on the card.
Flushed == payload.version
Flush ==
  /\ board = "up" /\ pc = "written"
  /\ \/ disk' = [disk EXCEPT ![file].head = Flushed] /\ pc' = "done" /\ UNCHANGED faults
     \/ Fault /\ pc' = "close" /\ UNCHANGED disk
  /\ Quiet /\ UNCHANGED <<readOnly, store, payload, file, status, dumps, good>>
\* SetPosition may fail too; nothing was written.
SeekFails ==
  /\ board = "up" /\ pc = "opened" /\ Fault
  /\ pc' = "close"
  /\ Quiet /\ UNCHANGED <<readOnly, disk, store, payload, file, status, dumps, good>>

Close ==
  /\ board = "up" /\ pc \in {"done", "close"}
  /\ status' = IF pc = "done" THEN "success" ELSE status
  /\ good' = IF pc = "done" THEN <<file, payload.version>> ELSE good
  /\ pc' = "idle" /\ file' = NoFile /\ payload' = NoPayload
  /\ Quiet /\ UNCHANGED <<readOnly, disk, store, dumps, faults>>

-----------------------------------------------------------------------------
(* The rest of the board.                                                  *)

\* DumpVars: the tail, and nothing else, of the file that was latched.  A file
\* call is not interrupted: the FAT driver holds its lock at TPL_CALLBACK.
DumpVars ==
  /\ board = "up" /\ pc # "writing" /\ store # NoFile /\ dumps < MaxDumps
  /\ dumps' = dumps + 1
  /\ disk' = [disk EXCEPT ![store].tail = dumps']
  /\ Quiet /\ UNCHANGED <<readOnly, store, pc, payload, file, status, faults, good>>

Button ==
  /\ \/ NoButton \/ ArmEdge \/ ClearStat \/ StartTimer \/ Press \/ Release
  /\ UNCHANGED fmpVars
Poll == PowerButtonPoll(pc = "writing") /\ UNCHANGED fmpVars
PowerCut ==
  /\ board = "up"
  /\ board' = "dark"
  /\ UNCHANGED <<buttonVars, fmpVars>>
\* Power on, or the reset: what was in memory is gone.
Restart ==
  /\ board # "up"
  /\ board' = "up"
  /\ pc' = "idle" /\ file' = NoFile /\ payload' = NoPayload /\ status' = "none"
  /\ store' = CheckStore
  /\ step' = "find" /\ button' = None /\ pressed' = FALSE
  /\ UNCHANGED <<dt, pin, stat, mask, rising, readOnly, disk, dumps, faults, good>>

Next ==
  \/ SetImage \/ WriteBegin \/ WriteEnd \/ Flush \/ SeekFails \/ Close
  \/ DumpVars \/ Button \/ Poll \/ PowerCut \/ Restart
\* A timer event that fell due inside a file call is served when the call
\* lowers the task priority again.
Fairness == SF_vars(Poll) /\ WF_vars(WriteEnd)
Spec == Init /\ [][Next]_vars /\ Fairness

-----------------------------------------------------------------------------
(* Properties.                                                             *)

\* Whatever is updated, dumped, cut or reset, in any order: an update that was
\* reported as a success is on the card and stays there until the next one
\* writes the file; a dump outlives every update; and another's boot stub of the same
\* name is never touched.
CardIsWhole ==
  /\ good[1] # NoFile => disk[good[1]].head = good[2]
  /\ \A f \in Files : ~disk[f].ours => disk[f].head \in {"stub", "absent"} /\ disk[f].tail = -1
  /\ store # NoFile /\ dumps > 0 => disk[store].tail = dumps

\* What makes it inductive: no step makes or unmakes a firmware file, so every
\* boot finds the same one, which is the one that is written and dumped to;
\* and a success is forgotten before its file is written again.
Heads == Versions \cup {"v0", "torn", "stub", "absent"}
TypeOK ==
  /\ disk \in [Files -> [ours : BOOLEAN, head : Heads, tail : Int]]
  /\ pc \in {"idle", "opened", "writing", "written", "done", "close"}
  /\ payload.version \in Versions \cup {"v0"}
  /\ file \in Files \cup {NoFile} /\ store \in Files \cup {NoFile}
  /\ dumps \in Nat
  /\ good \in (Files \cup {NoFile}) \X (Versions \cup {"v0"})
OursStay == \A f \in Files : disk[f].ours => disk[f].head # "absent"
SameFile ==
  /\ store = CheckStore
  /\ pc # "idle" => file = store /\ file # NoFile
SuccessForgotten ==
  /\ pc \in {"opened", "writing", "written", "done"} => payload.version \in Versions
  /\ pc \in {"writing", "written", "done"} => good[1] # file
  /\ pc = "done" => disk[file].head = payload.version
IInv == TypeOK /\ OursStay /\ SameFile /\ SuccessForgotten /\ CardIsWhole

\* The devicetrees name the line of the button.
TreesHold == \A b \in Boards : TreeHolds(b.tree)
ButtonInv == TreeHolds(dt) /\ EdgeIsPress /\ ResetMeansPress
=============================================================================
