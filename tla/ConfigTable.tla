------------------------------ MODULE ConfigTable ------------------------------
(***************************************************************************)
(* RpiPlatformDxe from its entry point to the hand-over: what the stored   *)
(* settings mean, the memory given back at ReadyToBoot, the ACPI tables,   *)
(* and their last fixups inside ExitBootServices (ConfigTable.c,           *)
(* RpiPlatformDxe.c, Peripherals.c).                                       *)
(***************************************************************************)
EXTENDS PcieBridge

CONSTANTS MemorySizes,   \* of the boards
          Preferred,     \* stored ACPI 32 bit BAR spaces
          Lengths,       \* bound: lengths of bridge windows
          MaxExits,      \* bound: calls of ExitBootServices that fail
          MaxFaults      \* bound: tables missing and updates that fail

ASSUME ConfigAssumption ==
  /\ MemorySizes \subseteq Nat /\ Preferred \subseteq Nat
  /\ Lengths \subseteq 1 .. Mem32Size /\ MaxExits \in Nat /\ MaxFaults \in Nat

VARIABLES
  phase,    \* "start", "dxe", "bds", "loader", "os"
  stored,   \* the variables; 0 is one that is absent
  setting,  \* what the driver made of them
  memory,   \* mSystemMemorySize
  opened,   \* the bridge windows decoded, a set of <<first, last>>
  rp1,      \* the RP1 bus driver has published its protocol
  event,    \* the ReadyToBoot event is open
  pciMem,   \* mAcpiPciMem32Base, mAcpiPciMem32Size
  ram,      \* <<base, size>> given to the memory map, or <<0, 0>>
  sdt,      \* what InstallAcpiTables located
  acpi,     \* the tables that are found by their signature
  aml,      \* the integers of the DSDT
  oem,      \* the OEM in FADT or MCFG
  stale,    \* the tables whose sum is not that of their bytes
  hook,     \* gBS->ExitBootServices is AcpiExitBootServicesHook
  os,       \* what the loader boots
  exits,    \* history: ExitBootServices calls that failed
  failed,   \* history: the tables that were missing and the updates that failed
  fixed     \* history: what the loader booted that the hook made the fixups for

acpiVars  == <<acpi, aml, oem, stale, failed>>
tableVars == <<phase, stored, setting, memory, opened, rp1, event, pciMem, ram, sdt, acpiVars, hook, os, exits, fixed>>
platformVars == <<pcieVars, tableVars>>

-----------------------------------------------------------------------------
\* ACPI_PCIE_ECAM_COMPAT_MODE_*: a set of what may be used.
Modes    == {{"DEN0115"}, {"NXPMX6"}, {"GRAVITON"}, {"NXPMX6", "DEN0115"}, {"NXPMX6", "GRAVITON"}}
EcamDefault == {"NXPMX6", "DEN0115"}
BUS_MAX  == 255
Tables   == {"DSDT", "FADT", "MCFG"}
\* What InstallAcpiTables patches in the DSDT; PBMA is left to the hook.
Objects  == {"PCI0", "PCI1", "PCI2", "SDCM", "SDLU", "PBAR", "BB32", "MS32"}
PATCH    == -1          \* not patched
RP1_BASE == 1           \* GetPeripheralBase
SD_MODE  == 1           \* the SD settings, which are passed through
FourGB   == Mem32Base + Mem32Size
IsAcpi   == setting.mode \in {"ACPI", "BOTH"}
Enabled  == [s \in Segs |-> s = 2 \/ (s = 1 /\ setting.pcie1)]

TableInit ==
  /\ PcieInit
  /\ phase = "start"
  /\ stored \in [mode : {"ACPI", "FDT", "BOTH"}, prefer : Preferred \cup {0}, ecam : Modes \cup {{}},
                 pcie1 : {"on", "off", "absent"}]
  /\ setting = [mode |-> "FDT", prefer |-> 0, ecam |-> {}, pcie1 |-> FALSE]
  /\ memory \in MemorySizes
  /\ opened = {} /\ rp1 = FALSE /\ event = FALSE
  /\ pciMem = <<0, 0>> /\ ram = <<0, 0>>
  /\ sdt = "none" /\ acpi = {} /\ aml = [o \in Objects \cup {"PBMA"} |-> PATCH] /\ oem = "RPI" /\ stale = {}
  /\ hook = FALSE /\ os = "none" /\ exits = 0 /\ failed = {} /\ fixed = "none"

\* RpiPlatformDxeEntryPoint: SetupConfigTableVariables, ApplyConfigTableVariables,
\* SetupPeripheralVariables.  A variable that is absent is created with the
\* default, which is on for PCIe 1 and no minimum for the BAR space.
RpiPlatformDxeEntryPoint ==
  LET v == [mode |-> stored.mode, prefer |-> stored.prefer,
            ecam |-> IF stored.ecam = {} THEN EcamDefault ELSE stored.ecam,
            pcie1 |-> stored.pcie1 # "off"]
  IN /\ phase = "start"
     /\ setting' = v
     /\ stored' = [v EXCEPT !.pcie1 = IF v.pcie1 THEN "on" ELSE "off"]
     /\ event' = TRUE
     /\ hook' = (v.mode \in {"ACPI", "BOTH"})
     /\ phase' = "dxe"
     /\ UNCHANGED <<pcieVars, memory, opened, rp1, pciMem, ram, sdt, acpiVars, os, exits, fixed>>

GetRootBridges ==
  /\ phase = "dxe"
  /\ PciHostBridgeGetRootBridges(Enabled)
  /\ UNCHANGED tableVars

\* PciBusDxe opens a window, from the first address on, in each root port that
\* has a device with 32 bit BARs, and one inside it in a bridge behind it.
Enumerate ==
  /\ phase = "dxe" /\ seg = 4
  /\ \E ports \in SUBSET {b.segment : b \in published} : \E len \in [ports -> Lengths], sub \in BOOLEAN :
       /\ \A p \in ports : rcs[p].link
       /\ opened' = UNION {{<<Mem32Base, Mem32Base + len[p] - 1>>}
                             \cup (IF sub THEN {<<Mem32Base + len[p] \div 2, Mem32Base + len[p] - 1>>} ELSE {}) : p \in ports}
       /\ rp1' \in {FALSE, 2 \in ports}
  /\ phase' = "bds"
  /\ UNCHANGED <<pcieVars, stored, setting, memory, event, pciMem, ram, sdt, acpiVars, hook, os, exits, fixed>>

-----------------------------------------------------------------------------
(* ReadyToBoot.                                                            *)

\* From the lowest base to the highest limit of the bridges' windows; a limit
\* is its last megabyte.  A closed window has the highest base and no limit.
GetPciMem32TotalRange ==
  LET first == CHOOSE w \in opened : \A x \in opened : w[1] <= x[1]
      last  == CHOOSE w \in opened : \A x \in opened : x[2] <= w[2]
  IN IF opened = {} THEN <<Mem32Base, 0>> ELSE <<first[1], (last[2] + 1 - first[1]) % FourGB>>

\* Mutant: the memory is taken back from the end of the space wanted, without
\* the windows.
ReclaimFromPreferred(range, size) == range[1] + setting.prefer
\* Where the memory that is given back starts.
ReclaimFrom(range, size) == range[1] + size

\* What is told to an ACPI OS, and the memory given back.
AdjustPciReservedMemory ==
  LET range == GetPciMem32TotalRange
      odd   == range[1] < Mem32Base \/ range[2] > Mem32Size
      size  == IF setting.prefer <= Mem32Size /\ range[2] < setting.prefer THEN setting.prefer ELSE range[2]
      all   == <<Mem32Base, Mem32Size>>
      start == ReclaimFrom(range, size)
      give  == IF ~IsAcpi \/ odd \/ size = 0 THEN all ELSE <<start, FourGB - start>>
  IN /\ pciMem' = IF IsAcpi /\ ~odd THEN <<range[1], size>> ELSE <<Mem32Base, 0>>
     /\ ram' = IF memory > Mem32Base /\ give[2] > 0 THEN give ELSE <<0, 0>>

\* DsdtFixupStatus, DsdtFixupSd, DsdtFixupRp1 and DsdtFixupPcie: PCI1 is hidden
\* where it is off, and PBAR is found by way of RP1's protocol.
Attempted == Objects \ ((IF setting.pcie1 THEN {"PCI1"} ELSE {}) \cup (IF rp1 THEN {} ELSE {"PBAR"}))
Wanted(o, range) == CASE o \in {"PCI0", "PCI1", "PCI2"} -> 0
                      [] o \in {"SDCM", "SDLU"}         -> SD_MODE
                      [] o = "PBAR" -> RP1_BASE
                      [] o = "BB32" -> range[1]
                      [] o = "MS32" -> range[2]

\* LocateProtocol, the tables in the volume, the DSDT and its handle: where it
\* stops the rest is left out (tables that were put up before the volume gave an
\* error are never looked at again).  A table may not be there, and an update that
\* fails is logged and passed over.  Nothing here sums the DSDT again.
InstallAcpiTables(stop) ==
  /\ sdt' = stop
  /\ \E missing \in SUBSET Tables, bad \in SUBSET Attempted :
       /\ Cardinality(missing \cup bad) <= MaxFaults
       /\ stop \in {"no protocol", "no tables"} => missing = {}
       /\ stop = "no DSDT" <=> "DSDT" \in missing
       /\ stop # "done" => bad = {}
       /\ failed' = missing \cup bad
       /\ acpi' = IF stop \in {"no protocol", "no tables"} THEN {} ELSE Tables \ missing
       /\ aml' = [o \in DOMAIN aml |-> IF stop = "done" /\ o \in Attempted \ bad THEN Wanted(o, pciMem') ELSE aml[o]]
       /\ stale' = IF stop = "done" THEN {"DSDT"} ELSE {}
  /\ UNCHANGED oem

\* The event is closed first: the handler runs once, however often BDS signals
\* ReadyToBoot.
OnReadyToBoot ==
  /\ phase = "bds" /\ event
  /\ event' = FALSE
  /\ AdjustPciReservedMemory
  /\ IF IsAcpi THEN \E stop \in {"no protocol", "no tables", "no DSDT", "not opened", "done"} : InstallAcpiTables(stop)
     ELSE UNCHANGED <<sdt, acpiVars>>
  /\ UNCHANGED <<pcieVars, phase, stored, setting, memory, opened, rp1, hook, os, exits, fixed>>

\* BDS signals ReadyToBoot, then loads a boot option; one that gives up returns,
\* also when its ExitBootServices has failed.
LoadOption ==
  /\ phase = "bds" /\ ~event
  /\ phase' = "loader"
  /\ os' \in {"windows", "other"}
  /\ UNCHANGED <<pcieVars, stored, setting, memory, opened, rp1, event, pciMem, ram, sdt, acpiVars, hook, exits, fixed>>
LoaderReturns ==
  /\ phase = "loader"
  /\ phase' = "bds"
  /\ UNCHANGED <<pcieVars, stored, setting, memory, opened, rp1, event, pciMem, ram, sdt, acpiVars, hook, os, exits, fixed>>

-----------------------------------------------------------------------------
(* ExitBootServices.                                                       *)

\* How configuration space is described: which of the modes, for this OS.
EcamMode(windows) ==
  LET m == setting.ecam
  IN IF Cardinality(m) = 1 THEN m ELSE IF windows THEN {"NXPMX6"} ELSE m \ {"NXPMX6"}

\* MCFG has to be found, and FADT where its OEM tells the way.
EcamFound(mode) == "MCFG" \in acpi /\ (mode = {"NXPMX6"} => "FADT" \in acpi)
\* Where the way is told.
EcamTable(mode) == IF mode = {"NXPMX6"} THEN "FADT" ELSE "MCFG"

\* Only the single function of bus 0 is reachable in the way of two of them;
\* for the other MCFG loses its signature.  Whether PBMA could be patched is
\* not looked at.
AcpiFixupPcieEcam(mode, patched) ==
  \/ /\ ~EcamFound(mode)
     /\ UNCHANGED <<acpi, aml, oem, failed>>
  \/ /\ EcamFound(mode)
     /\ oem'  = IF mode = {"NXPMX6"} THEN "NXPMX6" ELSE IF mode = {"GRAVITON"} THEN "AMAZON" ELSE oem
     /\ acpi' = IF mode = {"DEN0115"} THEN acpi \ {"MCFG"} ELSE acpi
     /\ aml'  = IF patched THEN [aml EXCEPT !["PBMA"] = IF mode = {"DEN0115"} THEN BUS_MAX ELSE 0] ELSE aml
     /\ failed' = IF patched THEN failed ELSE failed \cup {"PBMA"}

\* Mutant: the sum of the DSDT is left as it was.
ResummedOnlyEcam(mode) == IF EcamFound(mode) THEN {EcamTable(mode), "MCFG"} ELSE {}
\* The tables summed again: the DSDT also when the fixup gave up.
Resummed(mode) == {"DSDT"} \cup (IF EcamFound(mode) THEN {EcamTable(mode), "MCFG"} ELSE {})

\* Nothing is done without the protocol and a DSDT.
AcpiOsBootHandler(windows) ==
  \/ /\ sdt \notin {"not opened", "done"}
     /\ UNCHANGED acpiVars
  \/ /\ sdt \in {"not opened", "done"}
     /\ \E patched \in BOOLEAN :
          /\ patched \/ Cardinality(failed) < MaxFaults
          /\ AcpiFixupPcieEcam(EcamMode(windows), patched)
     /\ LET mode == EcamMode(windows)
            edited == IF EcamFound(mode) THEN {EcamTable(mode), "DSDT"} ELSE {}
        IN stale' = (stale \cup edited) \ Resummed(mode)

\* The hook takes itself out, makes the fixups for the caller, and calls the
\* original, which fails when the memory map has changed.  The loader calls
\* again, or gives up; the next one finds no hook.
AcpiExitBootServicesHook ==
  /\ phase = "loader"
  /\ \/ hook /\ AcpiOsBootHandler(os = "windows") /\ fixed' = os
     \/ ~hook /\ UNCHANGED <<acpiVars, fixed>>
  /\ hook' = FALSE
  /\ \/ phase' = "os" /\ exits' = exits
     \/ exits < MaxExits /\ exits' = exits + 1 /\ phase' = phase
  /\ UNCHANGED <<pcieVars, stored, setting, memory, opened, rp1, event, pciMem, ram, sdt, os>>

TableNext ==
  \/ RpiPlatformDxeEntryPoint \/ GetRootBridges \/ Enumerate
  \/ OnReadyToBoot \/ LoadOption \/ LoaderReturns \/ AcpiExitBootServicesHook
TableSpec == TableInit /\ [][TableNext]_platformVars

-----------------------------------------------------------------------------
(* Properties.                                                             *)

Apart(x, y) == x[2] < y[1] \/ y[2] < x[1]
Extent(r)   == <<r[1], r[1] + r[2] - 1>>

\* Memory given back for an ACPI boot is below 4 GB, and none of it is behind a
\* window of a bridge, where no DMA gets through, nor in the space an OS is
\* told it may place BARs in; and that space holds every window.
ApertureNotMemory ==
  /\ ram[2] > 0 => ram[1] >= Mem32Base /\ ram[1] + ram[2] <= FourGB
  /\ ~event /\ phase \in {"bds", "loader", "os"} /\ IsAcpi =>
       /\ ram[2] > 0 => \A w \in opened : Apart(Extent(ram), w)
       /\ ram[2] > 0 /\ pciMem[2] > 0 => Apart(Extent(ram), Extent(pciMem))
       /\ \A w \in opened : pciMem[1] <= w[1] /\ w[2] < pciMem[1] + pciMem[2]

\* There is never more than one way to configuration space: with MCFG visible
\* the DSDT has bus 0 alone.  Unless a table was missing or PBMA not patched
\* there is exactly one, of those the setting allows, and the one Windows knows
\* if a loader of Windows was the first to call ExitBootServices.
OneWay ==
  /\ "MCFG" \in acpi => aml["PBMA"] # BUS_MAX
  /\ failed \cap {"MCFG", "PBMA"} = {} =>
       /\ "MCFG" \in acpi <=> aml["PBMA"] # BUS_MAX
       /\ aml["PBMA"] = BUS_MAX <=> "DEN0115" \in setting.ecam /\ ~(fixed = "windows" /\ "NXPMX6" \in setting.ecam)
  /\ fixed = "windows" /\ "NXPMX6" \in setting.ecam /\ failed \cap {"MCFG", "FADT"} = {} => oem = "NXPMX6"

\* An OS that was given ACPI tables finds their sums right, whatever was edited
\* before an error; the BAR space, the host bridges that are on and RP1's
\* address in every object whose update did not fail; and one way to
\* configuration space, the one for the loader that called ExitBootServices
\* first, which is its own unless a call failed.
TablesWhole ==
  phase = "os" /\ IsAcpi /\ sdt = "done" =>
    /\ stale = {}
    /\ \A o \in Attempted \ failed : aml[o] = Wanted(o, pciMem)
    /\ \A o \in Objects \ Attempted : aml[o] = PATCH
    /\ OneWay
    /\ fixed # "none" /\ (exits = 0 => fixed = os)

\* What makes them inductive.  The windows are in the space reserved for them.
Kinds == {"ACPI", "FDT", "BOTH"}
TableTypes ==
  /\ phase \in {"start", "dxe", "bds", "loader", "os"} /\ exits \in Nat
  /\ stored \in [mode : Kinds, prefer : Nat, ecam : Modes \cup {{}}, pcie1 : {"on", "off", "absent"}]
  /\ setting \in [mode : Kinds, prefer : Nat, ecam : Modes \cup {{}}, pcie1 : BOOLEAN]
  /\ event \in BOOLEAN /\ rp1 \in BOOLEAN /\ hook \in BOOLEAN
  /\ acpi \subseteq Tables /\ stale \subseteq Tables /\ oem \in {"RPI", "NXPMX6", "AMAZON"}
  /\ aml \in [Objects \cup {"PBMA"} -> Int]
  /\ pciMem \in Int \X Int /\ ram \in Int \X Int
  /\ os \in {"none", "windows", "other"} /\ fixed \in {"none", "windows", "other"}
WindowsInside ==
  \A w \in opened : w \in Nat \X Nat /\ Mem32Base <= w[1] /\ w[1] <= w[2] /\ w[2] < FourGB
\* ReadyToBoot comes after enumeration, once; the fixups come after it, once.
InOrder ==
  /\ phase = "start" => ~event
  /\ phase = "dxe" => event
  /\ phase \in {"loader", "os"} => ~event /\ os # "none"
  /\ event \/ phase = "start" => ram = <<0, 0>> /\ sdt = "none" /\ exits = 0 /\ fixed = "none"
  /\ phase # "start" => setting.ecam \in Modes
  /\ phase # "start" => (hook <=> IsAcpi /\ fixed = "none" /\ phase # "os" /\ exits = 0)
  /\ phase # "os" /\ exits = 0 => fixed = "none"
  /\ (phase = "os" \/ exits > 0) /\ IsAcpi => fixed # "none"
  /\ phase = "os" /\ IsAcpi /\ exits = 0 => fixed = os
Described ==
  /\ sdt = "done" => \A o \in Objects : aml[o] = IF o \in Attempted \ failed THEN Wanted(o, pciMem) ELSE PATCH
  /\ sdt # "done" => \A o \in Objects : aml[o] = PATCH
  /\ fixed = "none" => aml["PBMA"] = PATCH /\ "PBMA" \notin failed
  /\ fixed = "none" /\ sdt = "done" => acpi = Tables \ failed /\ stale \subseteq {"DSDT"}
  /\ fixed # "none" /\ sdt = "done" => stale = {} /\ OneWay
TableInv == BridgesInStep /\ TableTypes /\ WindowsInside /\ InOrder /\ ApertureNotMemory /\ Described
=============================================================================
