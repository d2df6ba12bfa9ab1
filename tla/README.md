# TLA+ development for the Raspberry Pi 5 UEFI build

The repository is a Yocto layer that builds EDK2 firmware for the Raspberry
Pi 5.  Its own code is the set of UEFI drivers and libraries under
`src/meta-rpi5-uefi/recipes-bsp/edk2-platforms/files/edk2-platforms` (about
20,000 lines of C) and the patches beside it.  This directory holds TLA+ models
of the parts of that code whose correctness depends on the order of events, the
TLC configurations that check them on small instances, and TLAPS proofs for
every value of the constants.

Paths below are relative to the `edk2-platforms` directory above.

## 1. Inventory

### Execution model

UEFI runs on one CPU.  What interleaves is: code at `TPL_APPLICATION` (the boot
manager, loaders, Setup), timer and notify callbacks at `TPL_CALLBACK` (which
preempt it but not each other), hardware DMA engines, the next boot of the same
machine (NV variables, files and EEPROM survive), and the outside: the BMC's
operator, the VPU bootloader, the operating system, the power switch.

Further boot-time code that keeps no state of interest (memory map, board
identification, theme, Secure Boot page, ACPI data, build recipes) is listed
with its reason in `PROJECT.json`.

| component | state | operations | interacts with | what is hard | what makes it correct |
|---|---|---|---|---|---|
| `Rp1GemDxe` rings (`GemHw.c`) | descriptor rings, bounce buffers, `TxProd`, `TxCons`, `RxHead`, `TxUserBuffer` | init, transmit, recycle, receive | the MAC's DMA engine, MNP through SNP | the DMA engine runs at any time; counters wrap; a ring is full or empty | no shared or lost buffer, no access to what the engine owns, FIFO order, nothing stuck |
| `Rp1GemDxe` SNP (`Snp.c`, `Phy.c`) | `SnpMode.State`, `LinkUp`, `MediaPresent`, MAC speed, filters, MDIO | the 13 SNP calls, exit-boot handler | MNP at `TPL_CALLBACK`, applications | `Transmit` polls the link without the lock, so an MDIO transaction of `GetStatus` can run in the middle of it | the lock, the state machine, speed of MAC = speed of PHY |
| `Rp1GemDxe` binding (`DriverBinding.c`) | protocols installed, DMA memory, exit event | Supported, Start, Stop | DXE core | every step of Start can fail; Stop may be refused | everything undone in reverse, nothing leaked |
| `RpiRedfishSyncDxe` override | NV `BootNext`, NV mark, latches | one exchange a boot, ReadyToBoot notify | BMC over HTTP, BDS, `PlatformBm.c` hold | lost answers, power cuts, a late exchange | one-shot stays one-shot, no endless reset, a running loader is left alone |
| `RpiRedfishSyncDxe` reports | none | inventory, thermal, firmware PATCHes | BMC, SMBIOS | wording and layout of JSON | (not a behavioural question) |
| `ActiveCoolerDxe` | commanded level, override, policy | tick, override, exit | sensor, Setup, BMC, OS | policy and override change under the loop | cools enough, no chatter, airflow for the OS |
| `FanConfigDxe` | `FanPolicy` variable | HII page | `ActiveCoolerDxe` | none (the variable may hold anything: the loop's problem) | - |
| `BootloaderConfigDxe` staging | `.upd`, `.sig`, NV marker, NV config and timestamp | Setup's StageUpdate, ReadyToBoot follow-up | VPU self-update, FAT volume, BMC | power cuts, half-written pairs, no clock | EEPROM never set back, no reflash loop, published values are true |
| `BootloaderConfigDxe` image editing (`EepromImage.c`, `BlcfgValues.c`) | the 2 MiB image, the configuration text | walk, find, replace, set timestamp; read and rebuild the text | StageUpdate | lengths and alignment at section ends, two partitions, duplicate and oddly spelt lines | the other sections are untouched, the text says what was asked, digest and timestamp in step |
| `Bcm2712SpiFlash.c` | SPI registers, pin mux | read the flash | StageUpdate | restoring the mux on every path | pins and CS as found |
| `Rpi5FmpDeviceLib` | `RPI_EFI.FD` on the boot volume | find, check, set image | capsule dispatcher, the variable store in the tail of the same file, the reset button | the only copy is overwritten in place; write and flush are two calls | only valid payloads are written, a success is on the card |
| `PowerButtonDxe` | edge latch, trigger latch | poll timer | devicetree, GPIO, reset | an edge latched before, a press shorter than the poll | a reset means a press, a press means a reset |
| `Rp1BusDxe` | child devices, interrupts, exit event | Start, Stop | PCI I/O, drivers on the children | failure half way through, a child that does not let go | no device outlives its bus |
| `RpiRtcLib` | RTC in the VPU | get and set time and alarm | mailbox | range of the 32-bit epoch | round trip |
| `RpiPlatformDxe` | ACPI/DT mode, tables, memory given back | entry, ReadyToBoot, ExitBootServices hook, Setup pages | PCI bridges, memory map, ACPI, loaders | memory behind a PCI window; ExitBootServices called again; a loader that returns | no memory behind a window, tables whole and summed |
| PCIe libraries | root complex windows, one configuration window per segment | link bring-up, configuration access | PciBusDxe, handlers | index and data are two accesses; addresses split over packed registers | the window is invisible, bridges and hardware agree |
| GPIO libraries | pin registers of two chips | function, pull, level, direction | drivers | tables of registers and bits | a call changes its pin only |
| SDHCI | none between calls | start, capability override | SD stack | - | - |
| bulk-IN pump of DwUsbHostDxe (patch 0035) | one channel, parked transfer, data toggle | arm, harvest, serve, stand down | USB class drivers, DWC2 channel | the periodic handler and the poller share one transfer; four copies of the toggle | each transfer once and in order, none lost |
| patches to EDK2 | Redfish quiesce, boot option enumeration | - | - | quiesce must run before the loader | - |

### How the modelled components meet

* `GemBinding` allocates the descriptor area that `GemTx` and `GemRx` work on
  and installs the protocol whose state machine is `GemSnp`.  The three share
  `SnpMode.State`; each ring model keeps only the calls that touch its ring
  (`Initialize`, `Shutdown`, `Transmit`/`GetStatus`, `Receive`).
* `BootOverride` and the PlatformBm hold meet in the settled signal
  (`mSettled`) and in `BootNext`.
* `ActiveCooler` receives its override from the same sync driver
  (`PollFanOverride`), at the same TPL, so the two never interleave.
* `Rp1Tree` composes `GemBinding` with the bus driver whose device it runs on;
  one Stop runs inside the other.
* `FirmwareUpdate` composes the update of the firmware file with the variable
  store in that file's tail and with `PowerButton`, whose poll resets the
  machine in the middle of it.
* `ConfigTable` extends `PcieBridge`: the windows the root complexes are given
  decide which memory may be given back.
* `EepromStage` takes `PatchImage` as an exact edit of settings and timestamp;
  `EepromImage` and `BlcfgValues` are that edit, and `ImageEdits` and
  `ConfigTexts` justify it.
* `EepromStage` and the Redfish side meet only in two NV variables: what
  `BootloaderConfigDxe` publishes is what the BMC reads.

### Hazards

`PROJECT.json` lists them at their lines, each with the properties that would
catch it, or with the reason why none does yet.  The main groups are: a DMA
engine against driver code (rings), an application-level call preempted by a
callback that shares MDIO and `NET_CFG` (SNP), a power cut or a lost answer
between two writes that belong together (override, EEPROM staging and
publication, firmware update), a policy or override that changes under a control
loop (fan), a step that fails half way through an acquisition (binding, bus),
a handler inside a two-step access (PCI configuration window, USB pump), and
lengths, packed fields and tables (EEPROM image, windows, pins).

## 2. Modules

Names of actions and variables are those of the C code wherever TLA+ allows
it.  `PROJECT.json` maps each definition to its lines.  A definition whose
comment begins with "Mutant" is a plausible bug beside the definition it
replaces; no specification uses it.

### `GemTx`, `GemTxFifo`, `GemTxProofs`: transmission

`GemHw.c` keeps a ring of 8 descriptors, each with a bounce buffer, two
free-running 16-bit counters `TxProd` and `TxCons`, and `TxUserBuffer`, the
client's buffer of each slot.  `Snp.c` runs the ring code under a TPL lock, so
two driver calls never interleave; the MAC's DMA engine does at every memory
access.  `GemTransmitFrame` is therefore four actions (`TransmitCopy`,
`TransmitPublish`, `TransmitBook`, `TransmitKick`), one per access the engine
can see the effect of; `GemGetRecycledTxBuffer` is one, as it reads the USED bit
once; `Initialize` and `Shutdown` are whole.  The engine is `HwFinish`
(transmit a frame or fail it, and write USED back) and `HwHalt` (a USED
descriptor stops it until START_TX).  Frame contents are model values; error
bits, which the driver only logs, are dropped.

`GemTxFifo` states what a client is promised: a bounded FIFO of accepted frames
that leave in order, and buffers that come back in that order.  `GemTx`
implements it (`ImplementsFifo`).

### `GemRx`, `GemRxFifo`, `GemRxProofs`: reception

`GemReceiveFrame` is split at every access to shared memory (`PollOwn`,
`ReadStatus`, `CopyFrame`, `RecycleCtrl`, `RecycleOwn`, `RecycleAdvance`); the
engine's data and descriptor writes are two actions.  A frame's status is
`good` or `bad`: the length and SOF/EOF tests of the code decide only that.
EFI_BUFFER_TOO_SMALL (`fits = FALSE`) leaves the frame in place.  `GemRxFifo`
is the promise: good frames once, in order, unchanged; bad ones never.

### `GemSnp`, `GemSnpProofs`: SNP state machine and PHY

Two levels, `app` and `cb`, make calls; `cb` preempts `app` between any two of
its steps and runs to completion.  Every MDIO read is two actions (issue, fetch
`PHY_MAINT`), and `NET_CFG` is read and written back in two: this is where the
code shares state without its lock.  `FetchBmsr`, `FetchAbility`, `ReadNetCfg`
and `UpdateLinkSpeed` are `Rp1GemPhyUpdateConfig`; `Outcome` is what
`GetStatus` and `Transmit` make of its result, `Transmit`'s retry loop included.
The PHY latches a lost link until BMSR is read (`dropped`).  Duplex and flow
control follow the speed through the same registers and are left out, as are
statistics, MCastIpToMac and NvData, which keep no state.

`GetStatus` takes the SNP lock, which raises the TPL, so no callback comes
into it.  No other modelled call has a lock around what it reads and writes
back: `Transmit`'s poll of the link (`Snp.c:685`), a filter change, a reset.
The model lets callbacks into all of them; `disturbed` records that one came
in, until the next undisturbed Initialize programs everything anew.
`SpeedMatches`, `Programmed` and `LinkSettles` are claimed while it is FALSE,
because the code does not keep them otherwise.

With unicast reception off, `GemSetReceiveFilters` writes zeroes to both
address registers, the top one last, which leaves the entry on for the zero
address; the model says what the registers do, and `Programmed` claims the
entry only while unicast is on.

### `GemBinding`, `Rp1Tree`: driver binding, and the bus under it

`Start` acquires what it needs in the order of `Order` with the MAC reset in
between; `OnFailure` is the code's choice of cleanup label, and `Unwind` falls
through the labels.  `Stop` is the path with the child (four actions) and the
one for the controller alone.  SNP clients may run inside `Stop` until the
protocol is uninstalled.  A previous boot stage may have left the DMA engines
running on rings of its own (`dma = "foreign"`).  Re-opening the child link
after a refused uninstall is taken to succeed in `GemBinding`.

`Rp1Tree` adds `Rp1BusDxe`: Start with a failure at any step, the four devices
registered one by one (a device that cannot be registered or linked does not
stop Start; `Turn` is their order), interrupts and the exit event, and Stop of
the children, in the middle of which the core stops the Ethernet driver.  Here
a link can be lost (`lost`): the code ignores the status of the OpenProtocol
that makes it again, and what `BusUnderDevice` says of the others does not
hold of such a device.

### `BootOverride`: boot override across boots

The state spans machines and boots: the request staged on the BMC, the NV
variables `BootNext` and `RpiSyncContinuousApplied`, the latches of the running
boot, and the step the exchange is at (`pc`).  Actions are the exchange's steps
from `RpiRedfishConfigHandlerInit` to `SignalSyncSettled`, the BDS steps
(`BdsEntry`, the hold of PlatformBm, `OnReadyToBoot`, `Launch`), the operator at
any moment, and a power cut at any moment.  A PATCH can be lost, arrive without
its answer, or succeed.  A request stands for the target it names; whether a
boot option matches it is a free choice (`FindBootOverrideOption`).

### `ActiveCooler`, `MCActiveCooler`: the fan loop

`FanPollTick` is the whole tick, `TickLevel` its order of precedence (override,
fixed level, invalid sensor, loop) and `ReadPolicy` the validation of the
policy variable.  Temperatures are the sensor's raw readings, converted as the
code converts them, so the rounding at a trip point is real.  PWM registers
stand for nothing else than the commanded level.

### `EepromStage`, `EepromStageProofs`: staging and publication of the bootloader EEPROM

Files, NV variables, EEPROM and the values handed over by the VPU, across
boots.  `ReplaceFileContent` deletes and then writes, hence two actions per
file; a file that is not completely written counts as `NoFile`, as its hash
does not match.  An update tool of the operating system may flash a later
image (`OutsideFlash`).  The VPU bootloader is external: it flashes a `.upd`
with a matching `.sig` and a new timestamp (`VpuSelfUpdate`), or fails to
(`VpuBoot` with an update due is a fault).  The cleanup of an applied update
opens the volume and deletes the two files one by one; each can fail, and
nobody asks.  `clean` says that no step of the driver has failed in this boot,
`faults` counts what ever failed: `CleanHandover` claims publication of the
former, and that no files are left behind only of the latter, as a delete that
fails is not tried again.  The configuration text is a model value, and the
VPU is taken to hand over the timestamp (`mDtbHasTimestamp`).

### `BlcfgValues`, `EepromImage`: the EEPROM image and its configuration text

Functions.  A text is a sequence of lines, each a key and the number its value
stands for; a value has one spelling that is written and others that are only
read (`Loose`).  An image is a sequence of cells; sections start at even cells,
which keeps the alignment question (one cell left over) of the eight byte
alignment of the code.  `WalkSections`, `EepromFindFileIn`,
`EepromReplaceFileIn` and `EepromSetTimestamp` are those of `EepromImage.c`;
`PatchImage` is that of `BootloaderConfigSetup.c`, with the same order of
checks.  Partition B ends before the scratch sector, as in the code, and what
lies between is one sector here.  SHA-256 is the text it is taken of, and
digests have one length: the file never outgrows its room, so that the failure
of `BootloaderConfigSetup.c:630`, where partition B's old digest is kept with a
warning, is not met.

### `PciSegment`: configuration accesses

Bus 0 has a fixed place; everything behind it is reached through one window per
root complex, moved by CFG_INDEX.  Every operation of the library is a sequence
of accesses, each in two steps (index, data) under the lock, which raises the
TPL to TPL_HIGH_LEVEL; a timer handler makes operations of its own between
them.  A history copy of the configuration spaces (`direct`) is what the same
operations would do with a space for each function.  What the spaces hold at the
start is a constant (`Contents`).

### `Gpio`: pins of BCM2712 and RP1

The register tables of the code, and every accessor as a function on the set
of register bits that are 1.  `Facts` are the things a caller can see of the
pins, `Seen` what the accessors say of one, and `PinCall` names for each call
the facts it is to establish: `PinCallExact` says that it does, and that every
other fact of every pin stays.

### `PcieBridge`, `ConfigTable`: from the root complexes to the hand-over

`PcieBridge` is `PciHostBridgeGetRootBridges`, one step per segment with its
failures, and the windows, outbound and inbound, as the code packs them;
megabytes are the unit, as they are of the registers.  `MiscCtrl` is the write
of MISC_CTRL with the value the C expression has (see the observations), for
any bits left there by the VPU firmware (`MiscLeft`).  `ConfigTable` is
`RpiPlatformDxe`: settings with their defaults, enumeration of the bridges
(external), `AdjustPciReservedMemory` and `InstallAcpiTables` at ReadyToBoot
with every early return, and the hook in ExitBootServices.  A table may be
missing and any update of an object fail (`failed`); `stale` are the tables
whose sum is not that of their bytes.  ExitBootServices may fail, after the
hook has taken itself out and made the fixups for its caller (`fixed`); the
loader calls again, or returns, and the next one finds no hook.
`GetRootBridges` needs what the entry point has published, so it comes after.

### `PcieProofs`, `PlatformProofs`

Two modules hold the proofs of several components.  `PcieProofs` has those on
what hangs from the PCIe root complexes: `Rp1Tree` with `GemBinding`,
`ConfigTable` with `PcieBridge`, `PciSegment`.  `PlatformProofs` has those on
the drivers that follow the BMC and on the pins: `BootOverride`,
`ActiveCooler`, `Gpio` with the run's `MCLibraries`.

### `PowerButton`, `FirmwareUpdate`, `MCFirmwareUpdate`, `FirmwareUpdateProofs`

A devicetree is a record of what the lookup reads.  The detector latches an
edge that matches EC while MASK is on; the VPU may have left it in any state.
`FmpDeviceSetImageWithStatus` is a step per file call; between `File->Write`
and `Flush` the card may hold the old head, the new one or neither.  A file
call runs at TPL_CALLBACK, so that neither the poll nor a dump interrupts it;
between calls both do.

### `UsbPump`, `UsbPumpProofs`: the standing bulk IN request

The pump's record, the channel, the toggle of the device, the class drivers
and the synchronous path, with errors and NAKs at any time and a second
endpoint that takes the pump over.  A transfer is a number; whether it has an
odd number of packets is a choice, as that is all the toggle sees of its
length.

## 3. What the runs check

State counts are distinct states.  `libraries` and `platform_boot` take about
two minutes, the others a minute or less.

| run | states | shows |
|---|---|---|
| `gem_tx` | 134,399 | every client buffer is in exactly one pair of hands (`CustodyExact`: no sharing, no loss, counters and slots agree), no bounce buffer is written under the engine (`NoBounceOverwrite`), a buffer comes back (`BufferComesBack`, which a lost kick would prevent), and the ring is a FIFO (`ImplementsFifo`), through counter wrap, a full ring, failed frames and re-initialization |
| `gem_rx` | 36,061 | no torn copy and no erased status (`NoTornCopy`), a bad frame does not block the ring (`HeadMovesOn`), FIFO, with a client whose buffer may be too small |
| `gem_snp` | 241,754 | the MAC's speed follows the PHY's (`SpeedMatches`, `LinkSettles`), delays, filters and address are programmed as mode data and state say (`Programmed`), with callbacks inside lifecycle calls and while nothing has intruded; speed and delays while no MDIO transaction timed out |
| `rp1_tree` | 11,873 | bound, stopped or nothing held (`AllOrNothing`); DMA only on the driver's own memory, and none after ExitBootServices (`DmaOnOwnMemory`); no driver without its device, no device without its bus, no interrupt left to an OS (`BusUnderDevice`) |
| `boot_override` | 105,499 | a Once request is launched at most once whatever fails; one taken without a fault is launched; a running loader is left alone; the machine keeps reaching an OS |
| `active_cooler` | 29,064 | each tick cools enough and moves no further than it should, no chatter under any policy, a pinned level holds at once, the OS inherits airflow, constant conditions settle |
| `eeprom_stage` | 93,342 | the EEPROM never goes back, a stored timestamp vouches for the stored configuration, an OS started in a boot in which nothing failed finds the live configuration published (and no staged files, if nothing ever failed), a staged update takes effect, no reflash loop, with power cuts, failed writes and another tool's later image |
| `libraries` | 1,520,582 | configuration accesses of two callers are as if each function had its space to itself (`WindowInvisible`); a rebuilt text says what was asked and keeps the rest (`ConfigTexts`); an edit of an image leaves all other sections where and as they were, and a patched one is consistent in both partitions (`ImageEdits`); a pin call changes its pin (`PinsApart`) |
| `platform_boot` | 1,257,354 | root bridges name what root complexes decode (`WindowsAgree`); memory given back to an ACPI OS is behind no window (`ApertureNotMemory`); whichever table is missing and update or ExitBootServices fails, every table is summed, the objects that could be updated say what was reserved, and there is one way to configuration space, chosen for the first caller of ExitBootServices (`TablesWhole`) |
| `firmware_update` | 400,512 | a success is on the card, dumps survive, a stranger's boot stub is left alone (`CardIsWhole`); the button's poll acts on presses only, as the devicetree says (`ResetMeansPress`), and on every press (`PressActs`) |
| `usb_pump` | 389,464 | transfers are delivered in order and once (`DeliveredInOrder`), none is lost without an error or another poller (`NothingLost`), and a pump that stood down is armed again (`ComesBack`) |

One run ends in a counterexample:

| run | sentence | what the code does |
|---|---|---|
| `usb_pump_handover` | patch 0035, commit message: "every delivery mirrors HCTSIZ.PID back into the caller's DataToggle, so a handover to the classic path stays coherent" | an error halt does not read HCTSIZ.PID although packets may have been taken before it; when the pump then stands down, the synchronous path starts with the old toggle, and one transfer is dropped as a repetition |

### Observations that no run states

Met while modelling; the models follow the code in each case, or say where they
stop.

* `Snp.c:685`: `Transmit` polls the link before it takes the lock; a
  `GetStatus` that preempts it between issue and fetch swaps the register
  under it, and the MAC can be left at a speed that was not negotiated; a
  filter change that preempts its update of NET_CFG is lost.  The properties
  stop there (`disturbed`); the theorems say the same of any calls at either
  level, sends at application level among them.
* `RpiRedfishSyncDxe.c:692`: the mark of a Continuous override outlives its boot
  when the override is cleared; `:757`: the PATCH that acknowledges a Once
  request disables a Continuous one staged since the GET.
* `BootloaderConfigDxe.c:418` compares with `>=`: an EEPROM set back to an older
  image is not published.
* `PciSegmentLib.c`: read-modify-write operations are two accesses, and a
  handler may change the register between them (`direct` has the same gap, as
  the interface promises no more); the write worker lacks the read worker's
  check of an invalid address, which is harmless as long as clients write only
  to what they found.
* `EepromImage.c`: replacing a file may add a pad section; an image at
  EEPROM_MAX_SECTIONS is then refused by the next walk, and the timestamp goes
  where an image without the file has it.
* `ConfigTable.c`: with devicetree only, all memory between 3 and 4 GB is
  given back although bridge windows are decoded there; `InstallAcpiTables`
  closes a handle it may not have opened, and leaves the sum of the DSDT wrong
  until the hook; MCFG is edited and summed before anyone knows whether PBMA
  can be patched.  The hook is gone after the first ExitBootServices (`:453`),
  which may fail: another OS that is booted then gets the tables made for the
  first, although `RpiPlatformDxeHii.uni:62` says that "the Auto modes select
  NXPMX6 for Windows and fall back to the second option when booting other
  OSes".
* `Bcm2712PciHostBridge.c`: the base of an outbound window is not cut to its
  12 bits, and its 64 GB bit, set at every address in use, falls on the lowest
  bit of the limit beside it.  A window of an even number of megabytes has
  that bit set anyway; `PcieAssumption` rules out the others, which the code
  does not use.  At every even size the registers decode to the window asked
  for (proved).  Nobody looks at the link after its time-out.  `:418`: `?:`
  binds more weakly than `|`, so that the whole of the intended value is the
  condition: MISC_CTRL has its burst size cleared and RCB_MPS_MODE set for
  every root complex, whatever `RcbMatchMps` says, and SCB_ACCESS_EN and
  CFG_READ_UR_MODE stay as the VPU firmware left them.  `WindowsAgree` does
  not claim them.
* `Bcm2712GpioLib.c` shifts 1 by the number of the pin, undefined from 32 on;
  `Gpio` has data and direction for the first bank.
* `PowerButtonDxe.c` takes the first POWER_OFF_ON_HALT line and its first
  character, where `BlcfgValues.c` takes the last line; a press between
  `File->Write` and `Flush` resets the machine with the FAT cache unwritten
  (the model has it: the update was not reported as a success).
* `Rpi5FmpDeviceLib.c`: the first file found is written, which need not be the
  one the VPU loaded.
* `Rp1BusDxe.c`: a child whose link is lost survives its bus; PCI attributes are
  never disabled again.

### Bounds, and why they are enough

* `gem_tx`: 3 descriptors, counters modulo 6, 4 buffers, 2 frames.  Three slots
  are the fewest where first, middle and wrapping slot differ; 6 makes the
  counters wrap after two rounds; the fourth buffer meets a full ring.  The
  invariants and FIFO order are proved for every size; liveness rests on this
  instance.
* `gem_rx`: 3 descriptors, 2 frames: a full ring, and a frame told from another.
* `gem_snp`: speeds 10 (what the MAC resets to) and 1000 (what Initialize
  sets), 2 addresses, one MDIO time-out; lifecycle calls and `status` at
  application level; `status`, `filters`, `station`, `reset` and `transmit` at
  callback level.  `Transmit` at application level makes the
  liveness check too long; what it does there is left to the theorems.
* `rp1_tree`: 3 failing calls, enough for a failed Start, a refused Stop and
  a lost link in one behaviour.
* `boot_override`: 3 requests (one taken, one overtaking it, one after), 2
  faults (a lost answer and a power cut together); boots are unbounded.
* `active_cooler`: seven readings at either side of trip and release points of
  the built-in curve, three policies (trips closer than the hysteresis, trips
  out of order, a fixed level that does not exist) and BMC levels inside, at
  and outside the range and beyond a byte.
* `eeprom_stage`: 3 configurations, 3 timestamps after the factory's, 2 faults;
  boots are unbounded.  One outside image, between two staged timestamps.
* `libraries`: eight bytes of one bit, so that every offset modulo 4 meets
  every length, functions on all three kinds of bus, absent ones and a segment
  that does not exist, three operations; texts of up to three lines from
  eight (duplicates, odd spellings, unmanaged); images with every file order,
  padding of 0 to 4 cells, chains that end, run on or are broken, and new
  contents from nothing to one more than fits; one sector between partition B
  and the scratch sector; every pin, with registers all
  clear and all set.
* `platform_boot`: the addresses of the code; windows of 1, 17 and 1024 MB;
  boards of 2 and 8 GB; one table missing or update failing, and one failing
  ExitBootServices; loaders return any number of times.
* `firmware_update`: two volumes, two names, 13 boards, 2 versions, 2 dumps, one
  failing file call; power cuts and restarts are unbounded.
* `usb_pump`: two endpoints with 2 transfers each, 2 errors to stand down, 2
  polls to come back, 3 error halts.  The endpoints take turns in every order.

Deadlock is not checked where the system may stop: in `active_cooler`,
`rp1_tree`, `platform_boot` and `usb_pump` after ExitBootServices, and in
`libraries`, whose cases are initial states.

### Fairness, and why the code justifies it

* Code in progress runs on (`WF` of `Transmitting`, `Receiving`, `Running`,
  `Sync`, `Staging \/ Publishing`): one CPU, callbacks run to completion, every
  HTTP request and MDIO wait has a time-out.
* An enabled DMA engine works (`WF(Hardware)`).  No fairness is assumed of
  arriving frames.
* MNP's poll timer calls `GetStatus` again and again: `WF` for recycling in
  `GemTx`; `SF(GetStatus("cb"))` in `GemSnp`, as a lock held by the application
  disables it from time to time.  `SF(ReceiveCall(TRUE))` in `GemRx`: a client
  retries with a buffer of the size it was told.
* `FanPollTick` is a periodic timer.
* A powered machine boots (`WF(Boot)`, `WF(VpuSelfUpdate \/ VpuBoot)`,
  `WF(StartOs)`).  Power cuts and faults are never forced, and are bounded.
* The button's timer is served again and again, if not inside a file call
  (`SF(Poll)`), and a file call ends (`WF(WriteEnd)`).
* The DWC2 driver's periodic handler ticks, a synchronous transfer ends by its
  time-out, and class drivers poll on (`WF` of `Periodic`, `Classic`, `Poll`).
* No fairness of the operator, of the BMC, or of the OS resetting the machine.

`SpeedMatches`, `Programmed` (its delays) and `LinkSettles` are claimed while
no PHY step has failed, and none of them once a call was disturbed: a BMSR
read that times out may have cleared the latch that would have told of a lost
link.

## 4. What is proved

TLAPS checks every proof to its leaves with Z3, Zenon and LS4 (8,766
obligations).  Every safety property of the runs is proved but the two of the
image and text editing.  Each component's argument is one inductive invariant
(`IInv` in its module; `TableInv` and `PciInv` in theirs): one lemma or step
per action shows that the action preserves it, another that `Init` establishes
it, and the properties follow.  TLC checked each of these invariants on the
run's instance before it was proved.

| module | theorems | assumed of the constants |
|---|---|---|
| `GemTxProofs` | `RingInvariant`, `TypeCorrect`, `BufferCustody`, `NothingStuck`, `DmaRaceFree`, `TxRefinesFifo` | `TxAssumption`: the counters wrap on a ring boundary and count further than the ring is long (2^16 and 8 in the code) |
| `GemRxProofs` | `RingInvariant`, `ReceiveRaceFree`, `ReceiveInStep`, `RxRefinesFifo` | `RxAssumption`: at least one descriptor |
| `GemSnpProofs` | `SnpInvariant`, `SpeedFollows`, `RegistersProgrammed` | `SnpAssumption`: speeds are positive numbers, 10 and 1000 among them; any calls at either level |
| `EepromStageProofs` | `StageInvariant`, `StoredConfigIsLive`, `NeverDowngraded`, `TidyHandover` | `StageAssumption`, `NoFileAssumption`: timestamps are numbers, and no file is told from every file |
| `UsbPumpProofs` | `PumpInvariant`, `OrderedDelivery`, `LossFree` | `PumpAssumption`: the two limits are positive, and "none" is no endpoint |
| `FirmwareUpdateProofs` | `UpdateInvariant`, `CardStaysWhole`, `NoResetWithoutPress` | `FmpAssumption`: cards of known kinds of files, no version called "absent"; for the last one `TreesHold` |
| `PcieProofs`, bus and binding | `TreeInvariant`, `BindingIsWhole`, `DmaIsContained`, `TreeIsRooted` | `BindingAssumption`: any number of failing calls |
| `PcieProofs`, windows and tables | `TableInvariant`, `MemoryGivenBack`, `TablesHandedOver`, `BridgesPublished` | `PcieAssumption`: the 32-bit window ends at 4 GB and is an even number of megabytes; `ConfigAssumption`: any memory maps, settings and window lengths |
| `PcieProofs`, configuration window | `WindowNeverSeen` | `PciAssumption`, `PresentAssumption`: any functions with any contents, spaces of any multiple of 4 bytes |
| `PlatformProofs`, boot override | `ExchangeInvariant`, `TypeCorrect`, `GenuinelyOneShot`, `LoaderIsLeftAlone`, `NoRequestLost` | `BootAssumption`: the bounds are numbers, so any number of requests, boots and faults |
| `PlatformProofs`, fan loop | `CoolerInvariant`, `CoolerTypeCorrect`, `PinnedRuns`, `AirflowLeftOn`, `LoopCoolsEnough`, `LoopDoesNotChatter` | `CoolerAssumption`: readings of ten bits, policies of bytes |
| `PlatformProofs`, pins | `PinCallsExact`, `PinsNeverMixed` | nothing: the tables are the code's, the registers hold anything |

* **Transmit ring.**  Custody alone is not inductive.  `CursorsAgree` relates
  the free-running counters to slots across their wrap (this is where
  `CounterMod % TxCount = 0` is needed, through four lemmas on `%`);
  `WindowExact` says which slots hold a buffer; `DmaInStep` says that the slots
  still to be sent are consecutive from the engine's position and lie inside
  that window; `CallInProgress` covers the four points inside
  `GemTransmitFrame`.  A slot outside the window has USED set: that is
  `DmaRaceFree`, and why the room check is enough to keep the driver out of a
  buffer the engine reads.
* **Receive ring.**  `RxInStep` is the same idea with OWN, and `EngineInStep`
  ties the engine's write in progress to a descriptor the driver does not own.
* **Refinement.**  `TxRefinesFifo` and `RxRefinesFifo` map each step of a ring
  to a step of its FIFO or to a stutter.  The queue of the FIFO is not a
  variable of the ring: it is read off the slots from the engine's position on
  (`FifoQueue`) or from the driver's (`FifoPending`), so the lemmas say what
  each action does to that window: `QueueGrows` for the slot that is published
  or written back, `QueueShrinks` for the one that leaves, and unchanged
  otherwise.  A sequence is compared with another by length and elements
  (`FunctionIsQueue`), never by induction.  `CopyInPlace` (the bounce buffer
  holds the frame from the copy until the slot is booked) and `CallInPlace`
  (status and copy that a receive call has are those of its descriptor) are
  needed besides the invariant.
* **SNP and PHY.**  The types hold always; the rest, `InStep`, while no call
  was disturbed, and it is what an undisturbed Initialize finds its way back
  to.  A call that comes into an unlocked one is not excluded: it ends the claim
  (see the observations).  `OneAtATime` says where the two levels can be at
  once: a callback's call runs inside nothing but a Shutdown about to end.
  `InRegisters` says of each register what the mode data want there, and that a
  copy of `NET_CFG` read to be written back is still current.  `PollInStep`
  follows one poll of the PHY: what it has read so far is the present link's, or
  a loss is latched; `LossInHand` is the moment between, when reading BMSR has
  cleared the latch and the driver has not looked at the value yet.
* **Boot override.**  `HeldOnce` says where a Once request can be known (BMC,
  exchange, boot) and that none of them knows one that was launched;
  `ReadyToBootLatched` is needed because BDS launches what it cached, not what
  `BootNext` says by then.  For `NoRequestLost` the request has to be followed
  through the exchange: `LatestRead` says that the BMC holds the latest request
  or none, and `TakenIsPending` where a taken one is.
* **Fan loop.**  `LeftWhenCool` records under which temperature the loop last
  stepped down, for whatever policy held then; with the ascending trips of
  every policy `ReadPolicy` lets through it gives `NoChatter`.
* **EEPROM staging.** `FilesAreLater` says that a file on the volume, whole or
  left by a cut, is never older than the EEPROM, which makes a self-update at
  any boot a step forward; `GateHolds` that between the gate and the
  publication of the timestamp the stored one is older than the EEPROM, so
  that a cut after the configuration leaves it vouched for by nobody.
  `TidyHandover` follows from two more: `NothingFailedNow` follows one boot,
  from whatever the earlier ones left, through cleanup and publication;
  `NothingFailed` says for each phase what lies on the volume while nothing
  has failed at all.
* **Bus and binding.**  `HeldAtStep` says for every step of Start and of the
  cleanup labels what is held there; `RingsInUse` that the engines run on the
  driver's rings only under an installed protocol, and on strange ones only up
  to the MAC reset; `BusSetUp` that a bus which
  is not up has no devices but those whose link was lost.  The two drivers
  share one proof, as the Stop of one runs inside the other's.
* **Windows.** `BridgesInStep` says how far the loop over the segments is and
  that each bridge recorded is the one its root complex was set up for.  That
  the registers decode to it (`RegistersDecode`) is arithmetic: a number below
  2^12 is the sum of its twelve digits, base and limit are packed in one
  register, and the bits by which the base overflows its field are shown to be
  the limit's as well (`BaseField`, `LimitField`, `WindowDecoded`).
* **Memory and tables.** `WindowsInside`: what enumeration opens lies in the
  space published for it.  `InOrder`: enumeration, ReadyToBoot, loader, hook,
  with the loader coming back any number of times.  `Described`: what the
  tables say at each point, whichever is missing or could not be updated, in
  particular between a failed ExitBootServices and the next, of the same
  loader or another: once the fixups were made they are whole and summed, and
  nobody makes them again.  Memory given back starts behind the space told to
  the OS, and that space reaches over all windows, whichever ports open one
  and however long.
* **Configuration window.**  `OnPlace`: CFG_INDEX points where the holder of
  the lock has put it until it lets go.  `Underway` says what is left of an
  operation, and `InPart` that the accesses of a buffer so far, each of a width
  its register and the rest allow, cover exactly the bytes up to where it is.
* **Pins.**  Each fact is read from an area of bits (`SeenInArea`); a call
  changes the areas of the facts it sets and no other bit (`Rp1Call`,
  `BcmCall`); two facts share no bit (`AreasApart`).  The last is about the
  tables: `RowsApart` goes through pairs of their rows, for any two pins in
  them.
* **USB pump.**  `Parked` and `LastIsParked`: at most one transfer is between
  device and class driver, and it is the last one sent, which gives order;
  `TogglesAgree` and `InStep` say which of the four copies of the toggle is the
  device's, for an endpoint that is not broken, which gives `NothingLost`.
* **Firmware file.**  `OursStay` and `SameFile`: no step makes or unmakes a
  firmware file, so every boot, every dump and every capsule finds the same
  one (`FirstIsOne` is that the search has a result, from the well-foundedness
  of the numbers); `SuccessForgotten`: an update under way is on no file that
  counts as a success.
* **Power button.**  `EdgeIsPress`: the detector of the line latches presses
  and no releases, and after the clearing what is latched was pressed.  The
  lookup in the devicetree is recursive over buses and banks, so that the
  proof takes its result as `TreesHold`, that the line, polarity and halt mode
  found are the board's.  `MCFirmwareUpdate` assumes the same of its
  devicetrees and TLC evaluates it there.

Only model-checked, on the bounds of section 3:

* liveness under fairness (`BufferComesBack`, `HeadMovesOn`, `LinkSettles`,
  `AlwaysBoots`, `SettlesDown`, `StagedTakesEffect`, `PressActs`, `ComesBack`),
  which is beyond this prover, as are `ENABLED` and induction over data;
* `ConfigTexts` and `ImageEdits`, whose operators go through texts and images
  section by section: what they compute for every input needs induction over
  data.

## 5. What is not modelled

`PROJECT.json` gives the reason for each component.  In short: reports,
formatting and Setup pages over one variable have no behaviour that depends on
order; board identification and memory map are straight line; the theme is
drawing; the DWC2 USB driver, VarBlockServiceDxe and EDK2 itself are not in this
repository beyond the patches.  Of `RpiPlatformDxe` the Setup pages and the SD
and pin set-up are left out; of the host bridge the PHY registers, QoS and ASPM,
which are programmed in a straight line and read by nothing.

## 6. Plan

Done: transmit ring, receive ring, boot override, fan loop, EEPROM staging,
SNP and PHY, binding; then the RP1 bus, the USB pump, the firmware update with
the power button, the platform driver with the root complexes, and the
libraries (PCI configuration, EEPROM image, pins).  Proved: the safety
properties of the rings with their refinements, of SNP and PHY, the override,
the fan loop, staging, the bus and binding, the windows and tables, the
configuration window, the pump, the firmware file, the button and the pins.
Left, none of it modelled so far:

| what | about |
|---|---|
| `RpiRtc` | the 32-bit epoch and the alarm |
| `SpiFlash` | the pin mux on every path |
| Redfish quiesce | quiesce before the loader |
| NTB split (patch 0107) | one frame per datagram |
