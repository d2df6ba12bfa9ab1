------------------------------ MODULE PcieBridge ------------------------------
(***************************************************************************)
(* The PCIe root complexes (Bcm2712PciHostBridge.c) and the root bridges   *)
(* handed to PciHostBridgeDxe (Bcm2712PciHostBridgeLib.c).  Addresses and  *)
(* sizes are in megabytes; a register that is packed is the set of its     *)
(* bits that are 1.                                                        *)
(***************************************************************************)
EXTENDS Integers, Sequences, FiniteSets

CONSTANTS Mem32Base,   \* PCI_RESERVED_MEM32_BASE: the window of 32 bit BARs on the bus
          Mem32Size,   \* PCI_RESERVED_MEM32_SIZE: up to 4 GB
          MiscLeft     \* the bits of MISC_CTRL that are set when the VPU firmware hands over

\* An even number of megabytes, as the lowest bit of a window's limit is not
\* its own: see PcieSetupOutboundWindow.
ASSUME PcieAssumption ==
  /\ Mem32Base \in Nat \ {0} /\ Mem32Size \in Nat \ {0}
  /\ Mem32Base + Mem32Size = 4096 /\ Mem32Size % 2 = 0
  /\ MiscLeft \subseteq 0 .. 31

VARIABLES
  seg,       \* the root complex the loop is at; 3: it is over
  rcs,       \* the root complexes
  bridges,   \* RootBridges[0 .. Index - 1]: the segments that have one
  paths,     \* device paths allocated
  published  \* what PciHostBridgeDxe got: the bridges, or none

pcieVars == <<seg, rcs, bridges, paths, published>>

-----------------------------------------------------------------------------
Segs      == 0 .. 2
Width     == 2^24                              \* 2^44 in the code: 64 bits of megabytes
CpuMem    == [s \in Segs |-> <<94208, 110592, 126976>>[s + 1]]   \* 0x17, 0x1b, 0x1f 00000000
CpuMem64  == [s \in Segs |-> <<81920, 98304, 114688>>[s + 1]]    \* 0x14, 0x18, 0x1c 00000000
Mem64Size == 12288
INBOUND   == 65536                             \* SIZE_64GB

BitsOf(v, first, n) == {first + i : i \in {j \in 0 .. n - 1 : (v \div 2^j) % 2 = 1}}
RegField(bits, first) ==
  LET b(i) == IF first + i \in bits THEN 2^i ELSE 0
  IN b(0) + b(1) + b(2) + b(3) + b(4) + b(5) + b(6) + b(7) + b(8) + b(9) + b(10) + b(11)

\* The size field of an inbound window, 4 KB to 64 GB, for log2 of the bytes.
PcieEncodeInboundSize(log2) ==
  CASE log2 \in 12 .. 15 -> (log2 - 12) + 28
    [] log2 \in 16 .. 36 -> log2 - 15
    [] OTHER             -> 0

\* Mutant: the limit is the first megabyte behind the window.
PcieSetupOutboundWindowBeyond(cpu, bus, size) ==
  [low |-> (BitsOf(cpu, 4, 28) \cup BitsOf(cpu + size, 20, 12)), baseHi |-> cpu \div 4096,
   limitHi |-> (cpu + size) \div 4096, bus |-> bus]

\* Base and limit share a register of two fields of 12 bits.  The base is not
\* cut to its field: its upper bits run into the limit.
PcieSetupOutboundWindow(cpu, bus, size) ==
  LET limit == cpu + size - 1
  IN [low |-> (BitsOf(cpu, 4, 28) \cup BitsOf(limit, 20, 12)), baseHi |-> cpu \div 4096,
      limitHi |-> limit \div 4096, bus |-> bus]

\* What the hardware makes of it: the first and the last megabyte.
Decodes(win) == <<RegField(win.low, 4) + 4096 * win.baseHi, RegField(win.low, 20) + 4096 * win.limitHi>>

\* MISC_CTRL.
RCB_MPS_MODE == 10
BURST_SIZE   == {20, 21}
SCB0_SIZE    == 27 .. 31

\* What is meant is a burst size of 128, SCB_ACCESS_EN, CFG_READ_UR_MODE and,
\* where the setting asks for it, RCB_MPS_MODE.  As ?: binds more weakly than |
\* the first three are part of its condition, which is never 0: the burst size
\* is cleared, RCB_MPS_MODE is set for every root complex, and SCB_ACCESS_EN
\* and CFG_READ_UR_MODE stay as they were left.
MiscCtrl(left) == (left \ BURST_SIZE) \cup {RCB_MPS_MODE}

\* The window from the bus to memory, as long as 2^log2 bytes.
PcieSetupInboundWindow(cpu, bus, log2) == [bus |-> bus, cpu |-> cpu, remap |-> TRUE, size |-> PcieEncodeInboundSize(log2)]
\* The size of the memory controller is that of the first window.
Scb0Sized(misc, size) == (misc \ SCB0_SIZE) \cup BitsOf(size, 27, 5)

\* PERST is held while PHY, errors, windows, class, speed and ASPM are set; the
\* link has 100 ms to come up, and nobody looks whether it did.
PcieInitRc(s, link) ==
  [perst |-> FALSE, link |-> link, errorsOff |-> TRUE,
   misc    |-> Scb0Sized(MiscCtrl(MiscLeft), PcieEncodeInboundSize(36)),
   inbound |-> PcieSetupInboundWindow(0, 0, 36),
   mem     |-> PcieSetupOutboundWindow(CpuMem[s], Mem32Base, Mem32Size),
   mem64   |-> PcieSetupOutboundWindow(CpuMem64[s], CpuMem64[s], Mem64Size)]
IdleRc == [perst |-> TRUE, link |-> FALSE, errorsOff |-> FALSE, misc |-> MiscLeft,
           inbound |-> [bus |-> 0, cpu |-> 0, remap |-> FALSE, size |-> 0],
           mem |-> PcieSetupOutboundWindow(0, 0, 1), mem64 |-> PcieSetupOutboundWindow(0, 0, 1)]

\* The apertures of a root bridge; a host address is one on the bus less the
\* translation.
Bridge(s) == [segment |-> s,
              mem   |-> [base |-> Mem32Base, limit |-> Mem32Base + Mem32Size - 1,
                         translation |-> (Width - (CpuMem[s] - Mem32Base)) % Width],
              mem64 |-> [base |-> CpuMem64[s], limit |-> CpuMem64[s] + Mem64Size - 1, translation |-> 0]]

PcieInit ==
  /\ seg = 0
  /\ rcs = [s \in Segs |-> IdleRc]
  /\ bridges = <<>> /\ paths = 0 /\ published = {}

-----------------------------------------------------------------------------
(* PciHostBridgeGetRootBridges, a step per root complex.                   *)

SkipSegment(enabled) ==
  /\ seg \in Segs /\ ~enabled[seg]
  /\ seg' = seg + 1
  /\ UNCHANGED <<rcs, bridges, paths, published>>

StartSegment(enabled) ==
  /\ seg \in Segs /\ enabled[seg]
  /\ \E link \in BOOLEAN : rcs' = [rcs EXCEPT ![seg] = PcieInitRc(seg, link)]
  /\ bridges' = Append(bridges, Bridge(seg))
  /\ paths' = paths + 1
  /\ seg' = seg + 1
  /\ UNCHANGED published

\* Without memory for a device path, those that have one are freed and there
\* is no root bridge at all.
FailSegment(enabled) ==
  /\ seg \in Segs /\ enabled[seg]
  /\ \E link \in BOOLEAN : rcs' = [rcs EXCEPT ![seg] = PcieInitRc(seg, link)]
  /\ paths' = paths - Len(bridges)   \* PciHostBridgeFreeRootBridges (RootBridges, Index)
  /\ bridges' = <<>>
  /\ seg' = 4
  /\ UNCHANGED published

ReturnBridges ==
  /\ seg = 3
  /\ published' = {bridges[i] : i \in 1 .. Len(bridges)}
  /\ seg' = 4
  /\ UNCHANGED <<rcs, bridges, paths>>

\* The platform protocol is not there, or no memory for the array.
NoBridges ==
  /\ seg = 0
  /\ seg' = 4
  /\ UNCHANGED <<rcs, bridges, paths, published>>

PciHostBridgeGetRootBridges(enabled) ==
  NoBridges \/ SkipSegment(enabled) \/ StartSegment(enabled) \/ FailSegment(enabled) \/ ReturnBridges

-----------------------------------------------------------------------------
(* Properties.                                                             *)

\* What a root bridge says is what its root complex decodes, at the host
\* addresses it says.  The inbound window maps the first 64 GB of the bus to the
\* same addresses of memory, and the memory controller has its size; whether it
\* is given access at all (SCB_ACCESS_EN) is not claimed: see MiscCtrl.
Agrees(rc, b) ==
  LET host(ap) == <<(ap.base - ap.translation) % Width, (ap.limit - ap.translation) % Width>>
  IN /\ ~rc.perst /\ rc.errorsOff
     /\ Decodes(rc.mem) = host(b.mem) /\ rc.mem.bus = b.mem.base
     /\ Decodes(rc.mem64) = host(b.mem64) /\ rc.mem64.bus = b.mem64.base
     /\ rc.inbound.remap /\ rc.inbound.bus = 0 /\ rc.inbound.cpu = 0
     /\ 2^(rc.inbound.size + 15 - 20) = INBOUND
     /\ rc.misc \cap SCB0_SIZE = BitsOf(rc.inbound.size, 27, 5)
Disjoint(rc, other) ==
  \A x \in {"mem", "mem64"}, y \in {"mem", "mem64"} :
    Decodes(rc[x])[2] < Decodes(other[y])[1] \/ Decodes(other[y])[2] < Decodes(rc[x])[1]

\* Every root bridge that was published agrees with its root complex, no two
\* of them overlap, and no device path is left behind.
WindowsAgree ==
  /\ seg = 4 => paths = Cardinality(published)
  /\ \A b \in published :
       /\ Agrees(rcs[b.segment], b)
       /\ \A c \in published \ {b} : Disjoint(rcs[b.segment], rcs[c.segment])

\* The registers as they are computed for the root complexes in use agree with
\* the root bridges: a matter of the constants alone.
InUse == {1, 2}
WindowsDecode ==
  \A s, r \in InUse, l, k \in BOOLEAN :
    /\ Agrees(PcieInitRc(s, l), Bridge(s))
    /\ r # s => Disjoint(PcieInitRc(s, l), PcieInitRc(r, k))

\* What makes it inductive: the bridges are those of the root complexes that
\* were started, in order, with a device path each.
BridgesInStep ==
  /\ seg \in 0 .. 4 /\ DOMAIN rcs = Segs
  /\ bridges \in Seq({Bridge(s) : s \in InUse}) /\ paths = Len(bridges)
  /\ \A i, j \in 1 .. Len(bridges) : i < j => bridges[i].segment < bridges[j].segment
  /\ \A i \in 1 .. Len(bridges) :
       /\ bridges[i].segment < seg
       /\ \E link \in BOOLEAN : rcs[bridges[i].segment] = PcieInitRc(bridges[i].segment, link)
  /\ seg = 0 => bridges = <<>>
  /\ published = IF seg = 4 THEN {bridges[i] : i \in 1 .. Len(bridges)} ELSE {}
=============================================================================
