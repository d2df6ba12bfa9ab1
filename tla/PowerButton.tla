------------------------------ MODULE PowerButton ------------------------------
(***************************************************************************)
(* PowerButtonDxe: the lookup in the devicetree, the edge detector and the *)
(* poll (PowerButtonDxe.c).  A devicetree is a record of what the lookup   *)
(* reads; a property that is absent is the empty sequence.                 *)
(***************************************************************************)
EXTENDS Integers, Sequences, FiniteSets

VARIABLES
  dt,       \* the devicetree
  pin,      \* the level of every line, a set of the <<bank, bit>> that are high
  stat,     \* GIO_REG_STAT: latched edges
  mask,     \* GIO_REG_MASK: lines whose edges latch
  rising,   \* GIO_REG_EC: lines that latch a rising edge
  button,   \* what the driver found: [at, activeLow, off], or none
  step,     \* of the entry point
  board,    \* "up", "reset", "off", "dark" (no power)
  pressed   \* history: pressed since the detector was cleared

buttonVars == <<dt, pin, stat, mask, rising, button, step, pressed>>

None == [at |-> <<-1, -1>>, activeLow |-> FALSE, off |-> FALSE]

-----------------------------------------------------------------------------
(* The devicetree.                                                         *)

\* The address of a node on the root bus: each bus on the way up maps it by
\* the first of its ranges <<child, parent, size>> that holds it, or not at
\* all when it has none.  -1: there is no way.
GetTranslatedRegAddress(addr, buses) ==
  LET Hit(b, a) == {i \in 1 .. Len(b.ranges) : a >= b.ranges[i][1] /\ a - b.ranges[i][1] < b.ranges[i][3]}
      Up(b, a) == IF a < 0 \/ b.cells \notin 1 .. 2 THEN -1
                  ELSE IF b.ranges = <<>> THEN a
                  ELSE IF Hit(b, a) = {} THEN -1
                  ELSE LET i == CHOOSE j \in Hit(b, a) : \A k \in Hit(b, a) : j <= k
                       IN b.ranges[i][2] + (a - b.ranges[i][1])
      walk[n \in 0 .. Len(buses)] == IF n = 0 THEN addr ELSE Up(buses[n], walk[n - 1])
  IN walk[Len(buses)]

\* The compatible node, then the alias.
FindBlconfigNode(t) == IF t.compatible # <<>> THEN t.compatible ELSE t.alias

\* The first line with the key decides, by the first character of its value.
\* No node, or a region without address or of an odd size, is a no.
ReadPowerOffOnHalt(t) ==
  LET node == FindBlconfigNode(t)
      lines == IF node = <<>> \/ ~node[1].usable THEN <<>> ELSE node[1].text
      hits == {i \in 1 .. Len(lines) : lines[i].key = "POWER_OFF_ON_HALT"}
  IN hits # {} /\ lines[CHOOSE i \in hits : \A j \in hits : i <= j].val = "1"

\* The first button of this label decides too: <<number, flags>>, or nothing
\* when its cells are not those its controller asks for.
FindPowerButton(t) ==
  LET hits == {i \in 1 .. Len(t.keys) : t.keys[i].label = "pwr_button"}
      b    == t.keys[CHOOSE i \in hits : \A j \in hits : i <= j]
      ok   == b.cells # <<>> /\ b.controller /\ t.gpioCells \in 1 .. 3 /\ Len(b.cells) >= t.gpioCells
  IN IF hits = {} \/ ~ok THEN <<>> ELSE <<b.cells[1], IF t.gpioCells >= 2 THEN b.cells[t.gpioCells] ELSE 0>>

\* The bank and the bit of a line, <<-1, -1>> past the last bank.
BankOf(widths, n) ==
  LET left[b \in 0 .. Len(widths)] == IF b = 0 THEN n ELSE left[b - 1] - widths[b]
      fits == {b \in 1 .. Len(widths) : left[b - 1] < widths[b]}
      bank == CHOOSE b \in fits : \A c \in fits : b <= c
  IN IF widths = <<>> THEN <<n \div 32, n % 32>>
     ELSE IF fits = {} THEN <<-1, -1>> ELSE <<bank - 1, left[bank - 1]>>

-----------------------------------------------------------------------------
(* The driver.                                                             *)

\* The VPU may have left an edge latched, latching on, and the button held.
Lines == {<<b, o>> : b \in 0 .. 1, o \in 0 .. 3}
ButtonInit(tree) ==
  /\ dt = tree
  /\ \E held \in BOOLEAN : pin = IF held = dt.low THEN Lines \ {dt.line} ELSE Lines
  /\ stat \in {{}, {dt.line}} /\ mask \in {{}, {dt.line}} /\ rising \in {{}, {dt.line}}
  /\ button = None /\ step = "find" /\ board = "up" /\ pressed = FALSE

\* No tree, no button, no way to its controller or no such line: the driver
\* unloads.
NoButton ==
  /\ board = "up" /\ step = "find"
  /\ LET b == FindPowerButton(dt)
     IN \/ ~dt.valid \/ b = <<>> \/ GetTranslatedRegAddress(dt.reg, dt.buses) < 0
        \/ b # <<>> /\ BankOf(dt.widths, b[1])[1] < 0
  /\ step' = "unloaded"
  /\ UNCHANGED <<dt, pin, stat, mask, rising, button, board, pressed>>

\* Direction, edge, latching on: in this order, before the latch is cleared.
ArmEdge ==
  /\ board = "up" /\ step = "find"
  /\ LET b == FindPowerButton(dt)
     IN /\ dt.valid /\ b # <<>> /\ GetTranslatedRegAddress(dt.reg, dt.buses) >= 0
        /\ LET at == BankOf(dt.widths, b[1])
               low == b[2] % 2 = 1
           IN /\ at[1] >= 0
              /\ button' = [at |-> at, activeLow |-> low, off |-> ReadPowerOffOnHalt(dt)]
              /\ rising' = IF low THEN rising \ {at} ELSE rising \cup {at}
              /\ mask' = mask \cup {at}
  /\ step' = "clear"
  /\ UNCHANGED <<dt, pin, stat, board, pressed>>

\* Mutant: nothing is cleared, an old edge counts.
ClearEdgeNot == stat
\* STAT is write-1-to-clear.
ClearEdge == stat \ {button.at}
ClearStat ==
  /\ board = "up" /\ step = "clear"
  /\ stat' = ClearEdge
  /\ step' = "timer"
  /\ UNCHANGED <<dt, pin, mask, rising, button, board, pressed>>
\* CreateEvent or SetTimer may fail; then nobody polls.
StartTimer ==
  /\ board = "up" /\ step = "timer"
  /\ step' \in {"polling", "unloaded"}
  /\ UNCHANGED <<dt, pin, stat, mask, rising, button, board, pressed>>

\* Mutant: only the level is looked at.
PressedLevel == (button.at \notin pin) = button.activeLow
\* The latched edge, or the level.
Pressed == button.at \in stat \/ ((button.at \notin pin) = button.activeLow)
\* The timer's handler, at TPL_CALLBACK; busy: somebody is at that level.  The
\* trigger latch and the cancelled timer are of no use after ResetSystem,
\* which does not come back.
PowerButtonPoll(busy) ==
  /\ board = "up" /\ step = "polling" /\ ~busy
  /\ Pressed
  /\ stat' = stat \ {button.at}
  /\ board' = IF button.off THEN "off" ELSE "reset"
  /\ step' = "triggered"
  /\ UNCHANGED <<dt, pin, mask, rising, button, pressed>>

\* The VPU pulls the line and lets it go; the detector sees the edge.
Edge(l, high) ==
  /\ pin' = IF high THEN pin \cup {l} ELSE pin \ {l}
  /\ stat' = IF l \in mask /\ (l \in rising) = high THEN stat \cup {l} ELSE stat
Press ==
  /\ board = "up" /\ (dt.line \in pin) = dt.low
  /\ Edge(dt.line, ~dt.low)
  /\ pressed' = (step \in {"timer", "polling"})
  /\ UNCHANGED <<dt, mask, rising, button, step, board>>
Release ==
  /\ board = "up" /\ (dt.line \in pin) # dt.low
  /\ Edge(dt.line, dt.low)
  /\ UNCHANGED <<dt, mask, rising, button, step, board, pressed>>

-----------------------------------------------------------------------------
(* Properties.                                                             *)

\* The poll resets the board or powers it off, as the devicetree says, and
\* only for a press: the button's line went to its active level since the
\* detector was cleared, or is there now.
ResetMeansPress ==
  step = "triggered" =>
    /\ pressed \/ (dt.line \notin pin) = dt.low
    /\ board = (IF dt.halt THEN "off" ELSE "reset")

\* What makes it inductive: the line the driver found is the button's, its
\* detector latches presses and no releases, and after the clearing what is
\* latched was pressed.
EdgeIsPress ==
  /\ step \in {"clear", "timer", "polling"} =>
       /\ button = [at |-> dt.line, activeLow |-> dt.low, off |-> dt.halt]
       /\ (dt.line \in rising) = ~dt.low
  /\ step \in {"timer", "polling"} /\ dt.line \in stat => pressed

\* A devicetree whose button, if the lookup finds it, is the one wired to the
\* line, of that polarity, and whose configuration is the one in force.
TreeHolds(t) ==
  LET b  == FindPowerButton(t)
      at == BankOf(t.widths, b[1])
  IN /\ t.low \in BOOLEAN /\ t.halt \in BOOLEAN
     /\ b # <<>> /\ at[1] >= 0 =>
          at = t.line /\ (b[2] % 2 = 1) = t.low /\ ReadPowerOffOnHalt(t) = t.halt

\* A press, however short, made once the detector is cleared and the timer
\* runs ends in a reset or in power off, by what the devicetree says.
PressActs == (step = "polling" /\ pressed /\ board = "up") ~> (board # "up")
=============================================================================
