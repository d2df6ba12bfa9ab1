--------------------------- MODULE MCFirmwareUpdate ---------------------------
(***************************************************************************)
(* Devicetrees and cards for FirmwareUpdate.                               *)
(***************************************************************************)
EXTENDS FirmwareUpdate

\* Line 6 of two banks of 4: bank 1, bit 2; the controller sits behind two buses.
Bus(ranges) == [cells |-> 2, ranges |-> ranges]
Region(val) == <<[usable |-> TRUE, text |-> <<[key |-> "BOOT_UART", val |-> "1"],
                                              [key |-> "POWER_OFF_ON_HALT", val |-> val]>>]>>
Key(label, cells) == [label |-> label, cells |-> cells, controller |-> TRUE]
Pi5 == [valid |-> TRUE, keys |-> <<Key("pwr_button", <<6, 1>>)>>, gpioCells |-> 2, widths |-> <<4, 4>>,
        reg |-> 5, buses |-> <<Bus(<<<<0, 100, 4>>, <<4, 200, 4>>>>), Bus(<<>>)>>,
        compatible |-> Region("1"), alias |-> <<>>,
        line |-> <<1, 2>>, low |-> TRUE, halt |-> TRUE]

\* Other boards, and trees that are not usable.
MCTrees ==
  {Pi5,
   [Pi5 EXCEPT !.keys = <<Key("wifi", <<1, 1>>), Key("pwr_button", <<4, 1>>)>>, !.line = <<1, 0>>],
   [Pi5 EXCEPT !.keys = <<Key("pwr_button", <<3, 0>>)>>, !.line = <<0, 3>>, !.low = FALSE],
   [Pi5 EXCEPT !.widths = <<>>, !.keys = <<Key("pwr_button", <<2>>)>>, !.gpioCells = 1, !.low = FALSE,
               !.line = <<0, 2>>, !.compatible = <<>>, !.alias = Region("0"), !.halt = FALSE],
   [Pi5 EXCEPT !.compatible = <<[usable |-> FALSE, text |-> <<>>]>>, !.halt = FALSE],
   [Pi5 EXCEPT !.valid = FALSE],
   [Pi5 EXCEPT !.keys = <<Key("pwr_button", <<8, 1>>)>>],
   [Pi5 EXCEPT !.keys = <<Key("pwr_button", <<6>>)>>],
   [Pi5 EXCEPT !.reg = 9]}

\* Cards: ours under either name, beside another's boot stub, on two volumes,
\* one of them write protected.
Card(a, b, c, d) == [f \in Files |-> IF f[1] = 1 THEN <<a, b>>[f[2]] ELSE <<c, d>>[f[2]]]
Plain == Card("ours", "absent", "absent", "absent")
Board(t, c, ro) == [tree |-> t, card |-> c, readOnly |-> ro]
MCBoards ==
  {Board(t, Plain, {}) : t \in MCTrees}
    \cup {Board(Pi5, Card("foreign", "ours", "absent", "ours"), {}), Board(Pi5, Card("ours", "foreign", "absent", "ours"), {1}),
          Board(Pi5, Card("foreign", "absent", "foreign", "absent"), {}), Board(Pi5, Plain, {1})}

ASSUME TreesHold
=============================================================================
