----------------------------- MODULE MCLibraries -----------------------------
(***************************************************************************)
(* The libraries: PCI configuration accesses, stepped; and the functions   *)
(* on the EEPROM image and on the pins, one initial state a case.          *)
(***************************************************************************)
EXTENDS PciSegment, EepromImage, Gpio

VARIABLE subject   \* what the behaviour is about; a case does not step
libVars == <<subject, pciVars>>

MCPresent == {<<0, 0, 0, 0>>, <<0, 1, 0, 0>>, <<0, 2, 1, 0>>}
MCAbsent  == {<<0, 1, 1, 0>>, <<0, 2, 0, 0>>, <<3, 0, 0, 0>>}
MCContents == {[f \in MCPresent |-> IF f[2] = 1 THEN u ELSE Ones(4) \ u] : u \in {{0}, {1, 2}}}

-----------------------------------------------------------------------------
(* Configuration texts, and images that hold them.                         *)

Line(k, v) == [key |-> k, val |-> v]
Lines == { Line("other", 0), Line("BOOT_ORDER", 3905), Line("BOOT_ORDER", 1 + Loose),
           Line("BOOT_UART", 1), Line("POWER_OFF_ON_HALT", -2), Line("WAKE_ON_GPIO", 0 + Loose),
           Line("PSU_MAX_CURRENT", 5000), Line("PSU_MAX_CURRENT", 1600) }
Texts(n) == UNION {[1 .. m -> Lines] : m \in 0 .. n}
Forms ==
  {[k \in Keys |-> CASE k = "BOOT_ORDER" -> b [] k = "PSU_MAX_CURRENT" -> p
                     [] k = "BOOT_UART" -> u [] k = "WAKE_ON_GPIO" -> w [] OTHER -> 0] :
     b \in {-2, 1 + Loose, 3905}, p \in {0, 1600, 3000, 5000}, u \in {0, 1}, w \in {0, 2}}
Settings == {d.values : d \in {f \in {BlValuesFromData(g) : g \in Forms} : f.ok}}

Even(cells)  == IF Len(cells) % 2 = 1 THEN cells \o <<Erased>> ELSE cells
File(n, content) ==
  Even(<<<<"magic", "file">>, <<"len", Len(content) + 2>>, Name(n), <<"opaque", 0>>>> \o content)
Empty(n)     == [i \in 1 .. n |-> Erased]
Pad(n)       == IF n < 2 THEN Empty(n) ELSE <<<<"magic", "pad">>, <<"len", n - 2>>>> \o Empty(n - 2)
Fill(cells, n) == cells \o Empty(n - Len(cells))
PadTo(cells, n) == cells \o Pad(n - Len(cells))

Time(t)    == File("updatetime", <<<<"inverse", t>>, <<"time", t>>>>)
Conf(text) == File("bootconf.txt", Cells(text))
Sig(text)  == File("bootconf.sig", Digest(text, 0))
Signed     == File("bootconf.sig", <<<<"rsa2048", 0>>, <<"ts", 0>>>>)
TooLong    == <<<<"magic", "file">>, <<"len", 1000>>, Name("other"), <<"opaque", 0>>>>
Alien      == <<<<"code", 1>>, <<"code", 1>>>>

SomeTexts == { <<>>, <<Line("BOOT_ORDER", 3905)>>, <<Line("BOOT_ORDER", 1), Line("other", 0), Line("BOOT_ORDER", 2)>>,
               <<Line("other", 0), Line("PSU_MAX_CURRENT", 3000), Line("other", 1), Line("BOOT_UART", 1)>> }
\* The read only part, partition A from there on, partition B.
ReadOnly(cells) == PadTo(<<<<"magic", "section">>, <<"len", 2>>, <<"code", 0>>, <<"code", 0>>>> \o cells, PartitionA)
ChainsA(text) ==
  { Conf(text) \o Pad(n) \o rest : n \in {0, 2, 4},
      rest \in {Sig(text) \o Time(0), Time(0) \o Sig(text), Time(0), Sig(text), Signed \o Time(0),
                File("pieeprom", <<<<"code", 2>>>>) \o Time(0), TooLong, Alien} }
    \cup {Sig(text) \o Time(0) \o Conf(text), Time(0) \o Pad(2) \o Conf(text), Time(0), <<>>}
ChainsB(text) == {<<>>, Conf(text), Conf(text) \o Pad(4) \o Sig(text), Sig(text) \o Conf(text), Sig(text)}
Images(ros, as, bs) ==
  {ReadOnly(ro) \o a \o Fill(b, PartitionEnd - PartitionB) \o Empty(2 * Erase) : ro \in ros, b \in bs,
     a \in {Fill(c, PartitionB - PartitionA) : c \in as} \cup {PadTo(c, PartitionB - PartitionA) : c \in as}}

NewContents == {[i \in 1 .. n |-> <<"line", Line("other", i)>>] : n \in 0 .. MaxFile + 1}

-----------------------------------------------------------------------------
(* Pins: all registers clear, all set.                                     *)

AllOn == LET rp1 == {Rp1Ctrl(p) : p \in Rp1Pins} \cup {Rp1Pad(p) : p \in Rp1Pins}
             bcm == {<<t, w, r>> : t \in {"GIO", "GIO_AON"}, w \in {"mux", "ctl"}, r \in {0, 4, 8, 12, 16, 20, 24}}
                      \cup {<<t, w, 0>> : t \in {"GIO", "GIO_AON"}, w \in {"DATA", "IODIR"}}
                      \cup {<<w, b>> : w \in {"OUT", "OE", "IN"}, b \in 0 .. 2}
         IN {<<r, b>> : r \in rp1, b \in 0 .. 15} \cup {<<r, b>> : r \in bcm, b \in 0 .. 31}
PinValues(op) == CASE op = "function"  -> {5}
                   [] op = "pull"      -> {1, 2}
                   [] op = "data"      -> BOOLEAN
                   [] op = "direction" -> {"input", "output"}

TextCases ==
  \E text \in Texts(3), values \in Settings : subject = [what |-> "text", text |-> text, values |-> values]
ReplaceCases ==
  \E t \in SomeTexts, part \in {"A", "B"}, name \in {"bootconf.txt", "bootconf.sig"}, data \in NewContents :
    \E image \in IF part = "A" THEN Images({Time(0)}, ChainsA(t), {Conf(t)})
                 ELSE Images({Time(0)}, {Conf(t) \o Time(0)}, ChainsB(t)) :
      subject = [what |-> "replace", image |-> image, part |-> part, name |-> name, data |-> data]
PatchCases ==
  \E t \in SomeTexts, values \in {s \in Settings : s["BOOT_UART"] = 0 /\ s["WAKE_ON_GPIO"] = 1 /\ s["PSU_MAX_CURRENT"] # 3000} :
    \E image \in Images({Time(0), <<>>}, ChainsA(t), ChainsB(<<Line("BOOT_ORDER", 1)>>)) :
      subject = [what |-> "patch", image |-> image, values |-> values]
PinCases ==
  \E op \in {"function", "pull", "data", "direction"}, on \in {{}, AllOn} :
    \E v \in PinValues(op), x \in Rp1s \cup (IF op \in {"data", "direction"} THEN BankPins ELSE BcmPins) :
      subject = [what |-> "pin", on |-> on, op |-> op, pin |-> x, v |-> v]

LibInit ==
  \/ subject = [what |-> "pci"] /\ PciInit
  \/ PciInit /\ 0 \in cfg[<<0, 1, 0, 0>>] /\ (TextCases \/ ReplaceCases \/ PatchCases \/ PinCases)
LibNext == subject.what = "pci" /\ PciNext /\ UNCHANGED subject
LibSpec == LibInit /\ [][LibNext]_libVars

-----------------------------------------------------------------------------
\* Building a configuration text (BlcfgValues.c) and reading it back.
ConfigTexts == subject.what = "text" => ConfigTextExact(subject.text, subject.values)

\* Editing a file of the EEPROM image, and patching new settings into it
\* (EepromImage.c, BootloaderConfigSetup.c).
ImageEdits ==
  /\ subject.what = "replace" => ReplaceExact(subject.image, subject.part, subject.name, subject.data)
  /\ subject.what = "patch" => PatchExact(subject.image, subject.values, 7)

\* Calls of the pin libraries on every pin of the board.
PinsApart == subject.what = "pin" => PinCallExact(subject.on, subject.op, subject.pin, subject.v)
=============================================================================
