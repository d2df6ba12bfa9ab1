------------------------------ MODULE BlcfgValues ------------------------------
(***************************************************************************)
(* The bootloader's configuration text and the settings it holds           *)
(* (BlcfgValues.c).  A text is a sequence of lines [key, val]; a line that *)
(* is no assignment to a managed key has key "other".  The text of a value *)
(* is a number: n itself for the canonical spelling of n, n + Loose for    *)
(* another spelling that is accepted, negative for one that is not.        *)
(***************************************************************************)
EXTENDS Integers, Sequences

CONSTANTS Loose,         \* larger than every value
          NewConfigCap   \* lines a rebuilt text may have (NEW_CONFIG_CAP)

ASSUME BlcfgAssumption == Loose \in Nat /\ Loose > 5000 /\ NewConfigCap \in Nat

\* mBlKeyNames, in this order, and what an absent key stands for.
BlKeys  == <<"BOOT_ORDER", "BOOT_UART", "POWER_OFF_ON_HALT", "WAKE_ON_GPIO", "PSU_MAX_CURRENT">>
Keys    == {BlKeys[i] : i \in 1 .. Len(BlKeys)}
Flags   == {"BOOT_UART", "POWER_OFF_ON_HALT", "WAKE_ON_GPIO"}
\* 0xf41 is BL_BOOT_ORDER_DEFAULT.
SetDefaults == [k \in Keys |-> IF k = "BOOT_ORDER" THEN 3905 ELSE IF k = "WAKE_ON_GPIO" THEN 1 ELSE 0]

\* The last occurrence of the key counts, -1 if there is none.
BlTextGetValue(text, k) ==
  LET hits == {i \in 1 .. Len(text) : text[i].key = k}
  IN IF hits = {} THEN -1 ELSE text[CHOOSE i \in hits : \A j \in hits : j <= i].val

\* Both accept one spelling more than the one FormatKeyLine writes: capital
\* digits, blanks or no 0x; leading zeros.
ParseBootOrder(t) == t % Loose
ParseDecimal(t)   == t % Loose

\* What the text says, with a default for what it does not say or says in a
\* way that is not understood; odd currents snap to one the form can show.
BlValuesFromText(text) ==
  [k \in Keys |->
    LET t == BlTextGetValue(text, k)
        n == ParseDecimal(t)
    IN CASE t < 0                      -> SetDefaults[k]
         [] t >= 0 /\ k = "BOOT_ORDER" -> ParseBootOrder(t)
         [] t >= 0 /\ k \in Flags      -> IF n # 0 THEN 1 ELSE 0
         [] t >= 0 /\ k = "PSU_MAX_CURRENT" ->
              IF n >= 4000 THEN 5000 ELSE IF n >= 1500 THEN 3000 ELSE SetDefaults[k]]

\* The data of the form, or of the staged marker, as settings; what cannot be
\* read and a current the form does not offer are refused.
BlValuesFromData(data) ==
  [ok |-> data["BOOT_ORDER"] >= 0 /\ data["PSU_MAX_CURRENT"] \in {0, 3000, 5000},
   values |-> [k \in Keys |-> CASE k = "BOOT_ORDER" -> ParseBootOrder(data[k])
                               [] k \in Flags      -> IF data[k] # 0 THEN 1 ELSE 0
                               [] OTHER            -> data[k]]]

\* The line of a key; a current of 0 has none.
FormatKeyLine(k, values) ==
  IF k = "PSU_MAX_CURRENT" /\ values[k] = 0 THEN <<>> ELSE <<[key |-> k, val |-> values[k]]>>

\* Mutant: a key whose value is 0 is taken to need no line.
AppendWantedNonZero(k, values) == values[k] # 0
\* A key the text does not have is added when its absence says otherwise.
AppendWanted(k, values) == values[k] # SetDefaults[k]

\* Unmanaged lines are kept as they are; the first line of a managed key gets
\* the new value and the others of that key are dropped; what is missing is
\* added at the end, in the order of the keys.
BlBuildNewConfigText(text, values) ==
  LET out[i \in 0 .. Len(text)] ==
        IF i = 0 THEN <<>>
        ELSE IF text[i].key = "other" THEN out[i - 1] \o <<text[i]>>
        ELSE IF \E j \in 1 .. i - 1 : text[j].key = text[i].key THEN out[i - 1]
        ELSE out[i - 1] \o FormatKeyLine(text[i].key, values)
      add[i \in 0 .. Len(BlKeys)] ==
        IF i = 0 THEN <<>>
        ELSE IF (\E j \in 1 .. Len(text) : text[j].key = BlKeys[i]) \/ ~AppendWanted(BlKeys[i], values)
               THEN add[i - 1]
        ELSE add[i - 1] \o FormatKeyLine(BlKeys[i], values)
      new == out[Len(text)] \o add[Len(BlKeys)]
  IN [status |-> IF Len(new) > NewConfigCap THEN "BUFFER_TOO_SMALL" ELSE "SUCCESS", text |-> new]

-----------------------------------------------------------------------------
Unmanaged(text) == SelectSeq(text, LAMBDA l : l.key = "other")

\* A rebuilt text says exactly the settings it was built for, although the
\* reader takes the last line of a key and the writer the first; every other
\* line survives, in order; and building it again changes nothing.
ConfigTextExact(text, values) ==
  LET new == BlBuildNewConfigText(text, values)
  IN new.status = "SUCCESS" =>
       /\ BlValuesFromText(new.text) = values
       /\ Unmanaged(new.text) = Unmanaged(text)
       /\ BlBuildNewConfigText(new.text, values).text = new.text
=============================================================================
