-------------------------------- MODULE Gpio --------------------------------
(***************************************************************************)
(* The pin libraries of the two chips (Bcm2712GpioLib.c, Rp1GpioLib.c).    *)
(* Registers are the set of their bits that are 1, each bit a pair of its  *)
(* register and its number; an operation is a function of that set.        *)
(***************************************************************************)
EXTENDS Integers

Digits(v, n)  == {i \in 0 .. n - 1 : (v \div 2^i) % 2 = 1}
Bits(reg, bs) == {<<reg, b>> : b \in bs}
\* Of a field of up to five bits.
Number(on, reg, first, n) ==
  LET digit(i) == IF i < n /\ <<reg, first + i>> \in on THEN 2^i ELSE 0
  IN digit(0) + digit(1) + digit(2) + digit(3) + digit(4)

-----------------------------------------------------------------------------
(* BCM2712.  A row of a controller's table are pins whose fields follow    *)
(* one another, four bits of a multiplexer and two of a pull register.     *)

Row(first, last, muxReg, muxBit, ctlReg, ctlBit) ==
  [first |-> first, last |-> last, mux |-> <<muxReg, muxBit>>, ctl |-> <<ctlReg, ctlBit>>]
UNUSED == -1    \* PINCTRL_REG_UNUSED
Bcm2712PinctrlGioRegisters ==
  { Row( 1,  4,  0,  0, 16, 10), Row(10, 13,  0, 16, 16, 18), Row(14, 15,  4,  0, 16, 26),
    Row(18, 23,  4,  8, 20,  0), Row(24, 31,  8,  0, 20, 12), Row(32, 32, 12,  0, 20, 28),
    Row(33, 35, 12,  4, 24,  0), Row(36, 46, UNUSED, 0, 24, 6) }
\* Mutant: pin 6 is given the pull of the one before it.
Bcm2712PinctrlGioAonRegistersTwice ==
  { Row( 0,  5, 12,  0, 20, 18), Row( 6,  6, 12, 24, 20, 28), Row( 8,  8, 12, 28, 24,  2),
    Row( 9,  9, 16,  0, 24,  4), Row(12, 14, 16,  4, 24,  6),
    Row(32, 35,  0,  0, UNUSED, 0), Row(36, 36, 4, 0, UNUSED, 0), Row(37, 37, 8, 0, UNUSED, 0) }
Bcm2712PinctrlGioAonRegisters ==
  { Row( 0,  5, 12,  0, 20, 18), Row( 6,  6, 12, 24, 24,  0), Row( 8,  8, 12, 28, 24,  2),
    Row( 9,  9, 16,  0, 24,  4), Row(12, 14, 16,  4, 24,  6),
    Row(32, 35,  0,  0, UNUSED, 0), Row(36, 36, 4, 0, UNUSED, 0), Row(37, 37, 8, 0, UNUSED, 0) }
Controllers ==
  [GIO     |-> [table |-> Bcm2712PinctrlGioRegisters,    pins |-> 47],
   GIO_AON |-> [table |-> Bcm2712PinctrlGioAonRegisters, pins |-> 38]]

\* The field of a pin, <<register, bit>>, of width bits a pin; the register is
\* UNUSED for a pin without one, and for a pin that does not exist.
PinField(type, pin, which, width) ==
  LET rows == {r \in Controllers[type].table : pin \in r.first .. r.last}
      row  == CHOOSE r \in rows : TRUE
  IN IF rows = {} THEN <<<<type, which, UNUSED>>, 0>>
     ELSE <<<<type, which, row[which][1]>>, row[which][2] + width * (pin - row.first)>>

Unused(field) == field[1][3] = UNUSED
SetField(on, field, width, v) ==
  IF Unused(field) THEN on
  ELSE (on \ Bits(field[1], field[2] .. field[2] + width - 1))
         \cup Bits(field[1], {field[2] + d : d \in Digits(v, width)})
GetField(on, field, width, default) ==
  IF Unused(field) THEN default ELSE Number(on, field[1], field[2], width)

GpioGetFunction(on, type, pin)    == GetField(on, PinField(type, pin, "mux", 4), 4, 9)
GpioSetFunction(on, type, pin, f) == SetField(on, PinField(type, pin, "mux", 4), 4, f)
GpioGetPull(on, type, pin)        == GetField(on, PinField(type, pin, "ctl", 2), 2, 0)
\* Only none, down and up (0 to 2) are pulls.
GpioSetPull(on, type, pin, pull)  ==
  IF pull \notin 0 .. 2 THEN on ELSE SetField(on, PinField(type, pin, "ctl", 2), 2, pull)

\* Data and direction have a register per 32 pins.  The library shifts 1 by the
\* pin's number, which is defined for the first bank: the only one it is used
\* for.
BankReg(type, pin, reg) == <<type, reg, pin \div 32>>
Flip(on, bit, set)      == IF set THEN on \cup {bit} ELSE on \ {bit}
GpioRead(on, type, pin)              == <<BankReg(type, pin, "DATA"), pin>> \in on
GpioWrite(on, type, pin, v)          == Flip(on, <<BankReg(type, pin, "DATA"), pin>>, v)
GpioGetDirection(on, type, pin)      ==
  IF <<BankReg(type, pin, "IODIR"), pin>> \in on THEN "input" ELSE "output"
GpioSetDirection(on, type, pin, dir) == Flip(on, <<BankReg(type, pin, "IODIR"), pin>>, dir = "input")

-----------------------------------------------------------------------------
(* RP1.  Three banks, each with registers a pin for function and pad, and  *)
(* registers a bank, set and cleared bit by bit, for level and direction.  *)

Rp1Pins == 0 .. 53
FUNC_RIO == 5
Rp1GpioLocatePin(pin) ==
  IF pin < 28 THEN <<0, pin>> ELSE IF pin < 34 THEN <<1, pin - 28>> ELSE <<2, pin - 34>>

Rp1Ctrl(pin) == <<"CTRL", Rp1GpioLocatePin(pin)>>
Rp1Pad(pin)  == <<"PADS", Rp1GpioLocatePin(pin)>>
Rio(pin, reg) == <<<<reg, Rp1GpioLocatePin(pin)[1]>>, Rp1GpioLocatePin(pin)[2]>>

\* Bits of a pad register.
PULL_DOWN   == 2
PULL_UP     == 3
IN_ENABLE   == 6
OUT_DISABLE == 7

\* The pad lets in and out; the function is selected, its overrides are off.
Rp1GpioSetFunction(on, pin, f) ==
  LET pad == (on \cup {<<Rp1Pad(pin), IN_ENABLE>>}) \ {<<Rp1Pad(pin), OUT_DISABLE>>}
  IN (pad \ Bits(Rp1Ctrl(pin), (0 .. 4) \cup (12 .. 15))) \cup Bits(Rp1Ctrl(pin), Digits(f, 5))

Rp1GpioSetPull(on, pin, pull) ==
  (on \ Bits(Rp1Pad(pin), {PULL_UP, PULL_DOWN}))
    \cup Bits(Rp1Pad(pin), CASE pull = "down" -> {PULL_DOWN} [] pull = "up" -> {PULL_UP} [] OTHER -> {})

Rp1GpioSetDirection(on, pin, output) ==
  Rp1GpioSetFunction(Flip(on, Rio(pin, "OE"), output), pin, FUNC_RIO)
Rp1GpioWrite(on, pin, v) == Flip(on, Rio(pin, "OUT"), v)
Rp1GpioRead(on, pin)     == Rio(pin, "IN") \in on

-----------------------------------------------------------------------------
(* What the callers see of a pin, and a call as what it changes of it.     *)

BcmPins  == {<<t, p>> : t \in {"GIO", "GIO_AON"}, p \in 0 .. 46} \ {<<"GIO_AON", p>> : p \in 38 .. 46}
BankPins == {x \in BcmPins : x[2] < 32}
Rp1s     == {<<"RP1", p>> : p \in Rp1Pins}
\* What is visible of all the pins.
Facts == (BcmPins \X {"function", "pull"}) \cup (BankPins \X {"data", "direction"})
           \cup (Rp1s \X {"function", "overrides", "pull", "enables", "data", "direction", "input"})
Seen(on, x, what) ==
  LET t == x[1]  p == x[2]
      rp1 == t = "RP1"
  IN CASE what = "function" /\ rp1   -> Number(on, Rp1Ctrl(p), 0, 5)
       [] what = "overrides" /\ rp1  -> Number(on, Rp1Ctrl(p), 12, 4)
       [] what = "pull" /\ rp1       -> Number(on, Rp1Pad(p), PULL_DOWN, 2)
       [] what = "enables" /\ rp1    -> Number(on, Rp1Pad(p), IN_ENABLE, 2)
       [] what = "data" /\ rp1       -> Rio(p, "OUT") \in on
       [] what = "direction" /\ rp1  -> IF Rio(p, "OE") \in on THEN "output" ELSE "input"
       [] what = "input" /\ rp1      -> Rp1GpioRead(on, p)
       [] what = "function" /\ ~rp1  -> GpioGetFunction(on, t, p)
       [] what = "pull" /\ ~rp1      -> GpioGetPull(on, t, p)
       [] what = "data" /\ ~rp1      -> GpioRead(on, t, p)
       [] what = "direction" /\ ~rp1 -> GpioGetDirection(on, t, p)

\* A call: the registers after it, and the facts it is to establish.
PinCall(on, op, x, v) ==
  LET t == x[1]  p == x[2]
      rp1 == t = "RP1"
      mux(f) == {<<x, "function", f>>, <<x, "overrides", 0>>, <<x, "enables", 1>>}
  IN CASE op = "function" /\ rp1 -> [on |-> Rp1GpioSetFunction(on, p, v), sets |-> mux(v)]
       [] op = "pull" /\ rp1     ->
            [on |-> Rp1GpioSetPull(on, p, CASE v = 0 -> "none" [] v = 1 -> "down" [] v = 2 -> "up"),
             sets |-> {<<x, "pull", v>>}]
       [] op = "data" /\ rp1     -> [on |-> Rp1GpioWrite(on, p, v), sets |-> {<<x, "data", v>>}]
       [] op = "direction" /\ rp1 ->
            [on |-> Rp1GpioSetDirection(on, p, v = "output"), sets |-> {<<x, "direction", v>>} \cup mux(FUNC_RIO)]
       [] op = "function" /\ ~rp1 ->
            [on |-> GpioSetFunction(on, t, p, v),
             sets |-> IF Unused(PinField(t, p, "mux", 4)) THEN {} ELSE {<<x, "function", v>>}]
       [] op = "pull" /\ ~rp1    ->
            [on |-> GpioSetPull(on, t, p, v),
             sets |-> IF Unused(PinField(t, p, "ctl", 2)) THEN {} ELSE {<<x, "pull", v>>}]
       [] op = "data" /\ ~rp1    -> [on |-> GpioWrite(on, t, p, v), sets |-> {<<x, "data", v>>}]
       [] op = "direction" /\ ~rp1 -> [on |-> GpioSetDirection(on, t, p, v), sets |-> {<<x, "direction", v>>}]

\* A call does to its pin what it says and nothing else, to any pin of either
\* chip: no two pins share a bit of a register, and none is read elsewhere
\* than it was written.
PinCallExact(on, op, x, v) ==
  LET call == PinCall(on, op, x, v)
  IN /\ \A s \in call.sets : <<s[1], s[2]>> \in Facts /\ Seen(call.on, s[1], s[2]) = s[3]
     /\ \A f \in Facts : (\A s \in call.sets : <<s[1], s[2]>> # f) => Seen(call.on, f[1], f[2]) = Seen(on, f[1], f[2])
=============================================================================
