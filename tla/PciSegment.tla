------------------------------ MODULE PciSegment ------------------------------
(***************************************************************************)
(* PCI configuration accesses of Bcm2712PciSegmentLib.  The functions      *)
(* behind the root port share one window, moved by writing CFG_INDEX       *)
(* before the data is read or written; a timer handler may make accesses   *)
(* of its own in the middle of an operation.  A register's value is the    *)
(* set of its bits that are 1, a function's configuration space the set of *)
(* all its bits that are 1.                                                *)
(***************************************************************************)
EXTENDS Integers, FiniteSets

CONSTANTS Bytes,      \* bytes of a configuration space (4096), a multiple of 4
          ByteBits,   \* bits of a byte (8)
          Present,    \* functions that answer
          Absent,     \* other functions that are addressed
          Contents,   \* configuration spaces at the start, bits of each function
          MaxCalls    \* bound: operations

ASSUME PciAssumption ==
  /\ Bytes \in Nat \ {0} /\ Bytes % 4 = 0
  /\ ByteBits \in Nat \ {0}
  /\ MaxCalls \in Nat
  /\ Present \cap Absent = {}
  /\ Present \cup Absent \subseteq Nat \X Nat \X Nat \X Nat
  /\ \A space \in Contents : DOMAIN space = Present

VARIABLES
  cfg,     \* the configuration space of each function
  index,   \* CFG_INDEX of the root complex
  lock,    \* who holds mPciSegmentReadWriteLock
  call,    \* the operation of the application, and of the timer handler
  known,   \* functions the clients found by a read
  wild,    \* a write went to PCI_INVALID_ADDRESS
  direct,  \* history: the spaces as they would be without the window
  exact,   \* history: every read so far was right, every buffer covered
  calls    \* history: operations begun

pciVars == <<cfg, index, lock, call, known, wild, direct, exact, calls>>

-----------------------------------------------------------------------------
Callers   == {"app", "timer"}
Functions == Present \cup Absent
Root      == <<0, 0, 0, 0>>          \* segment, bus, device, function
Segments  == 0 .. 2                  \* mPcieRcBaseAddresses

\* The bits of size bytes from register reg on, and a value put there.
Span(reg, size)  == reg * ByteBits .. (reg + size) * ByteBits - 1
Shift(bits, n)   == {b + n : b \in bits}
Value(space, reg, w)  == Shift(space \cap Span(reg, w), -(reg * ByteBits))
Put(space, reg, w, v) == (space \ Span(reg, w)) \cup Shift(v, reg * ByteBits)
Ones(w)          == 0 .. w * ByteBits - 1

\* Bus 0 has the root port only, bus 1 one device only.
PciSegmentLibGetConfigBase(f) ==
  CASE f[1] \notin Segments                           -> "invalid"
    [] f[1] \in Segments /\ f[2] = 0 /\ f[3] + f[4] > 0 -> "invalid"
    [] f[1] \in Segments /\ f[2] = 1 /\ f[3] > 0      -> "invalid"
    [] f[1] \in Segments /\ f[2] = 0 /\ f[3] + f[4] = 0 -> "root"
    [] OTHER                                          -> "window"

\* What is on a bus is where the library looks for it: a link has one device.
ASSUME PresentAssumption == \A f \in Present : PciSegmentLibGetConfigBase(f) # "invalid"

\* What answers an access: the root port, or the function the window is on.
\* A link has one device: the device number of a bus 1 access is not looked at.
Answers(op) ==
  LET g == IF op.base = "root" THEN op.f ELSE index[op.f[1]]
  IN IF g[2] = 1 THEN <<g[1], 1, 0, g[4]>> ELSE g

\* What an operation makes of the value it read: what it keeps, what it sets.
\* Write and the bit field forms are those of BaseLib's BitField functions.
Field(op) == op.start .. op.end
Modify(op, v) ==
  LET mask == Shift(op.and, op.start) \cup (Ones(op.w) \ Field(op))
      bits == Shift(op.or, op.start)
  IN CASE op.kind = "Write"     -> (v \ Field(op)) \cup bits
       [] op.kind = "Or"        -> v \cup bits
       [] op.kind = "And"       -> v \cap mask
       [] op.kind = "AndThenOr" -> (v \cap mask) \cup bits

\* The next access of a buffer of size bytes at reg: a byte and a word up to
\* the double words, a word and a byte after them.
NextWidth(reg, size) ==
  IF reg % 2 = 1 THEN 1
  ELSE IF size >= 2 /\ (reg % 4 = 2 \/ size < 4) THEN 2
  ELSE IF size >= 4 THEN 4
  ELSE 1

\* An operation of width w on register reg of function f, or on the bits s to
\* e of it; of a buffer, what is left of it, and the bits to write.
Operation(kind, todo, w, f, reg, s, e, and, or) ==
  [kind |-> kind, todo |-> todo, w |-> w, f |-> f, reg |-> reg, size |-> w, start |-> s, end |-> e,
   and |-> and, or |-> or, base |-> "none", got |-> {}, want |-> {}, span |-> Span(reg, w),
   seen |-> {}]
Done == Operation("Read", "done", 4, Root, 0, 0, 0, {}, {})

PciInit ==
  /\ cfg \in Contents
  /\ direct = cfg
  /\ index = [s \in Segments |-> <<s, 0, 0, 0>>]
  /\ lock = "free"
  /\ call = [c \in Callers |-> Done]
  /\ known = {} /\ wild = FALSE /\ exact = TRUE /\ calls = 0

-----------------------------------------------------------------------------
(* The operations.  A client writes to functions that a read showed to be  *)
(* there.                                                                  *)

\* The timer interrupts the application, and runs its operation to the end,
\* unless the lock holds the TPL at TPL_HIGH_LEVEL.  Mutant: it does not.
MayRunUnlocked(c) == c = "app" => call["timer"].todo = "done"
MayRun(c) ==
  /\ lock \in {"free", c}
  /\ c = "app" => call["timer"].todo = "done"

Ready(c) == MayRun(c) /\ call[c].todo = "done" /\ calls < MaxCalls
Begin(c, op) ==
  /\ call' = [call EXCEPT ![c] = op]
  /\ calls' = calls + 1
  /\ UNCHANGED <<cfg, index, lock, known, wild, direct, exact>>

\* A register is aligned to its width (the mask of the assertion).
Registers(w) == {r \in 0 .. Bytes - w : r % w = 0}
Masks(s, e)  == {{0}, 0 .. e - s}

\* Read, Or, And, AndThenOr and Write of the bits s to e of a register; what
\* Write does first is to read, unless it writes the whole.
Access(c, w, s, e, write) ==
  \E reg \in Registers(w) :
    \/ \E f \in Functions : Begin(c, Operation("Read", "read", w, f, reg, s, e, {}, {}))
    \/ \E f \in known, m \in Masks(s, e) :
         \/ Begin(c, Operation("Or", "read", w, f, reg, s, e, {}, m))
         \/ Begin(c, Operation("And", "read", w, f, reg, s, e, m, {}))
         \/ Begin(c, Operation("Write", write, w, f, reg, s, e, {}, m))
         \/ \E or \in Masks(s, e) : Begin(c, Operation("AndThenOr", "read", w, f, reg, s, e, m, or))

Whole(c, w) == Ready(c) /\ Access(c, w, 0, w * ByteBits - 1, "write")
Part(c, w)  == Ready(c) /\ \E e \in 0 .. w * ByteBits - 1 : \E s \in 0 .. e : Access(c, w, s, e, "read")

\* Read8 to AndThenOr8, BitFieldRead8 to BitFieldAndThenOr8, and so on.
PciSegment8(c)          == Whole(c, 1)
PciSegmentBitField8(c)  == Part(c, 1)
PciSegment16(c)         == Whole(c, 2)
PciSegmentBitField16(c) == Part(c, 2)
PciSegment32(c)         == Whole(c, 4)
PciSegmentBitField32(c) == Part(c, 4)

\* A buffer stays inside the space; one of no bytes is no access at all.
Buffer(kind, todo, f, reg, size, data) ==
  [Operation(kind, todo, NextWidth(reg, size), f, reg, 0, 0, {}, data)
     EXCEPT !.size = size, !.span = Span(reg, size)]
PciSegmentReadBuffer(c) ==
  Ready(c) /\ \E reg \in 0 .. Bytes - 1, f \in Functions : \E size \in 1 .. Bytes - reg :
    Begin(c, Buffer("ReadBuffer", "read", f, reg, size, {}))
PciSegmentWriteBuffer(c) ==
  Ready(c) /\ \E reg \in 0 .. Bytes - 1, f \in known : \E size \in 1 .. Bytes - reg :
    \E data \in {{}, Span(reg, size)} : Begin(c, Buffer("WriteBuffer", "write", f, reg, size, data))

-----------------------------------------------------------------------------
(* The workers.  Each access takes the lock, finds its place, and moves    *)
(* the window there.                                                       *)

FindBase(c) ==
  LET f    == call[c].f
      base == PciSegmentLibGetConfigBase(f)
  IN /\ MayRun(c) /\ call[c].todo # "done" /\ call[c].base = "none"
     /\ lock' = c
     /\ call' = [call EXCEPT ![c].base = base]
     /\ index' = IF base = "window" THEN [index EXCEPT ![f[1]] = f] ELSE index
     /\ UNCHANGED <<cfg, known, wild, direct, exact, calls>>

\* A buffer goes on behind the access; another operation is done, or has its
\* value to write.
Advance(op, todo) ==
  LET left == op.size - op.w
      seen == op.seen \cup Span(op.reg, op.w)
  IN IF op.kind \notin {"ReadBuffer", "WriteBuffer"}
       THEN IF todo = "done" THEN Done ELSE [op EXCEPT !.todo = todo, !.base = "none"]
     ELSE IF left <= 0 THEN Done
     ELSE [op EXCEPT !.size = left, !.reg = @ + op.w, !.w = NextWidth(op.reg + op.w, left),
                     !.seen = seen, !.base = "none"]

\* The access is aligned and goes to bytes of the operation not yet accessed,
\* and the last one leaves none.
Fits(op) ==
  /\ op.reg % op.w = 0
  /\ Span(op.reg, op.w) \subseteq op.span \ op.seen
  /\ op.size <= op.w => Span(op.reg, op.w) \cup op.seen = op.span

\* Nobody answers for an invalid place or an absent function.
ReadWorker(c) ==
  LET op  == call[c]
      g   == Answers(op)
      got == IF op.base = "invalid" \/ g \notin Present THEN Ones(op.w) ELSE Value(cfg[g], op.reg, op.w)
      want == IF op.f \in Present THEN Value(direct[op.f], op.reg, op.w) ELSE Ones(op.w)
  IN /\ MayRun(c) /\ op.base # "none" /\ op.todo = "read"
     /\ lock' = "free"
     /\ call' = [call EXCEPT ![c] =
                   IF op.kind \in {"Read", "ReadBuffer"} THEN Advance(op, "done")
                   ELSE [Advance(op, "write") EXCEPT !.got = got, !.want = want]]
     /\ exact' = (exact /\ got = want /\ Fits(op))
     /\ known' = IF got # Ones(op.w) THEN known \cup {op.f} ELSE known
     /\ UNCHANGED <<cfg, index, wild, direct, calls>>

Data(op, read) ==
  IF op.kind = "WriteBuffer" THEN Value(op.or, op.reg, op.w) ELSE Modify(op, read)

\* Nothing checks the place here: an invalid one is written to as an address.
WriteWorker(c) ==
  LET op == call[c]
      g  == Answers(op)
  IN /\ MayRun(c) /\ op.base # "none" /\ op.todo = "write"
     /\ lock' = "free"
     /\ wild' = (wild \/ op.base = "invalid")
     /\ cfg' = IF op.base = "invalid" \/ g \notin Present THEN cfg
               ELSE [cfg EXCEPT ![g] = Put(@, op.reg, op.w, Data(op, op.got))]
     /\ direct' = IF op.f \notin Present THEN direct
                  ELSE [direct EXCEPT ![op.f] = Put(@, op.reg, op.w, Data(op, op.want))]
     /\ call' = [call EXCEPT ![c] = Advance(op, "done")]
     /\ exact' = (exact /\ Fits(op))
     /\ UNCHANGED <<index, known, calls>>

-----------------------------------------------------------------------------
\* Bound: the handler's own operations are those on whole double words.
PciNext ==
  \/ PciSegment8("app") \/ PciSegmentBitField8("app")
  \/ PciSegment16("app") \/ PciSegmentBitField16("app")
  \/ PciSegment32("app") \/ PciSegmentBitField32("app")
  \/ PciSegmentReadBuffer("app") \/ PciSegmentWriteBuffer("app")
  \/ PciSegment32("timer")
  \/ \E c \in Callers : FindBase(c) \/ ReadWorker(c) \/ WriteWorker(c)
PciSpec == PciInit /\ [][PciNext]_pciVars

-----------------------------------------------------------------------------
(* Properties.                                                             *)

\* The window is invisible: every read returns, and every write changes, the
\* function it names, as if each had its space to itself, whatever a handler
\* does in between, and a buffer is covered by aligned accesses, each byte
\* once; no function is found that is not there, and so nothing is written
\* where PCI_INVALID_ADDRESS points.
WindowInvisible ==
  /\ cfg = direct /\ exact
  /\ known \subseteq Present /\ ~wild

\* What makes it inductive.  A buffer has been seen up to the register it is
\* at, and goes on in accesses that fit.
Operations ==
  [kind : {"Read", "Or", "And", "Write", "AndThenOr", "ReadBuffer", "WriteBuffer"},
   todo : {"read", "write", "done"}, w : {1, 2, 4}, f : Nat \X Nat \X Nat \X Nat, reg : Nat, size : Nat,
   start : Int, end : Int, and : SUBSET Int, or : SUBSET Int, base : {"none", "invalid", "root", "window"},
   got : SUBSET Int, want : SUBSET Int, span : SUBSET Int, seen : SUBSET Int]
InPart(op) ==
  IF op.kind \in {"ReadBuffer", "WriteBuffer"}
    THEN /\ op.size > 0 /\ op.w = NextWidth(op.reg, op.size)
         /\ \E first \in 0 .. op.reg :
              op.span = Span(first, op.reg + op.size - first) /\ op.seen = Span(first, op.reg - first)
    ELSE op.size = op.w /\ op.reg % op.w = 0 /\ op.span = Span(op.reg, op.w) /\ op.seen = {}
Underway(op) ==
  /\ op.todo # "done" =>
       /\ op.f \in Functions /\ InPart(op)
       /\ op.kind \in {"Read", "ReadBuffer"} => op.todo = "read"
       /\ op.kind \notin {"Read", "ReadBuffer"} => op.f \in Present
  /\ op.got = op.want
  /\ op.base \in {"none", PciSegmentLibGetConfigBase(op.f)}
\* The window stays where the holder of the lock has put it.
OnPlace(c) ==
  /\ call[c].base # "none" => lock = c
  /\ call[c].base = "window" => index[call[c].f[1]] = call[c].f
PciInv ==
  /\ call \in [Callers -> Operations] /\ index \in [Segments -> Nat \X Nat \X Nat \X Nat]
  /\ \A c \in Callers : Underway(call[c]) /\ OnPlace(c)
  /\ WindowInvisible
=============================================================================
