------------------------------ MODULE PciConfig ------------------------------
(***************************************************************************)
(* PCI configuration accesses (PciSegmentLib.c), after PciHost has brought *)
(* the root complex up: where an address lands, what the two workers hide, *)
(* the read-modify-write functions and the buffer functions.               *)
(*                                                                         *)
(* The configuration space of a function is a set of bit numbers, of which *)
(* a register of w bits at byte r holds 8r .. 8r + w - 1; of the 4096      *)
(* bytes the model keeps those of the set Bytes.  Functions behind the     *)
(* root port are reached through the CFG0 window, whose address bits 12 to *)
(* 27 are bus, device and function: GetConfigBase adds 0x8000 to them.     *)
(***************************************************************************)
EXTENDS PciHost

CONSTANTS
  Bytes,      \* the bytes of configuration space the model keeps
  MaxSize     \* bound on the size of a buffer

ASSUME ConfigAssumption == Bytes \subseteq 0..4095 /\ MaxSize \in Nat

VARIABLES
  config,   \* the bits set, of each function that exists
  access,   \* the running call
  cycles    \* the configuration cycles it has made

configVars == <<config, access, cycles>>

\* The root port and the functions of the device behind it.
Nothing == [bus |-> 2, fn |-> 0]
RootPort == [bus |-> 0, fn |-> 0]
Endpoint(f) == [bus |-> 1, fn |-> f]
ConfigFunctions == {RootPort} \cup {Endpoint(f) : f \in {0, 1}}

Field(first, last) == first..last
Register(reg, w) == {8 * reg + b : b \in 0..w - 1}
AllBytes == UNION {Register(r, 8) : r \in Bytes}

-----------------------------------------------------------------------------
(***************************************************************************)
(* An address, in units of 4 KB: busses of 256 and devices of 8 units      *)
(* (PcdPciBusMax is 1).  What the CPU reads behind the base it is given is *)
(* the DBI, or what the window it falls into makes of it.                  *)
(***************************************************************************)
Unit(a) == 256 * a.bus + 8 * a.dev + a.fn

PciSegmentLibGetConfigBase(a) == IF a.bus = 0 THEN "dbi" ELSE "windows"

Cfg0 == Windows[1]

\* Windows are in units of 64 KB, 16 of which hold a bus.
Reached(a) ==
  IF PciSegmentLibGetConfigBase(a) = "dbi"
  THEN IF Unit(a) = 0 THEN RootPort ELSE Nothing
  ELSE LET unit == Unit(a) + 8 IN
       IF unit \in 16 * Cfg0.base..16 * (Cfg0.base + Cfg0.size) - 1
         /\ Endpoint(unit % 8) \in ConfigFunctions
       THEN Endpoint(unit % 8) ELSE Nothing

\* Devices other than 0 of bus 0 are the root port again, unless ignored.
Ignored(a) == a.bus = 0 /\ a.dev > 0

HiddenBars == {16, 20}

\* What a read of w bits returns: all ones where nothing answers.
PciSegmentLibReadWorker(a, reg, w) ==
  IF Ignored(a) \/ Reached(a) = Nothing THEN 0..w - 1
  ELSE IF w = 32 /\ a.bus = 0 /\ reg \in HiddenBars THEN {}
  ELSE {b \in 0..w - 1 : 8 * reg + b \in config[Reached(a)]}

PciSegmentLibWriteWorker(a, reg, w, value) ==
  IF Ignored(a) \/ Reached(a) = Nothing THEN config
  ELSE [config EXCEPT ![Reached(a)] = (@ \ Register(reg, w)) \cup {8 * reg + b : b \in value}]

-----------------------------------------------------------------------------
\* BaseLib's operations on bit fields first..last of a value (external).
At(first, bits) == {first + b : b \in bits}
BitFieldRead(v, first, last) == {b - first : b \in v \cap Field(first, last)}
BitFieldWrite(v, first, last, d) == (v \ Field(first, last)) \cup (At(first, d) \cap Field(first, last))
BitFieldOr(v, first, last, d) == v \cup (At(first, d) \cap Field(first, last))
BitFieldAnd(v, first, last, d) == v \ (Field(first, last) \ At(first, d))
BitFieldAndThenOr(v, first, last, d, o) ==
  BitFieldOr(BitFieldAnd(v, first, last, d), first, last, o)

(***************************************************************************)
(* The value each read-modify-write function of w bits writes.             *)
(***************************************************************************)
PciSegmentOr(v, d) == v \cup d
PciSegmentAnd(v, d) == v \cap d
PciSegmentAndThenOr(v, d, o) == (v \cap d) \cup o

Modified(c, v) ==
  CASE c.op = "Or"  -> PciSegmentOr(v, c.data)
    [] c.op = "And" -> PciSegmentAnd(v, c.data)
    [] c.op = "AndThenOr" -> PciSegmentAndThenOr(v, c.data, c.orData)
    [] c.op = "BitFieldWrite" -> BitFieldWrite(v, c.first, c.last, c.data)
    [] c.op = "BitFieldOr"  -> BitFieldOr(v, c.first, c.last, c.data)
    [] c.op = "BitFieldAnd" -> BitFieldAnd(v, c.first, c.last, c.data)
    [] c.op = "BitFieldAndThenOr" -> BitFieldAndThenOr(v, c.first, c.last, c.data, c.orData)

-----------------------------------------------------------------------------
(***************************************************************************)
(* The calls: those on a register of w bits, aligned as its ASSERT wants   *)
(* it, and those on a buffer.  A function other than 0 is asked for only   *)
(* behind the root port, whose own header has a single function.           *)
(***************************************************************************)
Addresses == {[bus |-> 0, dev |-> d, fn |-> 0] : d \in {0, 1}}
        \cup {[bus |-> 1, dev |-> d, fn |-> f] : d \in {0, 1, 31}, f \in {0, 1, 2}}

Data(w) == {b \in 0..w - 1 : b % 2 = 1}
Fields(w) == {<<0, 0>>, <<2, 5>>, <<w - 1, w - 1>>, <<0, w - 1>>}
Aligned(w) == {r \in Bytes : r % (w \div 8) = 0 /\ r + w \div 8 - 1 \in Bytes}

RegisterOps == {"Read", "Write", "Or", "And", "AndThenOr"}
FieldOps == {"BitFieldRead", "BitFieldWrite", "BitFieldOr", "BitFieldAnd", "BitFieldAndThenOr"}
BufferOps == {"ReadBuffer", "WriteBuffer"}
Reads(c) == c.op \in {"Read", "BitFieldRead", "ReadBuffer"}

AccessCall(op, a, reg, size, field) ==
  [op |-> op, a |-> a, reg |-> reg, size |-> size, first |-> field[1], last |-> field[2],
   data |-> Data(8 * size), orData |-> {1}]

CallsOf(w) ==
  { AccessCall(op, a, reg, w \div 8, <<0, w - 1>>) :
      op \in RegisterOps, a \in Addresses, reg \in Aligned(w) }
  \cup { AccessCall(op, a, reg, w \div 8, field) :
      op \in FieldOps, a \in Addresses, reg \in Aligned(w), field \in Fields(w) }

\* PciSegmentRead8 to PciSegmentBitFieldAndThenOr8, and so on.
Calls8 == CallsOf(8)
Calls16 == CallsOf(16)
Calls32 == CallsOf(32)

BufferCalls ==
  { AccessCall(op, a, reg, size, <<0, 0>>) :
      op \in BufferOps, a \in {[bus |-> b, dev |-> 0, fn |-> 0] : b \in {0, 1}},
      reg \in Bytes, size \in 0..MaxSize }

InBytes(c) == c.reg..c.reg + c.size - 1 \subseteq Bytes

-----------------------------------------------------------------------------
InitialConfig == [f \in ConfigFunctions |-> {b \in AllBytes : (b \div (1 + f.bus + f.fn)) % 2 = 0}]

\* "at" is how many bytes of the buffer are done, "value" what has been read.
Idle == [pc |-> "idle"]
ConfigInit == config = InitialConfig /\ access = Idle /\ cycles = <<>>

ConfigCall ==
  /\ access = Idle
  /\ \E c \in Calls8 \cup Calls16 \cup Calls32 \cup BufferCalls :
       InBytes(c) /\ access' = [pc |-> IF c.op \in BufferOps THEN "buffer" ELSE "register",
                                c |-> c, at |-> 0, value |-> {}]
  /\ UNCHANGED <<config, cycles>>

Cycle(kind, reg, w) == cycles' = Append(cycles, [kind |-> kind, reg |-> reg, w |-> w])

\* PciSegmentRead8, 16 and 32, alone or as the first half of the others.
PciSegmentRead ==
  /\ access.pc = "register" /\ access.c.op # "Write"
  /\ LET c == access.c
         v == PciSegmentLibReadWorker(c.a, c.reg, 8 * c.size) IN
     access' = [access EXCEPT !.pc = IF Reads(c) THEN "done" ELSE "modify",
                              !.value = IF c.op = "BitFieldRead"
                                        THEN BitFieldRead(v, c.first, c.last) ELSE v]
  /\ Cycle("read", access.c.reg, 8 * access.c.size)
  /\ UNCHANGED config

\* PciSegmentWrite8, 16 and 32, alone or as the second half.
PciSegmentWrite ==
  /\ access.pc = "modify" \/ (access.pc = "register" /\ access.c.op = "Write")
  /\ LET c == access.c
         v == IF c.op = "Write" THEN c.data ELSE Modified(c, access.value) IN
     config' = PciSegmentLibWriteWorker(c.a, c.reg, 8 * c.size, v)
  /\ Cycle("write", access.c.reg, 8 * access.c.size)
  /\ access' = [access EXCEPT !.pc = "done"]

-----------------------------------------------------------------------------
(***************************************************************************)
(* PciSegmentReadBuffer and PciSegmentWriteBuffer: a byte and a word up to *)
(* the next double word, double words, and what is left.                   *)
(***************************************************************************)
\* mutant: the address a piece begins at is not looked at
SizeOnlyWidth(at, left) == IF left < 2 THEN 8 ELSE IF left < 4 THEN 16 ELSE 32

BufferWidth(at, left) ==
  IF at % 2 = 1 \/ left < 2 THEN 8 ELSE IF at % 4 = 2 \/ left < 4 THEN 16 ELSE 32

BufferCycle(kind, piece) ==
  /\ access.pc = "buffer" /\ access.at < access.c.size
  /\ Cycle(kind, access.c.reg + access.at, piece)

Piece == BufferWidth(access.c.reg + access.at, access.c.size - access.at)

PciSegmentReadBuffer ==
  /\ access.pc = "buffer" /\ access.c.op = "ReadBuffer"
  /\ BufferCycle("read", Piece)
  /\ access' = [access EXCEPT !.at = @ + Piece \div 8,
                  !.value = @ \cup At(8 * access.at, PciSegmentLibReadWorker(access.c.a,
                                                       access.c.reg + access.at, Piece))]
  /\ UNCHANGED config

PciSegmentWriteBuffer ==
  /\ access.pc = "buffer" /\ access.c.op = "WriteBuffer"
  /\ BufferCycle("write", Piece)
  /\ config' = PciSegmentLibWriteWorker(access.c.a, access.c.reg + access.at, Piece,
                 {b \in 0..Piece - 1 : 8 * access.at + b \in access.c.data})
  /\ access' = [access EXCEPT !.at = @ + Piece \div 8]

BufferReturns ==
  /\ access.pc = "buffer" /\ access.at = access.c.size
  /\ access' = [access EXCEPT !.pc = "done"]
  /\ UNCHANGED <<config, cycles>>

ConfigNext ==
  ConfigCall \/ PciSegmentRead \/ PciSegmentWrite \/ PciSegmentReadBuffer
    \/ PciSegmentWriteBuffer \/ BufferReturns

-----------------------------------------------------------------------------
\* The function a call names, and the bits of it that it names.
Named(a) == IF a.dev = 0 /\ (a.bus = 1 \/ a.fn = 0) THEN [bus |-> a.bus, fn |-> a.fn] ELSE Nothing
Exists(c) == Named(c.a) \in ConfigFunctions
NamedBits(c) == {8 * c.reg + b : b \in 0..8 * c.size - 1}

\* A BAR of the root port is 0 to whoever reads all of it.
Hidden(c) == UNION { Register(r, 32) : r \in {r \in HiddenBars : c.a.bus = 0 /\ r >= c.reg
                                                              /\ r + 4 <= c.reg + c.size} }
Seen(c) == {b \in 0..8 * c.size - 1 :
              Exists(c) => 8 * c.reg + b \in InitialConfig[Named(c.a)] \ Hidden(c)}

\* The bits a call may change.
Changes(c) == IF c.op \in FieldOps THEN At(8 * c.reg, Field(c.first, c.last)) ELSE NamedBits(c)

(* Whatever a call is made of - one cycle, a read and a write, a row of    *)
(* bytes, words and double words - it reads or writes exactly the bytes it *)
(* names, of the function it names, in aligned cycles, each once; the rest *)
(* of a register is written back as it was read; and a device that is not  *)
(* there reads as all ones and takes nothing.  PciSegmentLib's workers and *)
(* the windows PciSetupAtu opens have to agree for this.                   *)
AccessExact ==
  access # Idle =>
    LET c == access.c IN
    /\ \A i \in DOMAIN cycles :
         /\ cycles[i].reg % (cycles[i].w \div 8) = 0
         /\ Register(cycles[i].reg, cycles[i].w) \subseteq NamedBits(c)
         /\ \A j \in 1..i - 1 : cycles[j].kind = cycles[i].kind =>
              Register(cycles[i].reg, cycles[i].w) \cap Register(cycles[j].reg, cycles[j].w) = {}
    /\ \A f \in ConfigFunctions :
         f # Named(c.a) \/ Reads(c) => config[f] = InitialConfig[f]
    /\ access.pc = "done" /\ Reads(c) =>
         access.value = IF c.op = "BitFieldRead" THEN BitFieldRead(Seen(c), c.first, c.last) ELSE Seen(c)
    /\ access.pc = "done" /\ ~Reads(c) /\ Exists(c) =>
         LET new == config[Named(c.a)] IN
         /\ new \ NamedBits(c) = InitialConfig[Named(c.a)] \ NamedBits(c)
         /\ (new \cap NamedBits(c)) \ Changes(c) = At(8 * c.reg, Seen(c)) \ Changes(c)
         /\ c.op \in {"Write", "WriteBuffer"} => new \cap NamedBits(c) = At(8 * c.reg, c.data)
=============================================================================
