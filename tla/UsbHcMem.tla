------------------------------ MODULE UsbHcMem ------------------------------
(***************************************************************************)
(* The memory pool of OhciDxe (UsbHcMem.c): a list of DMA buffers, each     *)
(* with a bit per unit of 64 bytes, from which the endpoint and transfer     *)
(* descriptors of the controller are taken.                                *)
(*                                                                         *)
(* The pool has no lock.  A call is one step, except that an allocation can  *)
(* be interrupted between the search for free units and the marking of them, *)
(* by calls of a timer at TPL_NOTIFY, if Preempt says that the transfer     *)
(* calls are also made below that TPL.                                      *)
(***************************************************************************)
EXTENDS Integers, Sequences

CONSTANTS
  Blocks,         \* DMA buffers the platform can provide
  Requests,       \* sizes asked for, in units; OhciDxe asks for one unit
  UnitsPerPage,
  USBHC_MEM_DEFAULT_PAGES,
  NoPlace,        \* no allocation is in progress
  Preempt         \* allocations can be interrupted

ASSUME SizeAssumption ==
  /\ Requests \subseteq Nat \ {0}
  /\ UnitsPerPage \in Nat \ {0}
  /\ USBHC_MEM_DEFAULT_PAGES \in Nat \ {0}
  /\ Preempt \in BOOLEAN

VARIABLES
  pool,      \* the blocks in the order of the list, the head first
  bitsLen,   \* units of each block
  bits,      \* units of each block that are marked as allocated
  live,      \* what callers hold: block, first unit and number of units
  found      \* the place an allocation has found but not yet marked

vars == <<pool, bitsLen, bits, live, found>>

Listed == {pool[i] : i \in DOMAIN pool}
Units(m) == m.start .. m.start + m.n - 1
Place(b, s, n) == [block |-> b, start |-> s, n |-> n]
Callable == pool # <<>> /\ (found = NoPlace \/ Preempt)

-----------------------------------------------------------------------------
(* UsbHcAllocMemFromBlock: the first run of n clear bits                     *)
\* mutant: a run may reach one unit past the end of the block
IsFreeOneTooMany(b, s, n) ==
  s + n <= bitsLen[b] + 1 /\ (s .. s + n - 1) \cap bits[b] = {}
IsFree(b, s, n) ==
  s + n <= bitsLen[b] /\ (s .. s + n - 1) \cap bits[b] = {}

IsFirstFree(b, s, n) ==
  IsFree(b, s, n) /\ \A t \in 0 .. s - 1 : ~ IsFree(b, t, n)

HasRoom(b, n) == \E s \in 0 .. bitsLen[b] : IsFree(b, s, n)

(* the search of UsbHcAllocateMem: the first block of the list with room     *)
IsPlace(b, s, n) ==
  \E i \in DOMAIN pool :
    /\ b = pool[i]
    /\ \A j \in 1 .. i - 1 : ~ HasRoom(pool[j], n)
    /\ IsFirstFree(b, s, n)

Mark(m) ==
  /\ bits' = [bits EXCEPT ![m.block] = @ \cup Units(m)]
  /\ live' = live \cup {m}

-----------------------------------------------------------------------------
(* A block: its pages are allocated and mapped together, and given back      *)
(* together.                                                               *)
UsbHcAllocMemBlock(b, pages) == bitsLen' = [bitsLen EXCEPT ![b] = pages * UnitsPerPage]
UsbHcFreeMemBlock(b) == bitsLen' = [bitsLen EXCEPT ![b] = 0]

UsbHcInitMemPool ==
  /\ pool = <<>>
  /\ \E b \in Blocks :
       /\ pool' = <<b>>
       /\ UsbHcAllocMemBlock(b, USBHC_MEM_DEFAULT_PAGES)
       /\ bits' = [bits EXCEPT ![b] = {}]
  /\ UNCHANGED <<live, found>>

(* OhciFreeDev gives the pool up with the descriptors still in it            *)
UsbHcFreeMemPool ==
  /\ pool # <<>> /\ found = NoPlace
  /\ pool' = <<>>
  /\ bitsLen' = [b \in Blocks |-> 0]
  /\ bits' = [b \in Blocks |-> {}]
  /\ live' = {}
  /\ UNCHANGED found

UsbHcAllocMemFromBlock(n) ==
  /\ Callable
  /\ \E b \in Listed : \E s \in 0 .. bitsLen[b] :
       IsPlace(b, s, n) /\ Mark(Place(b, s, n))
  /\ UNCHANGED <<pool, bitsLen, found>>

(* the same by a caller that can be interrupted                             *)
FindUnits(n) ==
  /\ pool # <<>> /\ found = NoPlace
  /\ \E b \in Listed : \E s \in 0 .. bitsLen[b] :
       IsPlace(b, s, n) /\ found' = Place(b, s, n)
  /\ UNCHANGED <<pool, bitsLen, bits, live>>

MarkUnits ==
  /\ found # NoPlace
  /\ Mark(found)
  /\ found' = NoPlace
  /\ UNCHANGED <<pool, bitsLen>>

(* UsbHcAllocateMem without room in any block: a new one behind the head.    *)
(* If there is no memory for it the call returns NULL and changes nothing.  *)
Pages(n) ==
  IF n > USBHC_MEM_DEFAULT_PAGES * UnitsPerPage
  THEN (n + UnitsPerPage - 1) \div UnitsPerPage + 1
  ELSE USBHC_MEM_DEFAULT_PAGES

UsbHcInsertMemBlockToPool(b) == pool' = <<Head(pool), b>> \o Tail(pool)

UsbHcAllocateMem(n) ==
  /\ Callable
  /\ \A b \in Listed : ~ HasRoom(b, n)
  /\ \E b \in Blocks \ Listed :
       /\ UsbHcInsertMemBlockToPool(b)
       /\ UsbHcAllocMemBlock(b, Pages(n))
       /\ bits' = [bits EXCEPT ![b] = 0 .. n - 1]
       /\ live' = live \cup {Place(b, 0, n)}
  /\ UNCHANGED found

(* UsbHcFreeMem inverts the bits and frees a block that is empty then,       *)
(* unless it is the head of the list.                                      *)
Inverted(S, T) == (S \cup T) \ (S \cap T)
BitsAfter(m) == Inverted(bits[m.block], Units(m))

Releases(m) == m.block # Head(pool) /\ BitsAfter(m) = {}

(* UsbHcUnlinkMemBlock and UsbHcFreeMemBlock                                *)
Release(b) ==
  /\ \E i \in DOMAIN pool :
       /\ pool[i] = b
       /\ pool' = [j \in 1 .. Len(pool) - 1 |-> pool[IF j < i THEN j ELSE j + 1]]
  /\ UsbHcFreeMemBlock(b)

UsbHcFreeMem(m) ==
  /\ Callable
  /\ m.block \in Listed
  /\ live' = live \ {m}
  /\ bits' = [bits EXCEPT ![m.block] = BitsAfter(m)]
  /\ IF Releases(m) THEN Release(m.block) ELSE UNCHANGED <<pool, bitsLen>>
  /\ UNCHANGED found

-----------------------------------------------------------------------------
Init ==
  /\ pool = <<>>
  /\ bitsLen = [b \in Blocks |-> 0]
  /\ bits = [b \in Blocks |-> {}]
  /\ live = {}
  /\ found = NoPlace

Next ==
  \/ UsbHcInitMemPool \/ UsbHcFreeMemPool
  \/ \E n \in Requests :
       UsbHcAllocMemFromBlock(n) \/ FindUnits(n) \/ UsbHcAllocateMem(n)
  \/ MarkUnits
  \/ \E m \in live : UsbHcFreeMem(m)

Spec == Init /\ [][Next]_vars

-----------------------------------------------------------------------------
Memory == [block : Blocks, start : Nat, n : Requests]

TypeOK ==
  /\ pool \in Seq(Blocks)
  /\ bitsLen \in [Blocks -> Nat]
  /\ bits \in [Blocks -> SUBSET Nat]
  /\ live \subseteq Memory
  /\ found \in Memory \cup {NoPlace}

(* What two callers hold never overlaps, lies within one block of the list,  *)
(* and is exactly what the bits of the blocks say: no descriptor is handed    *)
(* out twice (the assertion at UsbHcMem.c:192) and none is lost.             *)
PoolAccount ==
  /\ \A m \in live : m.block \in Listed /\ Units(m) \subseteq 0 .. bitsLen[m.block] - 1
  /\ \A m1, m2 \in live :
       m1 # m2 /\ m1.block = m2.block => Units(m1) \cap Units(m2) = {}
  /\ \A b \in Listed : bits[b] = UNION {Units(m) : m \in {l \in live : l.block = b}}

(* Memory goes back to the platform: only the head of the list can be        *)
(* without an allocation (UsbHcFreeMem).                                    *)
OnlyHeadEmpty ==
  \A i \in 2 .. Len(pool) : \E m \in live : m.block = pool[i]
=============================================================================
