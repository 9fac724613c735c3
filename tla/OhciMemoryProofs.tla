-------------------------- MODULE OhciMemoryProofs --------------------------
(***************************************************************************)
(* Proofs about what OhciDxe shares with the controller in memory: the     *)
(* pool its descriptors come from, and the tree of the EDs that are polled *)
(* at an interval.                                                         *)
(*                                                                         *)
(* The pool is proved for any blocks and sizes, when allocations are not   *)
(* interrupted.  PoolAccount is not inductive as it stands: the place an   *)
(* allocation has found must still be free when it is marked, and a block  *)
(* must be listed once, or it would be used after one of its two entries   *)
(* is released.                                                            *)
(*                                                                         *)
(* The interrupt transfers are proved for any set of endpoints, intervals  *)
(* and lengths of a transfer.  That an ED is polled in time follows the    *)
(* tree level by level: a node of level k is on 1 in 2^k of the 32 lists.  *)
(* That the packets keep their toggle needs what the controller leaves in  *)
(* the ED after each TD (TdsRetired), and what the caller's toggle was     *)
(* before the call (InStep).                                               *)
(***************************************************************************)
EXTENDS UsbHcMem, OhciPeriodic, TLAPS, FiniteSetTheorems, SequenceTheorems,
        WellFoundedInduction

Held(b) == UNION {Units(m) : m \in {l \in live : l.block = b}}

ListedOnce == \A i, j \in DOMAIN pool : pool[i] = pool[j] => i = j

FoundFree ==
  found # NoPlace =>
    found.block \in Listed /\ IsFree(found.block, found.start, found.n)

IInv == TypeOK /\ ListedOnce /\ PoolAccount /\ FoundFree

-----------------------------------------------------------------------------
(* The bits of a block, without sets of sets.                               *)
LEMMA HeldElements ==
  ASSUME NEW b
  PROVE  \A u : u \in Held(b) <=> \E m \in live : m.block = b /\ u \in Units(m)
BY DEF Held

(* A new block behind the head is one more block of the list.               *)
LEMMA InsertLists ==
  ASSUME pool \in Seq(Blocks), pool # <<>>, ListedOnce, NEW b \in Blocks \ Listed,
         UsbHcInsertMemBlockToPool(b)
  PROVE  pool' \in Seq(Blocks) /\ Listed' = Listed \cup {b} /\ ListedOnce'
<1>1. Len(pool) \in Nat \ {0} /\ DOMAIN pool = 1 .. Len(pool)
  OBVIOUS
<1>2. /\ pool' \in Seq(Blocks) /\ Len(pool') = Len(pool) + 1
      /\ DOMAIN pool' = 1 .. Len(pool) + 1
      /\ pool'[1] = pool[1] /\ pool'[2] = b
      /\ \A i \in 3 .. Len(pool) + 1 : pool'[i] = pool[i - 1]
  BY <1>1 DEF UsbHcInsertMemBlockToPool
<1>3. Listed' = Listed \cup {b}
  <2>1. ASSUME NEW i \in DOMAIN pool' PROVE pool'[i] \in Listed \cup {b}
    <3>1. CASE i = 1  BY <3>1, <1>1, <1>2 DEF Listed
    <3>2. CASE i = 2  BY <3>2, <1>2
    <3>3. CASE i # 1 /\ i # 2
      <4>1. i - 1 \in DOMAIN pool /\ pool'[i] = pool[i - 1]
        BY <3>3, <1>1, <1>2
      <4> QED  BY <4>1 DEF Listed
    <3> QED  BY <3>1, <3>2, <3>3
  <2>2. ASSUME NEW j \in DOMAIN pool PROVE \E i \in DOMAIN pool' : pool'[i] = pool[j]
    <3>1. CASE j = 1  BY <3>1, <1>1, <1>2
    <3>2. CASE j # 1
      <4>1. j + 1 \in 3 .. Len(pool) + 1 /\ pool'[j + 1] = pool[j]
        BY <3>2, <1>1, <1>2
      <4> QED  BY <4>1, <1>2
    <3> QED  BY <3>1, <3>2
  <2>3. \E i \in DOMAIN pool' : pool'[i] = b
    BY <1>1, <1>2
  <2> QED  BY <2>1, <2>2, <2>3 DEF Listed
<1>4. ASSUME NEW i \in DOMAIN pool', NEW j \in DOMAIN pool', pool'[i] = pool'[j]
      PROVE  i = j
  <2> DEFINE was(x) == IF x = 1 THEN 1 ELSE x - 1
  <2>1. \A x \in DOMAIN pool' : x # 2 => was(x) \in DOMAIN pool /\ pool'[x] = pool[was(x)]
    BY <1>1, <1>2
  <2>2. i = 2 <=> j = 2
    BY <1>2, <1>4, <2>1 DEF Listed
  <2>3. CASE i # 2
    <3>1. was(i) = was(j)
      BY <1>4, <2>1, <2>2, <2>3 DEF ListedOnce
    <3> QED  BY <1>2, <2>2, <2>3, <3>1
  <2> QED  BY <2>2, <2>3
<1> QED  BY <1>2, <1>3, <1>4 DEF ListedOnce

(* A block that is released is in the list no more.                         *)
LEMMA ReleaseUnlists ==
  ASSUME pool \in Seq(Blocks), ListedOnce, NEW b \in Listed, Release(b)
  PROVE  pool' \in Seq(Blocks) /\ Listed' = Listed \ {b} /\ ListedOnce'
<1>1. PICK k \in DOMAIN pool :
        /\ pool[k] = b
        /\ pool' = [j \in 1 .. Len(pool) - 1 |-> pool[IF j < k THEN j ELSE j + 1]]
  BY DEF Release
<1>2. Len(pool) \in Nat \ {0} /\ DOMAIN pool = 1 .. Len(pool) /\ k \in 1 .. Len(pool)
  BY <1>1
<1>3. /\ pool' \in Seq(Blocks) /\ DOMAIN pool' = 1 .. Len(pool) - 1
      /\ \A i \in 1 .. Len(pool) - 1 : pool'[i] = IF i < k THEN pool[i] ELSE pool[i + 1]
  BY <1>1, <1>2
<1>4. Listed' = Listed \ {b}
  <2>1. ASSUME NEW i \in DOMAIN pool' PROVE pool'[i] \in Listed \ {b}
    <3>1. CASE i < k  BY <3>1, <1>1, <1>2, <1>3 DEF Listed, ListedOnce
    <3>2. CASE ~ (i < k)  BY <3>2, <1>1, <1>2, <1>3 DEF Listed, ListedOnce
    <3> QED  BY <3>1, <3>2
  <2>2. ASSUME NEW j \in DOMAIN pool, j # k PROVE \E i \in DOMAIN pool' : pool'[i] = pool[j]
    <3>1. CASE j < k
      <4>1. j \in DOMAIN pool' /\ pool'[j] = pool[j]  BY <3>1, <1>2, <1>3
      <4> QED  BY <4>1
    <3>2. CASE j > k
      <4>1. j - 1 \in DOMAIN pool' /\ pool'[j - 1] = pool[j]  BY <3>2, <1>2, <1>3
      <4> QED  BY <4>1
    <3> QED  BY <2>2, <3>1, <3>2, <1>2
  <2>3. ASSUME NEW x \in Listed, x # b PROVE x \in Listed'
    <3>1. PICK j \in DOMAIN pool : pool[j] = x
      BY DEF Listed
    <3>2. PICK i \in DOMAIN pool' : pool'[i] = x
      BY <1>1, <2>2, <2>3, <3>1
    <3> QED  BY <3>2 DEF Listed
  <2>4. ASSUME NEW x \in Listed' PROVE x \in Listed \ {b}
    <3>1. PICK i \in DOMAIN pool' : pool'[i] = x
      BY DEF Listed
    <3> QED  BY <2>1, <3>1
  <2> QED  BY <2>3, <2>4
<1>5. ASSUME NEW i \in DOMAIN pool', NEW j \in DOMAIN pool', pool'[i] = pool'[j]
      PROVE  i = j
  <2> DEFINE was(x) == IF x < k THEN x ELSE x + 1
  <2>1. \A x \in DOMAIN pool' : was(x) \in DOMAIN pool /\ pool'[x] = pool[was(x)]
    BY <1>2, <1>3
  <2>2. was(i) = was(j)
    BY <1>5, <2>1 DEF ListedOnce
  <2> QED  BY <1>2, <1>3, <2>2
<1> QED  BY <1>3, <1>4, <1>5 DEF ListedOnce

-----------------------------------------------------------------------------
(* The three parts of PoolAccount, the last one unit by unit.                *)
Within == \A m \in live : m.block \in Listed /\ Units(m) \subseteq 0 .. bitsLen[m.block] - 1
Disjoint ==
  \A m1, m2 \in live :
    m1 # m2 /\ m1.block = m2.block => Units(m1) \cap Units(m2) = {}
Accounted ==
  \A b \in Listed : \A u :
    u \in bits[b] <=> \E m \in live : m.block = b /\ u \in Units(m)

LEMMA AccountParts == PoolAccount <=> Within /\ Disjoint /\ Accounted
<1>1. ASSUME NEW b \in Listed
      PROVE  bits[b] = Held(b)
               <=> \A u : u \in bits[b] <=> \E m \in live : m.block = b /\ u \in Units(m)
  <2>1. \A u : u \in Held(b) <=> \E m \in live : m.block = b /\ u \in Units(m)
    BY HeldElements
  <2> QED  BY <2>1
<1>2. (\A b \in Listed : bits[b] = Held(b)) <=> Accounted
  BY <1>1 DEF Accounted
<1> QED  BY <1>2 DEF PoolAccount, Within, Disjoint, Held

LEMMA AccountPartsNext == PoolAccount' <=> Within' /\ Disjoint' /\ Accounted'
BY AccountParts, PTL

(* Units that are free can be marked: by UsbHcAllocMemFromBlock, and by the   *)
(* interruptible allocation, of the place it found.                        *)
LEMMA MarkKeeps ==
  ASSUME IInv, NEW m \in Memory, m.block \in Listed,
         IsFree(m.block, m.start, m.n), Mark(m), UNCHANGED <<pool, bitsLen>>
  PROVE  /\ bits' \in [Blocks -> SUBSET Nat] /\ live' \subseteq Memory
         /\ ListedOnce' /\ PoolAccount'
<1>1. TypeOK /\ Within /\ Disjoint /\ Accounted /\ m.block \in Blocks
  BY AccountParts DEF IInv, TypeOK, Memory
<1>2. Units(m) \subseteq 0 .. bitsLen[m.block] - 1 /\ Units(m) \cap bits[m.block] = {}
  <2>1. m.start \in Nat /\ m.n \in Nat /\ bitsLen[m.block] \in Nat
    BY <1>1, SizeAssumption DEF Memory, TypeOK, SizeAssumption
  <2> QED  BY <2>1 DEF IsFree, Units
<1>3. Units(m) \subseteq Nat
  BY <1>2
<1>4. bits' \in [Blocks -> SUBSET Nat] /\ live' \subseteq Memory
  BY <1>1, <1>3 DEF Mark, TypeOK
<1>5. ListedOnce' /\ Listed' = Listed
  BY DEF IInv, ListedOnce, Listed
<1>6. Within'
  BY <1>1, <1>2, <1>5 DEF Within, Mark, Units
<1>7. \A l \in live : l.block = m.block => Units(l) \cap Units(m) = {}
  BY <1>1, <1>2 DEF Accounted
<1>8. Disjoint'
  BY <1>1, <1>7 DEF Disjoint, Mark, Units
<1>9. Accounted'
  <2>1. ASSUME NEW b \in Listed, NEW u
        PROVE  u \in bits'[b] <=> \E l \in live' : l.block = b /\ u \in Units(l)
    <3>1. CASE b = m.block
      BY <1>1, <3>1 DEF Accounted, Mark, TypeOK
    <3>2. CASE b # m.block
      BY <1>1, <3>2 DEF Accounted, Mark, TypeOK
    <3> QED  BY <3>1, <3>2
  <2> QED  BY <2>1, <1>5 DEF Accounted, Units
<1> QED  BY <1>4, <1>5, <1>6, <1>8, <1>9, AccountPartsNext

LEMMA InitInvariant == Init => IInv
<1> SUFFICES ASSUME Init PROVE IInv
  OBVIOUS
<1>1. TypeOK
  BY DEF Init, TypeOK
<1> QED  BY <1>1 DEF Init, IInv, ListedOnce, PoolAccount, FoundFree, Listed

LEMMA NextInvariant == ~ Preempt /\ IInv /\ [Next]_vars => IInv'
<1> SUFFICES ASSUME ~ Preempt, IInv, [Next]_vars PROVE IInv'
  OBVIOUS
<1> USE SizeAssumption
<1>1. TypeOK /\ ListedOnce /\ Within /\ Disjoint /\ Accounted /\ FoundFree
  BY AccountParts DEF IInv
<1>2. CASE UsbHcInitMemPool
  <2>1. PICK b \in Blocks :
          /\ pool' = <<b>>
          /\ bitsLen' = [bitsLen EXCEPT ![b] = USBHC_MEM_DEFAULT_PAGES * UnitsPerPage]
          /\ bits' = [bits EXCEPT ![b] = {}]
    BY <1>2 DEF UsbHcInitMemPool, UsbHcAllocMemBlock
  <2>2. live = {} /\ live' = {} /\ found' = found /\ found = NoPlace
    BY <1>1, <1>2 DEF UsbHcInitMemPool, Within, Listed, FoundFree, UsbHcAllocMemBlock
  <2>3. USBHC_MEM_DEFAULT_PAGES * UnitsPerPage \in Nat
    BY DEF SizeAssumption
  <2>4. TypeOK'
    BY <1>1, <2>1, <2>2, <2>3 DEF TypeOK
  <2>5. Listed' = {b} /\ ListedOnce'
    BY <2>1 DEF Listed, ListedOnce
  <2>6. Within' /\ Disjoint' /\ Accounted'
    BY <1>1, <2>1, <2>2, <2>5 DEF Within, Disjoint, Accounted, TypeOK
  <2> QED  BY <2>2, <2>4, <2>5, <2>6, AccountPartsNext DEF IInv, FoundFree
<1>3. CASE UsbHcFreeMemPool
  <2>1. TypeOK'
    BY <1>1, <1>3 DEF UsbHcFreeMemPool, TypeOK
  <2>2. ListedOnce' /\ Within' /\ Disjoint' /\ Accounted' /\ FoundFree'
    BY <1>3 DEF UsbHcFreeMemPool, ListedOnce, Listed, Within, Disjoint, Accounted, FoundFree
  <2> QED  BY <2>1, <2>2, AccountPartsNext DEF IInv
<1>4. ASSUME NEW n \in Requests, UsbHcAllocMemFromBlock(n)
      PROVE  IInv'
  <2>0. PICK b \in Listed : \E s \in 0 .. bitsLen[b] :
          IsPlace(b, s, n) /\ Mark(Place(b, s, n))
    BY <1>4 DEF UsbHcAllocMemFromBlock
  <2>1. PICK s \in 0 .. bitsLen[b] : IsPlace(b, s, n) /\ Mark(Place(b, s, n))
    BY <2>0
  <2>2. Place(b, s, n) \in Memory /\ IsFree(b, s, n)
    <3>1. b \in Blocks /\ bitsLen[b] \in Nat
      BY <1>1 DEF TypeOK, Listed
    <3> QED  BY <2>1, <3>1 DEF Place, Memory, IsPlace, IsFirstFree
  <2>3. found = NoPlace /\ UNCHANGED <<pool, bitsLen, found>>
    BY <1>4 DEF UsbHcAllocMemFromBlock, Callable
  <2>4. /\ bits' \in [Blocks -> SUBSET Nat] /\ live' \subseteq Memory
        /\ ListedOnce' /\ PoolAccount'
    <3>1. Place(b, s, n).block = b /\ Place(b, s, n).start = s /\ Place(b, s, n).n = n
      BY DEF Place
    <3> QED  BY <2>1, <2>2, <2>3, <3>1, MarkKeeps
  <2> QED  BY <1>1, <2>3, <2>4 DEF IInv, TypeOK, FoundFree
<1>5. ASSUME NEW n \in Requests, FindUnits(n)
      PROVE  IInv'
  <2>0. PICK b \in Listed : \E s \in 0 .. bitsLen[b] :
          IsPlace(b, s, n) /\ found' = Place(b, s, n)
    BY <1>5 DEF FindUnits
  <2>1. PICK s \in 0 .. bitsLen[b] : IsPlace(b, s, n) /\ found' = Place(b, s, n)
    BY <2>0
  <2>2. Place(b, s, n) \in Memory /\ IsFree(b, s, n)
    <3>1. b \in Blocks /\ bitsLen[b] \in Nat
      BY <1>1 DEF TypeOK, Listed
    <3> QED  BY <2>1, <3>1 DEF Place, Memory, IsPlace, IsFirstFree
  <2>3. TypeOK' /\ ListedOnce' /\ PoolAccount'
    <3>1. UNCHANGED <<pool, bitsLen, bits, live>>
      BY <1>5 DEF FindUnits
    <3>2. TypeOK'
      BY <1>1, <2>1, <2>2, <3>1 DEF TypeOK
    <3>3. ListedOnce' /\ Listed' = Listed
      BY <1>1, <3>1 DEF ListedOnce, Listed
    <3>4. Within' /\ Disjoint' /\ Accounted'
      BY <1>1, <3>1, <3>3 DEF Within, Disjoint, Accounted, Units
    <3> QED  BY <3>2, <3>3, <3>4, AccountPartsNext
  <2>4. FoundFree'
    BY <1>5, <2>1, <2>2 DEF FindUnits, FoundFree, Listed, IsFree, Place
  <2> QED  BY <2>3, <2>4 DEF IInv
<1>6. ASSUME NEW n \in Requests, UsbHcAllocateMem(n)
      PROVE  IInv'
  <2>1. PICK b \in Blocks \ Listed :
          /\ pool' = <<Head(pool), b>> \o Tail(pool)
          /\ bitsLen' = [bitsLen EXCEPT ![b] = Pages(n) * UnitsPerPage]
          /\ bits' = [bits EXCEPT ![b] = 0 .. n - 1]
          /\ live' = live \cup {Place(b, 0, n)}
    BY <1>6 DEF UsbHcAllocateMem, UsbHcInsertMemBlockToPool, UsbHcAllocMemBlock
  <2>2. found = NoPlace /\ found' = NoPlace /\ pool # <<>>
    BY <1>6 DEF UsbHcAllocateMem, Callable
  <2>3. /\ pool' \in Seq(Blocks) /\ Listed' = Listed \cup {b} /\ ListedOnce'
    BY <1>1, <1>6, <2>1, <2>2, InsertLists DEF TypeOK, UsbHcAllocateMem, UsbHcInsertMemBlockToPool
  <2>4. Pages(n) * UnitsPerPage \in Nat /\ n <= Pages(n) * UnitsPerPage
    <3>1. n \in Nat \ {0} /\ UnitsPerPage \in Nat \ {0}
      BY DEF SizeAssumption
    <3> DEFINE q == (n + UnitsPerPage - 1) \div UnitsPerPage
    <3>2. q \in Nat /\ n <= q * UnitsPerPage
      BY <3>1, Z3
    <3>3. CASE n > USBHC_MEM_DEFAULT_PAGES * UnitsPerPage
      <4>1. Pages(n) = q + 1
        BY <3>3 DEF Pages
      <4> HIDE DEF q
      <4> QED  BY <3>1, <3>2, <4>1, Z3
    <3>4. CASE ~ (n > USBHC_MEM_DEFAULT_PAGES * UnitsPerPage)
      BY <3>1, <3>4 DEF Pages, SizeAssumption
    <3> QED  BY <3>3, <3>4
  <2>5. n \in Nat \ {0} /\ 0 .. n - 1 \subseteq Nat
    BY DEF SizeAssumption
  <2>6. Place(b, 0, n) \in Memory /\ Units(Place(b, 0, n)) = 0 .. n - 1
    BY <2>5 DEF Place, Memory, Units
  <2>7. TypeOK'
    BY <1>1, <2>1, <2>2, <2>3, <2>4, <2>5, <2>6 DEF TypeOK
  <2>8. \A m \in live : m.block # b
    BY <1>1, <2>1 DEF Within
  <2>9. Within'
    BY <1>1, <2>1, <2>3, <2>4, <2>5, <2>6, <2>8 DEF Within, TypeOK, Place, Units
  <2>10. Disjoint'
    BY <1>1, <2>1, <2>8 DEF Disjoint, Place, Units
  <2>11. ASSUME NEW c \in Listed', NEW u
         PROVE  u \in bits'[c] <=> \E m \in live' : m.block = c /\ u \in Units(m)
    <3>1. CASE c = b
      BY <1>1, <2>1, <2>6, <2>8, <3>1 DEF TypeOK, Place
    <3>2. CASE c # b
      BY <1>1, <2>1, <2>3, <3>2 DEF Accounted, TypeOK, Place
    <3> QED  BY <3>1, <3>2
  <2>12. Accounted'
    BY <2>11 DEF Accounted, Units
  <2> QED  BY <2>2, <2>3, <2>7, <2>9, <2>10, <2>12, AccountPartsNext DEF IInv, FoundFree
<1>7. CASE MarkUnits
  <2>1. found \in Memory /\ found.block \in Listed /\ IsFree(found.block, found.start, found.n)
    BY <1>1, <1>7 DEF MarkUnits, FoundFree, TypeOK
  <2>2. /\ bits' \in [Blocks -> SUBSET Nat] /\ live' \subseteq Memory
        /\ ListedOnce' /\ PoolAccount'
    BY <1>7, <2>1, MarkKeeps DEF MarkUnits
  <2> QED  BY <1>1, <1>7, <2>2 DEF MarkUnits, IInv, TypeOK, FoundFree
<1>8. ASSUME NEW m \in live, UsbHcFreeMem(m)
      PROVE  IInv'
  <2>1. /\ found = NoPlace /\ found' = NoPlace /\ pool # <<>>
        /\ m.block \in Listed /\ m \in Memory /\ m.block \in Blocks
        /\ live' = live \ {m}
        /\ bits' = [bits EXCEPT ![m.block] = BitsAfter(m)]
    BY <1>1, <1>8 DEF UsbHcFreeMem, Callable, TypeOK, Memory
  <2>2. BitsAfter(m) = bits[m.block] \ Units(m)
    <3>1. Units(m) \subseteq bits[m.block]
      BY <1>1, <2>1 DEF Accounted
    <3> QED  BY <3>1 DEF BitsAfter, Inverted
  <2>3. ASSUME NEW b \in Listed, NEW u
        PROVE  u \in bits'[b] <=> \E l \in live' : l.block = b /\ u \in Units(l)
    <3>1. CASE b = m.block
      BY <1>1, <2>1, <2>2, <3>1 DEF Accounted, Disjoint, TypeOK
    <3>2. CASE b # m.block
      BY <1>1, <2>1, <3>2 DEF Accounted, TypeOK
    <3> QED  BY <3>1, <3>2
  <2>4. bits' \in [Blocks -> SUBSET Nat] /\ live' \subseteq Memory
    BY <1>1, <2>1, <2>2 DEF TypeOK
  <2>5. Disjoint'
    BY <1>1, <2>1 DEF Disjoint, Units
  <2>6. CASE Releases(m)
    <3>1. Release(m.block)
      BY <1>8, <2>6 DEF UsbHcFreeMem
    <3>2. bitsLen' = [bitsLen EXCEPT ![m.block] = 0]
      BY <3>1 DEF Release, UsbHcFreeMemBlock
    <3>3. pool' \in Seq(Blocks) /\ Listed' = Listed \ {m.block} /\ ListedOnce'
      BY <1>1, <2>1, <3>1, ReleaseUnlists DEF TypeOK
    <3>4. \A l \in live' : l.block # m.block
      <4>1. ASSUME NEW l \in live', l.block = m.block PROVE FALSE
        <5>0. l.start \in Nat /\ l.n \in Nat \ {0}
          BY <1>1, <2>1 DEF TypeOK, Memory, SizeAssumption
        <5>1. l.start \in Units(l)
          BY <5>0 DEF Units
        <5>2. l.start \in bits'[m.block]
          BY <2>1, <2>3, <4>1, <5>1
        <5> QED  BY <1>1, <2>1, <2>6, <5>2 DEF Releases, TypeOK
      <4> QED  BY <4>1
    <3>5. TypeOK'
      BY <1>1, <2>1, <2>4, <3>2, <3>3 DEF TypeOK
    <3>6. Within' /\ Accounted'
      BY <1>1, <2>1, <2>3, <3>2, <3>3, <3>4 DEF Within, Accounted, TypeOK, Units, Memory
    <3> QED  BY <2>1, <2>5, <3>3, <3>5, <3>6, AccountPartsNext DEF IInv, FoundFree
  <2>7. CASE ~ Releases(m)
    <3>1. UNCHANGED <<pool, bitsLen>>
      BY <1>8, <2>7 DEF UsbHcFreeMem
    <3>2. Listed' = Listed /\ ListedOnce' /\ TypeOK'
      BY <1>1, <2>1, <2>4, <3>1 DEF Listed, ListedOnce, TypeOK
    <3>3. Within' /\ Accounted'
      BY <1>1, <2>1, <2>3, <3>1, <3>2 DEF Within, Accounted, Units
    <3> QED  BY <2>1, <2>5, <3>2, <3>3, AccountPartsNext DEF IInv, FoundFree
  <2> QED  BY <2>6, <2>7
<1>9. CASE UNCHANGED vars
  BY <1>9 DEF vars, IInv, TypeOK, ListedOnce, PoolAccount, FoundFree, Listed, IsFree, Units
<1> QED  BY <1>2, <1>3, <1>4, <1>5, <1>6, <1>7, <1>8, <1>9 DEF Next

(* The pool never hands a unit out twice and never loses one, in blocks of    *)
(* any size and for requests of any size (UsbHcAllocateMem, UsbHcFreeMem).  *)
THEOREM PoolAccounted == ASSUME ~ Preempt PROVE Spec => []PoolAccount
<1>1. IInv => PoolAccount
  BY DEF IInv
<1>2. IInv /\ [Next]_vars => IInv'
  BY NextInvariant
<1> QED  BY InitInvariant, <1>1, <1>2, PTL DEF Spec

(* A step of the pool leaves no block empty but the head.                   *)
LEMMA NextOnlyHead == IInv /\ IInv' /\ OnlyHeadEmpty /\ [Next]_vars => OnlyHeadEmpty'
<1> SUFFICES ASSUME IInv, IInv', OnlyHeadEmpty, [Next]_vars PROVE OnlyHeadEmpty'
  OBVIOUS
<1>1. TypeOK /\ ListedOnce /\ Accounted /\ Accounted' /\ pool \in Seq(Blocks)
  BY AccountParts, AccountPartsNext DEF IInv, TypeOK
<1>2. CASE UsbHcInitMemPool \/ UsbHcFreeMemPool
  BY <1>2 DEF UsbHcInitMemPool, UsbHcFreeMemPool, OnlyHeadEmpty
<1>3. CASE \/ \E n \in Requests : UsbHcAllocMemFromBlock(n) \/ FindUnits(n)
           \/ MarkUnits
  <2>1. pool' = pool /\ live \subseteq live'
    BY <1>3 DEF UsbHcAllocMemFromBlock, FindUnits, MarkUnits, Mark
  <2> QED  BY <2>1 DEF OnlyHeadEmpty
<1>4. ASSUME NEW n \in Requests, UsbHcAllocateMem(n)
      PROVE  OnlyHeadEmpty'
  <2>1. PICK b \in Blocks \ Listed :
          pool' = <<Head(pool), b>> \o Tail(pool) /\ live' = live \cup {Place(b, 0, n)}
    BY <1>4 DEF UsbHcAllocateMem, UsbHcInsertMemBlockToPool
  <2>2. pool # <<>> /\ Len(pool) \in Nat \ {0}
    BY <1>1, <1>4 DEF UsbHcAllocateMem, Callable
  <2>3. /\ Len(pool') = Len(pool) + 1 /\ pool'[2] = b
        /\ \A i \in 3 .. Len(pool) + 1 : pool'[i] = pool[i - 1]
    BY <1>1, <2>1, <2>2
  <2>4. ASSUME NEW i \in 2 .. Len(pool') PROVE \E m \in live' : m.block = pool'[i]
    <3>1. CASE i = 2
      <4>1. Place(b, 0, n) \in live' /\ Place(b, 0, n).block = b
        BY <2>1 DEF Place
      <4>2. pool'[i] = b
        BY <2>3, <3>1
      <4> QED  BY <4>1, <4>2
    <3>2. CASE i # 2
      <4>1. i - 1 \in 2 .. Len(pool) /\ pool'[i] = pool[i - 1]
        BY <2>2, <2>3, <3>2
      <4> QED  BY <2>1, <4>1 DEF OnlyHeadEmpty
    <3> QED  BY <3>1, <3>2
  <2> QED  BY <2>4 DEF OnlyHeadEmpty
<1>5. ASSUME NEW m \in live, UsbHcFreeMem(m)
      PROVE  OnlyHeadEmpty'
  <2>1. /\ m.block \in Listed /\ m.block \in Blocks /\ pool # <<>>
        /\ live' = live \ {m} /\ bits' = [bits EXCEPT ![m.block] = BitsAfter(m)]
    BY <1>1, <1>5 DEF UsbHcFreeMem, Callable, Listed, TypeOK
  <2>2. ASSUME NEW i \in 2 .. Len(pool), pool[i] # m.block
        PROVE  \E l \in live' : l.block = pool[i]
    BY <2>1, <2>2 DEF OnlyHeadEmpty
  <2>3. CASE Releases(m)
    <3>1. PICK k \in DOMAIN pool :
            /\ pool[k] = m.block
            /\ pool' = [j \in 1 .. Len(pool) - 1 |-> pool[IF j < k THEN j ELSE j + 1]]
      BY <1>5, <2>3 DEF UsbHcFreeMem, Release
    <3>2. Len(pool) \in Nat \ {0} /\ DOMAIN pool = 1 .. Len(pool)
      BY <1>1, <2>1
    <3>3. Len(pool') = Len(pool) - 1
      BY <3>1, <3>2
    <3>4. ASSUME NEW i \in 2 .. Len(pool') PROVE \E l \in live' : l.block = pool'[i]
      <4> DEFINE j == IF i < k THEN i ELSE i + 1
      <4>1. j \in 2 .. Len(pool) /\ j # k /\ pool'[i] = pool[j]
        BY <3>1, <3>2, <3>3
      <4>2. pool[j] # m.block
        <5>1. j \in DOMAIN pool
          BY <3>2, <4>1
        <5> HIDE DEF j
        <5> QED  BY <1>1, <3>1, <4>1, <5>1 DEF ListedOnce
      <4> QED  BY <2>2, <4>1, <4>2
    <3> QED  BY <3>4 DEF OnlyHeadEmpty
  <2>4. CASE ~ Releases(m)
    <3>1. pool' = pool
      BY <1>5, <2>4 DEF UsbHcFreeMem
    <3>2. ASSUME NEW i \in 2 .. Len(pool), pool[i] = m.block
          PROVE  \E l \in live' : l.block = pool[i]
      <4>1. m.block # Head(pool)
        <5>1. Head(pool) = pool[1] /\ 1 \in DOMAIN pool /\ i \in DOMAIN pool
          BY <1>1, <2>1
        <5> QED  BY <1>1, <3>2, <5>1 DEF ListedOnce
      <4>2. bits'[m.block] # {}
        BY <1>1, <2>1, <2>4, <4>1 DEF Releases, TypeOK
      <4>3. m.block \in Listed'
        BY <2>1, <3>1 DEF Listed
      <4> QED  BY <1>1, <3>2, <4>2, <4>3 DEF Accounted
    <3> QED  BY <2>2, <3>1, <3>2 DEF OnlyHeadEmpty
  <2> QED  BY <2>3, <2>4
<1>6. CASE UNCHANGED vars
  BY <1>6 DEF vars, OnlyHeadEmpty
<1> QED  BY <1>2, <1>3, <1>4, <1>5, <1>6 DEF Next

(* Memory goes back to the platform: no block but the head of the list stays  *)
(* behind without an allocation (UsbHcFreeMem, UsbHcUnlinkMemBlock).        *)
THEOREM EmptyBlocksReleased == ASSUME ~ Preempt PROVE Spec => []OnlyHeadEmpty
<1>1. Init => OnlyHeadEmpty
  BY DEF Init, OnlyHeadEmpty
<1>2. IInv /\ [Next]_vars => IInv'
  BY NextInvariant
<1> QED  BY InitInvariant, NextOnlyHead, <1>1, <1>2, PTL DEF Spec

-----------------------------------------------------------------------------
(* The parts of the invariant of the interrupt transfers.                    *)

\* An ED is in the tree as long as the transfer has one.
EdOfTransfer ==
  \A e \in Endpoints :
    /\ at[e] = NoNode <=> st[e] = "none"
    /\ st[e] = "none" => ~ sync[e]

\* How far the controller is, and what it leaves in the ED.
Retired(e) ==
  /\ st[e] \in {"none", "linked", "built"} => retired[e] = 0
  /\ st[e] = "active" => retired[e] < Tds[e]
  /\ st[e] = "done" => retired[e] = Tds[e]
  /\ retired[e] <= Tds[e]
  /\ retired[e] > 0 => carry[e] = Expected(e)
TdsRetired == \A e \in Endpoints : Retired(e)

\* The packet the device sends is the next one for toggle t, or repeated.
Follows(e, t) == IF repeat[e] THEN devToggle[e] # t ELSE devToggle[e] = t

\* The toggle of the endpoint before and after a call, unless it is skewed.
ToggleInStep(e) ==
  ~ skewed[e] =>
    /\ st[e] = "none" => Follows(e, DataToggle[e])
    /\ st[e] # "none" => Follows(e, Expected(e))
    /\ st[e] = "linked" => DataToggle[e] = first[e]
    /\ st[e] = "built" \/ (sync[e] /\ st[e] \notin {"none", "linked"})
         => DataToggle[e] = (first[e] + Tds[e]) % 2
InStep == \A e \in Endpoints : ToggleInStep(e)

PeriodicInv ==
  PeriodicTypeOK /\ ContextHasEd /\ EdOfTransfer /\ TdsRetired /\ InStep /\ PolledInTime

-----------------------------------------------------------------------------
(* Sequences and sets the schedule is built from.                           *)

\* Every non-empty set of naturals has a least element.
LEMMA LeastElement ==
  ASSUME NEW T, T \subseteq Nat, T # {}
  PROVE  \E x \in T : \A y \in T : x <= y
<1> DEFINE Less == {p \in Nat \X Nat : p[1] < p[2]}
<1>1. IsWellFoundedOn(Less, Nat)
  BY NatLessThanWellFounded DEF OpToRel
<1> HIDE DEF Less
<1>2. PICK x \in T : \A y \in T : ~ (<<y, x>> \in Less)
  BY <1>1, WFMin
<1>3. ASSUME NEW y \in T PROVE x <= y
  <2>1. x \in Nat /\ y \in Nat /\ ~ (<<y, x>> \in Less)
    BY <1>2
  <2> QED BY <2>1 DEF Less
<1> QED BY <1>3

\* What Without does to a sequence: the place goes, those behind it move up.
Shortened(s, i) == SubSeq(s, 1, i - 1) \o SubSeq(s, i + 1, Len(s))

\* A place of a sequence is removed.
LEMMA Removing ==
  ASSUME NEW S, NEW s \in Seq(S), NEW i \in 1 .. Len(s)
  PROVE  /\ Shortened(s, i) \in Seq(S) /\ Len(Shortened(s, i)) = Len(s) - 1
         /\ \A j \in 1 .. Len(s) - 1 : Shortened(s, i)[j] = s[IF j < i THEN j ELSE j + 1]
<1> DEFINE a == SubSeq(s, 1, i - 1)
           b == SubSeq(s, i + 1, Len(s))
<1>1. a \in Seq(S) /\ Len(a) = i - 1 /\ \A j \in 1 .. i - 1 : a[j] = s[j]
  BY SubSeqProperties
<1>2. b \in Seq(S) /\ Len(b) = Len(s) - i /\ \A j \in 1 .. Len(s) - i : b[j] = s[i + j]
  BY SubSeqProperties
<1> HIDE DEF a, b
<1>3. /\ a \o b \in Seq(S) /\ Len(a \o b) = Len(a) + Len(b)
      /\ \A j \in 1 .. Len(a) + Len(b) : (a \o b)[j] = IF j <= Len(a) THEN a[j] ELSE b[j - Len(a)]
  BY <1>1, <1>2, ConcatProperties
<1>4. Len(a \o b) = Len(s) - 1
  BY <1>1, <1>2, <1>3
<1>5. ASSUME NEW j \in 1 .. Len(s) - 1 PROVE (a \o b)[j] = s[IF j < i THEN j ELSE j + 1]
  <2>1. (a \o b)[j] = IF j < i THEN a[j] ELSE b[j - (i - 1)]
    BY <1>1, <1>2, <1>3
  <2>2. CASE j < i
    BY <1>1, <2>1, <2>2
  <2>3. CASE ~ (j < i)
    BY <1>2, <2>1, <2>3
  <2> QED BY <2>2, <2>3
<1> QED BY <1>3, <1>4, <1>5 DEF a, b, Shortened

\* Of a sequence without repetitions, the other members are left.
NoRepeats(s) == \A i, j \in DOMAIN s : s[i] = s[j] => i = j

LEMMA OthersStay ==
  ASSUME NEW S, NEW s \in Seq(S), NoRepeats(s), NEW k \in 1 .. Len(s)
  PROVE  /\ NoRepeats(Shortened(s, k))
         /\ \A c \in S : (\E i \in DOMAIN Shortened(s, k) : Shortened(s, k)[i] = c)
                           <=> c # s[k] /\ \E i \in DOMAIN s : s[i] = c
<1> DEFINE r == Shortened(s, k)
<1>1. /\ r \in Seq(S) /\ Len(r) = Len(s) - 1
      /\ \A j \in 1 .. Len(s) - 1 : r[j] = s[IF j < k THEN j ELSE j + 1]
  BY Removing
<1> HIDE DEF r
<1>2. DOMAIN r = 1 .. Len(s) - 1 /\ DOMAIN s = 1 .. Len(s) /\ Len(s) \in Nat
  BY <1>1
<1>3. ASSUME NEW i \in DOMAIN r, NEW j \in DOMAIN r, r[i] = r[j] PROVE i = j
  <2>1. s[IF i < k THEN i ELSE i + 1] = s[IF j < k THEN j ELSE j + 1]
    BY <1>1, <1>2, <1>3
  <2>2. (IF i < k THEN i ELSE i + 1) = (IF j < k THEN j ELSE j + 1)
    BY <1>2, <2>1 DEF NoRepeats
  <2> QED BY <1>1, <1>2, <2>2
<1>4. ASSUME NEW i \in DOMAIN r PROVE r[i] # s[k] /\ \E j \in DOMAIN s : s[j] = r[i]
  <2> DEFINE m == IF i < k THEN i ELSE i + 1
  <2>1. m \in 1 .. Len(s) /\ m # k /\ r[i] = s[m]
    BY <1>1, <1>2
  <2> QED BY <1>2, <2>1 DEF NoRepeats
<1>5. ASSUME NEW i \in DOMAIN s, s[i] # s[k] PROVE \E j \in DOMAIN r : r[j] = s[i]
  <2>1. CASE i < k
    BY <1>1, <1>2, <2>1
  <2>2. CASE i > k
    <3>1. i - 1 \in DOMAIN r /\ r[i - 1] = s[i]
      BY <1>1, <1>2, <2>2
    <3> QED BY <3>1
  <2> QED BY <1>2, <1>5, <2>1, <2>2
<1> QED BY <1>3, <1>4, <1>5 DEF r, NoRepeats

\* A member that is new is appended.
LEMMA OneMore ==
  ASSUME NEW S, NEW s \in Seq(S), NEW e \in S, NoRepeats(s), e \notin {s[i] : i \in DOMAIN s}
  PROVE  /\ Append(s, e) \in Seq(S) /\ NoRepeats(Append(s, e))
         /\ \A c \in S : (\E i \in DOMAIN Append(s, e) : Append(s, e)[i] = c)
                           <=> c = e \/ \E i \in DOMAIN s : s[i] = c
<1> DEFINE r == Append(s, e)
<1>1. /\ r \in Seq(S) /\ DOMAIN r = 1 .. Len(s) + 1 /\ r[Len(s) + 1] = e /\ DOMAIN s = 1 .. Len(s)
      /\ \A i \in 1 .. Len(s) : r[i] = s[i] /\ s[i] \in S
      /\ Len(s) \in Nat
  OBVIOUS
<1> HIDE DEF r
<1>2. ASSUME NEW i \in DOMAIN r PROVE i = Len(s) + 1 \/ i \in 1 .. Len(s)
  BY <1>1
<1>3. NoRepeats(r)
  BY <1>1, <1>2 DEF NoRepeats
<1>4. ASSUME NEW c \in S
      PROVE  (\E i \in DOMAIN r : r[i] = c) <=> c = e \/ \E i \in DOMAIN s : s[i] = c
  <2>1. Len(s) + 1 \in DOMAIN r /\ DOMAIN s \subseteq DOMAIN r
    BY <1>1
  <2> QED BY <1>1, <1>2, <2>1
<1> QED BY <1>1, <1>3, <1>4 DEF r

\* The contexts that are left are those of the other endpoints.
LEMMA ContextsLeft ==
  ASSUME PeriodicTypeOK, ContextHasEd, NEW e \in Endpoints
  PROVE  /\ ContextsWithout(e) \in Seq(Endpoints)
         /\ NoRepeats(ContextsWithout(e))
         /\ \A c \in Endpoints :
              (\E i \in DOMAIN ContextsWithout(e) : ContextsWithout(e)[i] = c)
                <=> c # e /\ \E i \in DOMAIN InterruptContextList : InterruptContextList[i] = c
<1> DEFINE l == InterruptContextList
           k == CHOOSE i \in ContextsOf(e) : TRUE
<1>1. l \in Seq(Endpoints) /\ NoRepeats(l)
  BY DEF NoRepeats, PeriodicTypeOK, ContextHasEd
<1>2. CASE ContextsOf(e) = {}
  <2>1. ContextsWithout(e) = l
    BY <1>2 DEF ContextsWithout, Without
  <2> QED BY <1>1, <1>2, <2>1 DEF ContextsOf
<1>3. CASE ContextsOf(e) # {}
  <2>1. k \in ContextsOf(e)
    BY <1>3
  <2>2. ContextsWithout(e) = Shortened(l, k)
    BY <1>3 DEF ContextsWithout, Without, Shortened
  <2> HIDE DEF k, l
  <2>3. k \in 1 .. Len(l) /\ l[k] = e
    BY <1>1, <2>1 DEF ContextsOf, l
  <2>4. /\ Shortened(l, k) \in Seq(Endpoints) /\ Len(Shortened(l, k)) = Len(l) - 1
        /\ \A j \in 1 .. Len(l) - 1 : Shortened(l, k)[j] = l[IF j < k THEN j ELSE j + 1]
    BY <1>1, <2>3, Removing
  <2>5. /\ NoRepeats(Shortened(l, k))
        /\ \A c \in Endpoints :
             (\E i \in DOMAIN Shortened(l, k) : Shortened(l, k)[i] = c) <=> c # l[k]
               /\ \E i \in DOMAIN l : l[i] = c
    BY <1>1, <2>3, OthersStay
  <2> QED BY <2>2, <2>3, <2>4, <2>5 DEF l
<1> QED BY <1>2, <1>3

-----------------------------------------------------------------------------
(* The tree: a node of level d is passed every 2^(5 - d) frames, and the least *)
(* loaded one exists.                                                        *)

\* The order of the leaves is its own inverse.
LEMMA LeafInverse == \A g \in 0 .. 31 : Leaf[g + 1] \in 0 .. 31 /\ Leaf[Leaf[g + 1] + 1] = g
BY DEF Leaf

\* In every run of k frames the controller comes past the node.
Passed(d, i, k) == \A f \in 0 .. 31 : \E j \in 0 .. k - 1 : (f + j) % 32 \in Frames(d, i)

\* A length of which every run of frames passes the node is in its Runs.
LEMMA InRuns ==
  ASSUME NEW d \in 0 .. 5, NEW i \in 0 .. 31, NEW k \in 1 .. 32, Passed(d, i, k)
  PROVE  k \in Runs[<<d, i>>]
<1>1. <<d, i>> \in Nodes
  BY DEF Nodes
<1>2. Runs[<<d, i>>] =
        {l \in 1 .. 32 : \A f \in 0 .. 31 : \E j \in 0 .. l - 1 : (f + j) % 32 \in Frames(d, i)}
  BY <1>1 DEF Runs
<1> QED BY <1>2 DEF Passed

\* How many frames in a row pass each node of a level, by cases on the 32 lists.
LEMMA Level0 == \A i \in 0 .. 31 : Passed(0, i, 32)
<1> SUFFICES ASSUME NEW i \in 0 .. 31, NEW f \in 0 .. 31
             PROVE  \E j \in 0 .. 32 - 1 : (f + j) % 32 \in Frames(0, i)
  BY DEF Passed
<1> DEFINE r == Leaf[1 * i + 1]
           j == (r - f) % 32
           g == (f + j) % 32
<1>1. r \in 0 .. 31 /\ Leaf[r + 1] = 1 * i
  BY LeafInverse
<1> HIDE DEF r
<1>2. j \in 0 .. 31 /\ g \in 0 .. 31 /\ g % 32 = r % 32
  BY <1>1
<1>3. \A k \in 0 .. 31 : Leaf[k + 1] \div 1 = Leaf[(k % 32) + 1] \div 1
  BY DEF Leaf
<1> HIDE DEF j, g
<1>4. Leaf[g + 1] \div 1 = i
  BY <1>1, <1>2, <1>3
<1>5. g \in {Leaf[k + 1] : k \in {k \in 0 .. 31 : k \div 1 = i}}
  BY <1>2, <1>4, LeafInverse
<1>6. g \in Frames(0, i)
  BY <1>5 DEF Frames
<1> QED BY <1>2, <1>6 DEF g

LEMMA Level1 == \A i \in 0 .. 15 : Passed(1, i, 16)
<1> SUFFICES ASSUME NEW i \in 0 .. 15, NEW f \in 0 .. 31
             PROVE  \E j \in 0 .. 16 - 1 : (f + j) % 32 \in Frames(1, i)
  BY DEF Passed
<1> DEFINE r == Leaf[2 * i + 1]
           j == (r - f) % 16
           g == (f + j) % 32
<1>1. r \in 0 .. 31 /\ Leaf[r + 1] = 2 * i
  BY LeafInverse
<1> HIDE DEF r
<1>2. j \in 0 .. 15 /\ g \in 0 .. 31 /\ g % 16 = r % 16
  BY <1>1
<1>3. \A k \in 0 .. 31 : Leaf[k + 1] \div 2 = Leaf[(k % 16) + 1] \div 2
  BY DEF Leaf
<1> HIDE DEF j, g
<1>4. Leaf[g + 1] \div 2 = i
  BY <1>1, <1>2, <1>3
<1>5. g \in {Leaf[k + 1] : k \in {k \in 0 .. 31 : k \div 2 = i}}
  BY <1>2, <1>4, LeafInverse
<1>6. g \in Frames(1, i)
  BY <1>5 DEF Frames
<1> QED BY <1>2, <1>6 DEF g

LEMMA Level2 == \A i \in 0 .. 7 : Passed(2, i, 8)
<1> SUFFICES ASSUME NEW i \in 0 .. 7, NEW f \in 0 .. 31
             PROVE  \E j \in 0 .. 8 - 1 : (f + j) % 32 \in Frames(2, i)
  BY DEF Passed
<1> DEFINE r == Leaf[4 * i + 1]
           j == (r - f) % 8
           g == (f + j) % 32
<1>1. r \in 0 .. 31 /\ Leaf[r + 1] = 4 * i
  BY LeafInverse
<1> HIDE DEF r
<1>2. j \in 0 .. 7 /\ g \in 0 .. 31 /\ g % 8 = r % 8
  BY <1>1
<1>3. \A k \in 0 .. 31 : Leaf[k + 1] \div 4 = Leaf[(k % 8) + 1] \div 4
  BY DEF Leaf
<1> HIDE DEF j, g
<1>4. Leaf[g + 1] \div 4 = i
  BY <1>1, <1>2, <1>3
<1>5. g \in {Leaf[k + 1] : k \in {k \in 0 .. 31 : k \div 4 = i}}
  BY <1>2, <1>4, LeafInverse
<1>6. g \in Frames(2, i)
  BY <1>5 DEF Frames
<1> QED BY <1>2, <1>6 DEF g

LEMMA Level3 == \A i \in 0 .. 3 : Passed(3, i, 4)
<1> SUFFICES ASSUME NEW i \in 0 .. 3, NEW f \in 0 .. 31
             PROVE  \E j \in 0 .. 4 - 1 : (f + j) % 32 \in Frames(3, i)
  BY DEF Passed
<1> DEFINE r == Leaf[8 * i + 1]
           j == (r - f) % 4
           g == (f + j) % 32
<1>1. r \in 0 .. 31 /\ Leaf[r + 1] = 8 * i
  BY LeafInverse
<1> HIDE DEF r
<1>2. j \in 0 .. 3 /\ g \in 0 .. 31 /\ g % 4 = r % 4
  BY <1>1
<1>3. \A k \in 0 .. 31 : Leaf[k + 1] \div 8 = Leaf[(k % 4) + 1] \div 8
  BY DEF Leaf
<1> HIDE DEF j, g
<1>4. Leaf[g + 1] \div 8 = i
  BY <1>1, <1>2, <1>3
<1>5. g \in {Leaf[k + 1] : k \in {k \in 0 .. 31 : k \div 8 = i}}
  BY <1>2, <1>4, LeafInverse
<1>6. g \in Frames(3, i)
  BY <1>5 DEF Frames
<1> QED BY <1>2, <1>6 DEF g

LEMMA Level4 == \A i \in 0 .. 1 : Passed(4, i, 2)
<1> SUFFICES ASSUME NEW i \in 0 .. 1, NEW f \in 0 .. 31
             PROVE  \E j \in 0 .. 2 - 1 : (f + j) % 32 \in Frames(4, i)
  BY DEF Passed
<1> DEFINE r == Leaf[16 * i + 1]
           j == (r - f) % 2
           g == (f + j) % 32
<1>1. r \in 0 .. 31 /\ Leaf[r + 1] = 16 * i
  BY LeafInverse
<1> HIDE DEF r
<1>2. j \in 0 .. 1 /\ g \in 0 .. 31 /\ g % 2 = r % 2
  BY <1>1
<1>3. \A k \in 0 .. 31 : Leaf[k + 1] \div 16 = Leaf[(k % 2) + 1] \div 16
  BY DEF Leaf
<1> HIDE DEF j, g
<1>4. Leaf[g + 1] \div 16 = i
  BY <1>1, <1>2, <1>3
<1>5. g \in {Leaf[k + 1] : k \in {k \in 0 .. 31 : k \div 16 = i}}
  BY <1>2, <1>4, LeafInverse
<1>6. g \in Frames(4, i)
  BY <1>5 DEF Frames
<1> QED BY <1>2, <1>6 DEF g

LEMMA Level5 == \A i \in 0 .. 0 : Passed(5, i, 1)
<1> SUFFICES ASSUME NEW i \in 0 .. 0, NEW f \in 0 .. 31
             PROVE  \E j \in 0 .. 1 - 1 : (f + j) % 32 \in Frames(5, i)
  BY DEF Passed
<1> DEFINE r == Leaf[32 * i + 1]
           j == (r - f) % 1
           g == (f + j) % 32
<1>1. r \in 0 .. 31 /\ Leaf[r + 1] = 32 * i
  BY LeafInverse
<1> HIDE DEF r
<1>2. j \in 0 .. 0 /\ g \in 0 .. 31 /\ g % 1 = r % 1
  BY <1>1
<1>3. \A k \in 0 .. 31 : Leaf[k + 1] \div 32 = Leaf[(k % 1) + 1] \div 32
  BY DEF Leaf
<1> HIDE DEF j, g
<1>4. Leaf[g + 1] \div 32 = i
  BY <1>1, <1>2, <1>3
<1>5. g \in {Leaf[k + 1] : k \in {k \in 0 .. 31 : k \div 32 = i}}
  BY <1>2, <1>4, LeafInverse
<1>6. g \in Frames(5, i)
  BY <1>5 DEF Frames
<1> QED BY <1>2, <1>6 DEF g

\* The intervals of the tree.
LEMMA Powers == 2^0 = 1 /\ 2^1 = 2 /\ 2^2 = 4 /\ 2^3 = 8 /\ 2^4 = 16 /\ 2^5 = 32
OBVIOUS

LEMMA Spans ==
  ASSUME NEW d \in 0 .. 5
  PROVE  /\ 2^(5 - d) \in 1 .. 32
         /\ \A i \in 0 .. 2^(5 - d) - 1 : <<d, i>> \in Nodes /\ 2^(5 - d) \in Runs[<<d, i>>]
<1>1. 2^(5 - d) \in 1 .. 32 /\ \A i \in 0 .. 2^(5 - d) - 1 : Passed(d, i, 2^(5 - d))
  <2>1. CASE d = 0
    <3>1. 2^(5 - d) = 32
      <4>1. 5 - d = 5
        BY <2>1
      <4> QED BY <4>1, Powers
    <3> QED BY <2>1, <3>1, Level0
  <2>2. CASE d = 1
    <3>1. 2^(5 - d) = 16
      <4>1. 5 - d = 4
        BY <2>2
      <4> QED BY <4>1, Powers
    <3> QED BY <2>2, <3>1, Level1
  <2>3. CASE d = 2
    <3>1. 2^(5 - d) = 8
      <4>1. 5 - d = 3
        BY <2>3
      <4> QED BY <4>1, Powers
    <3> QED BY <2>3, <3>1, Level2
  <2>4. CASE d = 3
    <3>1. 2^(5 - d) = 4
      <4>1. 5 - d = 2
        BY <2>4
      <4> QED BY <4>1, Powers
    <3> QED BY <2>4, <3>1, Level3
  <2>5. CASE d = 4
    <3>1. 2^(5 - d) = 2
      <4>1. 5 - d = 1
        BY <2>5
      <4> QED BY <4>1, Powers
    <3> QED BY <2>5, <3>1, Level4
  <2>6. CASE d = 5
    <3>1. 2^(5 - d) = 1
      <4>1. 5 - d = 0
        BY <2>6
      <4> QED BY <4>1, Powers
    <3> QED BY <2>6, <3>1, Level5
  <2> QED BY <2>1, <2>2, <2>3, <2>4, <2>5, <2>6
<1> SUFFICES ASSUME NEW i \in 0 .. 2^(5 - d) - 1
             PROVE  <<d, i>> \in Nodes /\ 2^(5 - d) \in Runs[<<d, i>>]
  BY <1>1
<1>2. i \in 0 .. 31
  BY <1>1
<1>3. ASSUME NEW m \in 1 .. 32, Passed(d, i, m) PROVE m \in Runs[<<d, i>>]
  BY <1>2, <1>3, InRuns
<1> QED BY <1>1, <1>2, <1>3 DEF Nodes

\* An interval has its level in the tree.
LEMMA DepthFits ==
  ASSUME NEW p \in 1 .. 255
  PROVE  Depth(p) \in 0 .. 5 /\ 2^(5 - Depth(p)) <= p
<1>1. \E d \in 0 .. 5 : 2^(5 - d) <= p /\ (d > 0 => p < 2^(6 - d))
  <2>1. CASE p >= 32
    <3>1. 2^(5 - 0) <= p
      BY <2>1
    <3> QED BY <3>1
  <2>2. CASE p \in 16 .. 31
    <3>1. 2^(5 - 1) <= p /\ p < 2^(6 - 1)
      BY <2>2
    <3> QED BY <3>1
  <2>3. CASE p \in 8 .. 15
    <3>1. 2^(5 - 2) <= p /\ p < 2^(6 - 2)
      BY <2>3
    <3> QED BY <3>1
  <2>4. CASE p \in 4 .. 7
    <3>1. 2^(5 - 3) <= p /\ p < 2^(6 - 3)
      BY <2>4
    <3> QED BY <3>1
  <2>5. CASE p \in 2 .. 3
    <3>1. 2^(5 - 4) <= p /\ p < 2^(6 - 4)
      BY <2>5
    <3> QED BY <3>1
  <2>6. CASE p = 1
    <3>1. 2^(5 - 5) <= p /\ p < 2^(6 - 5)
      BY <2>6
    <3> QED BY <3>1
  <2> QED BY <2>1, <2>2, <2>3, <2>4, <2>5, <2>6
<1> QED BY <1>1 DEF Depth

\* The bin of the level that has the fewest contexts.
LEMMA LeastLoaded ==
  ASSUME PeriodicTypeOK, NEW d \in 0 .. 5
  PROVE  \E i \in 0 .. 2^(5 - d) - 1 : OhciFindMinInterruptEDList(d) = <<d, i>>
<1> DEFINE Dom == 0 .. 2^(5 - d) - 1
           Count == [i \in Dom |-> CountEdNum(d, i)]
           IsFirstMin(i) == \A j \in DOMAIN Count : IF j < i THEN Count[i] < Count[j] ELSE Count[i] <= Count[j]
<1>1. Dom \subseteq Nat /\ 0 \in Dom
  <2>1. 2^(5 - d) \in 1 .. 32
    BY Spans
  <2> QED BY <2>1
<1>2. \A i \in Dom : Count[i] \in Nat
  <2> SUFFICES ASSUME NEW i \in Dom PROVE CountEdNum(d, i) \in Nat
    OBVIOUS
  <2>1. IsFiniteSet({e \in Endpoints : \E k \in d .. 5 : at[e] = <<k, i \div 2^(k - d)>>})
    BY IntervalAssumption, FS_Subset
  <2> QED BY <2>1, FS_CardinalityType DEF CountEdNum
<1> HIDE DEF Dom
<1>3. PICK m \in {Count[i] : i \in Dom} : \A y \in {Count[i] : i \in Dom} : m <= y
  <2>1. {Count[i] : i \in Dom} \subseteq Nat /\ {Count[i] : i \in Dom} # {}
    BY <1>1, <1>2
  <2> QED BY <2>1, LeastElement
<1>4. PICK i \in {k \in Dom : Count[k] = m} : \A y \in {k \in Dom : Count[k] = m} : i <= y
  <2>1. {k \in Dom : Count[k] = m} \subseteq Nat /\ {k \in Dom : Count[k] = m} # {}
    BY <1>1, <1>3
  <2> QED BY <2>1, LeastElement
<1>5. IsFirstMin(i)
  <2> SUFFICES ASSUME NEW j \in Dom PROVE IF j < i THEN Count[i] < Count[j] ELSE Count[i] <= Count[j]
    OBVIOUS
  <2>1. Count[i] = m /\ m <= Count[j] /\ Count[j] \in Nat /\ m \in Nat /\ i \in Nat /\ j \in Nat
    BY <1>1, <1>2, <1>3, <1>4
  <2>2. j < i => Count[j] # m
    BY <1>4, <2>1
  <2> QED BY <2>1, <2>2
<1>6. i \in DOMAIN Count /\ DOMAIN Count = Dom
  BY <1>4
<1>7. OhciFindMinInterruptEDList(d) = <<d, CHOOSE k \in DOMAIN Count : IsFirstMin(k)>>
  BY DEF OhciFindMinInterruptEDList, Dom
<1> HIDE DEF Count, IsFirstMin
<1>8. (CHOOSE k \in DOMAIN Count : IsFirstMin(k)) \in Dom
  BY <1>5, <1>6
<1> QED BY <1>7, <1>8 DEF Dom

\* A new ED is linked where the controller comes past it in time.
LEMMA PlacedInTime ==
  ASSUME PeriodicTypeOK, NEW p \in 1 .. 255, NEW v, v = OhciFindMinInterruptEDList(Depth(p))
  PROVE  v \in Nodes /\ v # NoNode /\ \E k \in Runs[v] : k <= p
<1>1. Depth(p) \in 0 .. 5 /\ 2^(5 - Depth(p)) <= p
  BY DepthFits
<1>2. PICK i \in 0 .. 2^(5 - Depth(p)) - 1 : v = <<Depth(p), i>>
  BY <1>1, LeastLoaded
<1>3. v \in Nodes /\ 2^(5 - Depth(p)) \in Runs[v]
  BY <1>1, <1>2, Spans
<1>4. v # NoNode
  BY <1>2 DEF NoNode
<1> QED BY <1>1, <1>3, <1>4

-----------------------------------------------------------------------------
(* A step is of one endpoint: the others keep what the invariant says of them. *)
Untouched(e) ==
  \A c \in Endpoints \ {e} :
    UNCHANGED <<st[c], sync[c], retired[c], first[c], carry[c], DataToggle[c], devToggle[c],
      repeat[c], skewed[c]>>

\* A step moves one endpoint, and leaves the others.
LEMMA OneEndpoint ==
  ASSUME PeriodicTypeOK, NEW e \in Endpoints,
         \/ (\E s \in BOOLEAN : Submit(e, s)) \/ AttachTds(e) \/ SubmitFails(e)
         \/ Activate(e) \/ Cancel(e)
         \/ ClearHalt(e) \/ HcTakes(e) \/ HcThrowsAway(e) \/ HcFails(e)
         \/ (Resubmit /\ e = InterruptContextList[hk])
         \/ (ErrorCallback /\ e = InterruptContextList[hk])
  PROVE  Untouched(e)
<1> USE DEF PeriodicTypeOK, Untouched, toggles, device, transfer
<1>1. CASE \E s \in BOOLEAN : Submit(e, s)
  BY <1>1 DEF Submit
<1>2. CASE AttachTds(e) \/ Activate(e)
  BY <1>2 DEF AttachTds, Activate
<1>3. CASE SubmitFails(e)
  BY <1>3 DEF SubmitFails, Freed
<1>4. CASE Cancel(e)
  BY <1>4 DEF Cancel, Unschedule, Freed
<1>5. CASE ClearHalt(e)
  BY <1>5 DEF ClearHalt
<1>6. CASE HcTakes(e) \/ HcThrowsAway(e)
  BY <1>6 DEF HcTakes, HcThrowsAway, Acknowledged, AcknowledgementLost
<1>7. CASE HcFails(e)
  BY <1>7 DEF HcFails
<1>8. CASE Resubmit /\ e = InterruptContextList[hk]
  BY <1>8 DEF Resubmit
<1>9. CASE ErrorCallback /\ e = InterruptContextList[hk]
  BY <1>9 DEF ErrorCallback, Unschedule, Freed
<1> QED BY <1>1, <1>2, <1>3, <1>4, <1>5, <1>6, <1>7, <1>8, <1>9

LEMMA OthersKept ==
  ASSUME TdsRetired, InStep, NEW e \in Endpoints, Untouched(e)
  PROVE  (Retired(e)' => TdsRetired') /\ (ToggleInStep(e)' => InStep')
<1>1. ASSUME NEW c \in Endpoints \ {e} PROVE Retired(c)' /\ ToggleInStep(c)'
  BY <1>1 DEF Untouched, TdsRetired, InStep, Retired, ToggleInStep, Expected, Follows
<1> QED BY <1>1 DEF TdsRetired, InStep

\* The fields of the state, from their type.
LEMMA Fields ==
  ASSUME PeriodicTypeOK, NEW e \in Endpoints
  PROVE  /\ first[e] \in 0 .. 1 /\ carry[e] \in 0 .. 1 /\ retired[e] \in Nat
              /\ Tds[e] \in Nat \ {0}
         /\ DataToggle[e] \in 0 .. 1 /\ devToggle[e] \in 0 .. 1
         /\ Expected(e) \in 0 .. 1 /\ Flip(Expected(e)) \in 0 .. 1
              /\ Flip(devToggle[e]) \in 0 .. 1
         /\ \A k \in 0 .. Tds[e] : (first[e] + k) % 2 \in 0 .. 1
         /\ (first[e] + Tds[e]) % 2 \in 0 .. 1
<1>1. /\ first[e] \in 0 .. 1 /\ carry[e] \in 0 .. 1 /\ retired[e] \in Nat /\ Tds[e] \in Nat \ {0}
      /\ DataToggle[e] \in 0 .. 1 /\ devToggle[e] \in 0 .. 1
  BY IntervalAssumption DEF PeriodicTypeOK
<1>2. Expected(e) \in 0 .. 1
  BY <1>1 DEF Expected
<1>3. Flip(Expected(e)) \in 0 .. 1 /\ Flip(devToggle[e]) \in 0 .. 1
  BY <1>1, <1>2 DEF Flip
<1>4. \A k \in Nat : (first[e] + k) % 2 \in 0 .. 1
  BY <1>1
<1> QED BY <1>1, <1>2, <1>3, <1>4

\* Freeing the transfer of an endpoint changes what belongs to it.
LEMMA FreedTyped ==
  ASSUME PeriodicTypeOK, NEW e \in Endpoints, Freed(e)
  PROVE  /\ st' \in [Endpoints -> States] /\ at' \in [Endpoints -> Nodes \cup {NoNode}]
         /\ sync' \in [Endpoints -> BOOLEAN] /\ retired' \in [Endpoints -> Nat]
         /\ first' \in [Endpoints -> 0 .. 1] /\ carry' \in [Endpoints -> 0 .. 1]
         /\ \A c \in Endpoints :
              IF c = e THEN st'[c] = "none" /\ at'[c] = NoNode /\ sync'[c] = FALSE
              ELSE st'[c] = st[c] /\ at'[c] = at[c] /\ sync'[c] = sync[c]
BY DEF PeriodicTypeOK, Freed, States

\* A packet of the device keeps them too.
LEMMA DeviceTyped ==
  ASSUME PeriodicTypeOK, NEW e \in Endpoints, Acknowledged(e) \/ AcknowledgementLost(e)
  PROVE  devToggle' \in [Endpoints -> 0 .. 1] /\ repeat' \in [Endpoints -> BOOLEAN]
<1>1. Flip(devToggle[e]) \in 0 .. 1
  BY Fields
<1> QED BY <1>1 DEF PeriodicTypeOK, Acknowledged, AcknowledgementLost

\* The house keeper looks at a transfer that has been activated.
LEMMA EntryHasEd ==
  ASSUME PeriodicInv, hk > 0
  PROVE  /\ InterruptContextList[hk] \in Endpoints /\ ~ sync[InterruptContextList[hk]]
         /\ hk \in DOMAIN InterruptContextList
<1>1. InterruptContextList \in Seq(Endpoints) /\ hk \in 1 .. Len(InterruptContextList)
  BY DEF PeriodicInv, PeriodicTypeOK, Dangling
<1>2. InterruptContextList[hk] \in Endpoints /\ hk \in DOMAIN InterruptContextList
  BY <1>1
<1> QED BY <1>2 DEF PeriodicInv, ContextHasEd

\* What the end of a transfer leaves of its endpoint.
LEMMA Ended ==
  ASSUME PeriodicInv, NEW e \in Endpoints, Unschedule(e),
         st[e] \in {"active", "done", "stalled", "error"}
  PROVE  /\ st'[e] = "none" /\ sync'[e] = FALSE /\ retired'[e] = 0 /\ first'[e] = 0
         /\ DataToggle'[e] \in 0 .. 1
         /\ ~ OutOfStep(e) /\ ~ skewed[e] => DataToggle'[e] = Expected(e)
<1>1. PeriodicTypeOK /\ Retired(e) /\ ToggleInStep(e)
  BY DEF PeriodicInv, TdsRetired, InStep
<1>2. st'[e] = "none" /\ sync'[e] = FALSE /\ retired'[e] = 0 /\ first'[e] = 0
  BY <1>1 DEF Unschedule, Freed, PeriodicTypeOK
<1>3. first[e] \in 0 .. 1 /\ retired[e] \in Nat /\ DataToggle[e] \in 0 .. 1 /\ Tds[e] \in Nat
  BY <1>1, IntervalAssumption DEF PeriodicTypeOK
<1>4. CASE sync[e]
  <2>1. DataToggle'[e] = DataToggle[e]
    BY <1>4 DEF Unschedule
  <2>2. ~ OutOfStep(e) => retired[e] = Tds[e]
    BY <1>1, <1>3, <1>4 DEF OutOfStep, Retired
  <2>3. ~ skewed[e] => DataToggle[e] = (first[e] + Tds[e]) % 2
    BY <1>1, <1>4 DEF ToggleInStep
  <2> QED BY <1>2, <1>3, <2>1, <2>2, <2>3 DEF Expected
<1>5. CASE ~ sync[e]
  <2>1. DataToggle'[e] = FirstTdToggle(e)
    BY <1>1, <1>5 DEF Unschedule, PeriodicTypeOK
  <2>2. ~ OutOfStep(e) => retired[e] \in 0 .. 1
    BY <1>3, <1>5 DEF OutOfStep
  <2>3. FirstTdToggle(e) \in 0 .. 1
    BY <1>3 DEF FirstTdToggle, Flip
  <2>4. retired[e] \in 0 .. 1 => FirstTdToggle(e) = Expected(e)
    BY <1>3 DEF FirstTdToggle, Flip, Expected
  <2> QED BY <1>2, <2>1, <2>2, <2>3, <2>4
<1> QED BY <1>4, <1>5

\* With its descriptors goes the context of the endpoint, and no other.
LEMMA ContextGoes ==
  ASSUME PeriodicInv, NEW e \in Endpoints, Unschedule(e)
  PROVE  ContextHasEd'
<1>1. PeriodicTypeOK /\ ContextHasEd /\ Freed(e) /\ InterruptContextList' = ContextsWithout(e)
  BY DEF PeriodicInv, Unschedule
<1>2. NoRepeats(InterruptContextList')
  BY <1>1, ContextsLeft
<1>3. ASSUME NEW c \in Endpoints
      PROVE  (\E i \in DOMAIN InterruptContextList' : InterruptContextList'[i] = c)
               <=> c # e /\ \E i \in DOMAIN InterruptContextList : InterruptContextList[i] = c
  BY <1>1, ContextsLeft
<1>4. ASSUME NEW c \in Endpoints
      PROVE  IF c = e THEN at'[c] = NoNode
             ELSE st'[c] = st[c] /\ at'[c] = at[c] /\ sync'[c] = sync[c]
  BY <1>1, FreedTyped
<1>5. ASSUME NEW c \in Endpoints
      PROVE  (\E i \in DOMAIN InterruptContextList' : InterruptContextList'[i] = c)
               <=> at'[c] # NoNode /\ ~ sync'[c] /\ st'[c] \notin {"linked", "built"}
  BY <1>1, <1>3, <1>4 DEF ContextHasEd
<1> QED BY <1>2, <1>5 DEF ContextHasEd, NoRepeats

-----------------------------------------------------------------------------
(* Each part of the invariant is kept by every step.                         *)
LEMMA PeriodicTypeOKStep == PeriodicInv /\ [PeriodicNext]_periodicVars => PeriodicTypeOK'
<1> SUFFICES ASSUME PeriodicInv, [PeriodicNext]_periodicVars PROVE PeriodicTypeOK'
  OBVIOUS
<1> USE DEF PeriodicInv, PeriodicTypeOK, States, Flip
<1>1. ASSUME NEW e \in Endpoints, NEW s \in BOOLEAN, Submit(e, s) PROVE PeriodicTypeOK'
  <2>1. Interval(e, s) \in 1 .. 255
    BY IntervalAssumption DEF Interval
  <2>2. at'[e] \in Nodes /\ at'[e] # NoNode /\ \E k \in Runs[at'[e]] : k <= Interval(e, s)
    BY <1>1, <2>1, PlacedInTime DEF Submit
  <2> QED BY <1>1, <2>2 DEF Submit, toggles, device, transfer
<1>2. ASSUME NEW e \in Endpoints, AttachTds(e) PROVE PeriodicTypeOK'
  <2>1. (first[e] + Tds[e]) % 2 \in 0 .. 1
    BY Fields
  <2> QED BY <1>2, <2>1 DEF AttachTds, toggles, device, transfer
<1>3. ASSUME NEW e \in Endpoints, SubmitFails(e) PROVE PeriodicTypeOK'
  <2>1. \A k \in 0 .. Tds[e] : (first[e] + k) % 2 \in 0 .. 1
    BY Fields
  <2>2. DataToggle' \in [Endpoints -> 0 .. 1]
    BY <1>3, <2>1 DEF SubmitFails
  <2> QED BY <1>3, <2>2, FreedTyped DEF SubmitFails, device
<1>4. ASSUME NEW e \in Endpoints, Activate(e) PROVE PeriodicTypeOK'
  BY <1>4, IntervalAssumption DEF Activate, OhciAddInterruptContextEntry, toggles,
       device, transfer
<1>5. ASSUME NEW e \in Endpoints, Cancel(e) PROVE PeriodicTypeOK'
  <2>1. ContextsWithout(e) \in Seq(Endpoints) /\ hk = 0
    BY <1>5, ContextsLeft DEF Cancel
  <2>2. DataToggle'[e] \in 0 .. 1
    BY <1>5, Ended DEF Cancel
  <2>3. InterruptContextList' \in Seq(Endpoints) /\ DataToggle' \in [Endpoints -> 0 .. 1]
    BY <1>5, <2>1, <2>2 DEF Cancel, Unschedule
  <2>4. hk' \in 0 .. Len(InterruptContextList')
    BY <1>5, <2>1, <2>3 DEF Cancel
  <2>5. devToggle' \in [Endpoints -> 0 .. 1] /\ repeat' \in [Endpoints -> BOOLEAN]
    <3>1. UNCHANGED device \/ Acknowledged(e)
      BY <1>5 DEF Cancel, Acknowledged
    <3> QED BY <3>1, DeviceTyped DEF device
  <2> QED BY <1>5, <2>3, <2>4, <2>5, FreedTyped DEF Cancel, Unschedule
<1>6. ASSUME NEW e \in Endpoints, ClearHalt(e) PROVE PeriodicTypeOK'
  BY <1>6, IntervalAssumption DEF ClearHalt, toggles, device, transfer
<1>7. ASSUME NEW e \in Endpoints, HcTakes(e) PROVE PeriodicTypeOK'
  <2>1. Flip(Expected(e)) \in 0 .. 1
    BY Fields
  <2>2. devToggle' \in [Endpoints -> 0 .. 1] /\ repeat' \in [Endpoints -> BOOLEAN]
    BY <1>7, DeviceTyped DEF HcTakes
  <2>3. retired' \in [Endpoints -> Nat] /\ carry' \in [Endpoints -> 0 .. 1]
    BY <1>7, <2>1 DEF HcTakes
  <2> QED BY <1>7, <2>2, <2>3 DEF HcTakes, toggles, transfer
<1>8. ASSUME NEW e \in Endpoints, HcThrowsAway(e) PROVE PeriodicTypeOK'
  <2>1. Flip(devToggle[e]) \in 0 .. 1
    BY Fields
  <2>2. devToggle' \in [Endpoints -> 0 .. 1] /\ repeat' \in [Endpoints -> BOOLEAN]
    BY <1>8, <2>1 DEF HcThrowsAway, Acknowledged, AcknowledgementLost
  <2> QED BY <1>8, <2>2 DEF HcThrowsAway, toggles, transfer
<1>9. ASSUME NEW e \in Endpoints, HcFails(e) PROVE PeriodicTypeOK'
  BY <1>9, IntervalAssumption DEF HcFails, toggles, device, transfer
<1>10. CASE HouseKeeperTimer
  BY <1>10, IntervalAssumption DEF HouseKeeperTimer, toggles, device, transfer, Dangling
<1>11. CASE SkipEntry
  BY <1>11, IntervalAssumption DEF SkipEntry, Advance, toggles, device, transfer, Dangling
<1>12. CASE Resubmit
  BY <1>12, IntervalAssumption DEF Resubmit, Resubmitted, Advance, toggles, device,
       transfer, Dangling
<1>13. CASE ErrorCallback
  <2>1. PICK e \in Endpoints : Unschedule(e) /\ st[e] = "error"
    BY <1>13, EntryHasEd DEF ErrorCallback
  <2>2. ContextsWithout(e) \in Seq(Endpoints) /\ DataToggle'[e] \in 0 .. 1
    BY <2>1, ContextsLeft, Ended
  <2>3. InterruptContextList' \in Seq(Endpoints) /\ DataToggle' \in [Endpoints -> 0 .. 1]
    BY <2>1, <2>2 DEF Unschedule
  <2>4. hk' \in {Dangling} \union 0 .. Len(InterruptContextList')
    BY <1>13, <2>3 DEF ErrorCallback
  <2>5. /\ st' \in [Endpoints -> States] /\ at' \in [Endpoints -> Nodes \cup {NoNode}]
        /\ sync' \in [Endpoints -> BOOLEAN] /\ retired' \in [Endpoints -> Nat]
        /\ first' \in [Endpoints -> 0 .. 1] /\ carry' \in [Endpoints -> 0 .. 1]
    BY <2>1 DEF Unschedule, Freed
  <2>6. skewed' \in [Endpoints -> BOOLEAN] /\ UNCHANGED <<devToggle, repeat>>
    BY <1>13 DEF ErrorCallback, device
  <2> QED BY <2>3, <2>4, <2>5, <2>6
<1>14. CASE OhciReset
  BY <1>14, IntervalAssumption DEF OhciReset, All, toggles, device, transfer
<1>15. CASE UNCHANGED periodicVars
  BY <1>15 DEF periodicVars
<1>16. CASE ReturnFromError
  BY <1>16, IntervalAssumption DEF ReturnFromError, toggles, device, transfer
<1> HIDE DEF PeriodicInv, PeriodicTypeOK, States, Flip
<1> QED BY <1>1, <1>2, <1>3, <1>4, <1>5, <1>6, <1>7, <1>8, <1>9, <1>10, <1>11, <1>12,
           <1>13, <1>14, <1>15, <1>16 DEF PeriodicNext, Client, Controller, OhciHouseKeeper

\* Every step keeps each part of the invariant.
LEMMA ContextHasEdStep == PeriodicInv /\ [PeriodicNext]_periodicVars => ContextHasEd'
<1> SUFFICES ASSUME PeriodicInv, [PeriodicNext]_periodicVars PROVE ContextHasEd'
  OBVIOUS
<1> USE DEF PeriodicInv, PeriodicTypeOK, States, Flip, ContextHasEd, EdOfTransfer
<1>1. ASSUME NEW e \in Endpoints, NEW s \in BOOLEAN, Submit(e, s) PROVE ContextHasEd'
  BY <1>1, IntervalAssumption DEF Submit, toggles, device, transfer
<1>2. ASSUME NEW e \in Endpoints, AttachTds(e) PROVE ContextHasEd'
  BY <1>2, IntervalAssumption DEF AttachTds, toggles, device, transfer
<1>3. ASSUME NEW e \in Endpoints, SubmitFails(e) PROVE ContextHasEd'
  BY <1>3, IntervalAssumption DEF SubmitFails, Freed, toggles, device, transfer
<1>4. ASSUME NEW e \in Endpoints, Activate(e) PROVE ContextHasEd'
  <2>1. CASE sync[e]
    BY <1>4, <2>1 DEF Activate, transfer
  <2>2. CASE ~ sync[e]
    <3>1. InterruptContextList' = Append(InterruptContextList, e) /\ at[e] # NoNode
            /\ UNCHANGED <<at, sync>>
      BY <1>4, <2>2 DEF Activate, OhciAddInterruptContextEntry, transfer
    <3>2. e \notin {InterruptContextList[i] : i \in DOMAIN InterruptContextList}
      BY <1>4 DEF Activate
    <3>3. NoRepeats(InterruptContextList)
      BY DEF NoRepeats
    <3>4. /\ NoRepeats(InterruptContextList')
          /\ \A c \in Endpoints : (\E i \in DOMAIN InterruptContextList' : InterruptContextList'[i] = c)
                                   <=> c = e
                                     \/ \E i \in DOMAIN InterruptContextList : InterruptContextList[i] = c
      BY <3>1, <3>2, <3>3, OneMore
    <3>6. \A c \in Endpoints : st'[c] = IF c = e THEN "active" ELSE st[c]
      BY <1>4 DEF Activate
    <3> QED BY <2>2, <3>1, <3>4, <3>6 DEF NoRepeats
  <2> QED BY <2>1, <2>2
<1>5. ASSUME NEW e \in Endpoints, Cancel(e) PROVE ContextHasEd'
  BY <1>5, ContextGoes DEF Cancel
<1>6. ASSUME NEW e \in Endpoints, ClearHalt(e) PROVE ContextHasEd'
  BY <1>6, IntervalAssumption DEF ClearHalt, toggles, device, transfer
<1>7. ASSUME NEW e \in Endpoints, HcTakes(e) PROVE ContextHasEd'
  BY <1>7, IntervalAssumption DEF HcTakes, Acknowledged, AcknowledgementLost, toggles,
       device, transfer
<1>8. ASSUME NEW e \in Endpoints, HcThrowsAway(e) PROVE ContextHasEd'
  BY <1>8, IntervalAssumption DEF HcThrowsAway, Acknowledged, AcknowledgementLost,
       toggles, device, transfer
<1>9. ASSUME NEW e \in Endpoints, HcFails(e) PROVE ContextHasEd'
  BY <1>9, IntervalAssumption DEF HcFails, toggles, device, transfer
<1>10. CASE HouseKeeperTimer
  BY <1>10, IntervalAssumption DEF HouseKeeperTimer, toggles, device, transfer
<1>11. CASE SkipEntry
  BY <1>11, IntervalAssumption DEF SkipEntry, Advance, toggles, device, transfer
<1>12. CASE Resubmit
  BY <1>12, IntervalAssumption DEF Resubmit, Resubmitted, Advance, toggles, device,
       transfer
<1>13. CASE ErrorCallback
  BY <1>13, EntryHasEd, ContextGoes DEF ErrorCallback
<1>14. CASE OhciReset
  BY <1>14, IntervalAssumption DEF OhciReset, All, toggles, device, transfer
<1>15. CASE UNCHANGED periodicVars
  BY <1>15 DEF periodicVars
<1>16. CASE ReturnFromError
  BY <1>16, IntervalAssumption DEF ReturnFromError, toggles, device, transfer
<1> HIDE DEF PeriodicInv, PeriodicTypeOK, States, Flip, ContextHasEd, EdOfTransfer
<1> QED BY <1>1, <1>2, <1>3, <1>4, <1>5, <1>6, <1>7, <1>8, <1>9, <1>10, <1>11, <1>12,
           <1>13, <1>14, <1>15, <1>16 DEF PeriodicNext, Client, Controller, OhciHouseKeeper

LEMMA EdOfTransferStep == PeriodicInv /\ [PeriodicNext]_periodicVars => EdOfTransfer'
<1> SUFFICES ASSUME PeriodicInv, [PeriodicNext]_periodicVars PROVE EdOfTransfer'
  OBVIOUS
<1> USE DEF PeriodicInv, PeriodicTypeOK, States, Flip, EdOfTransfer, ContextHasEd
<1>1. ASSUME NEW e \in Endpoints, NEW s \in BOOLEAN, Submit(e, s) PROVE EdOfTransfer'
  <2>1. Interval(e, s) \in 1 .. 255
    BY IntervalAssumption DEF Interval
  <2>2. at'[e] \in Nodes /\ at'[e] # NoNode /\ \E k \in Runs[at'[e]] : k <= Interval(e, s)
    BY <1>1, <2>1, PlacedInTime DEF Submit
  <2> QED BY <1>1, <2>2 DEF Submit, toggles, device, transfer
<1>2. ASSUME NEW e \in Endpoints, AttachTds(e) PROVE EdOfTransfer'
  BY <1>2, IntervalAssumption DEF AttachTds, toggles, device, transfer
<1>3. ASSUME NEW e \in Endpoints, SubmitFails(e) PROVE EdOfTransfer'
  BY <1>3, IntervalAssumption DEF SubmitFails, Freed, toggles, device, transfer
<1>4. ASSUME NEW e \in Endpoints, Activate(e) PROVE EdOfTransfer'
  BY <1>4, IntervalAssumption DEF Activate, OhciAddInterruptContextEntry, toggles,
       device, transfer
<1>5. ASSUME NEW e \in Endpoints, Cancel(e) PROVE EdOfTransfer'
  BY <1>5, IntervalAssumption DEF Cancel, Unschedule, Freed, OutOfStep, toggles,
       device, transfer
<1>6. ASSUME NEW e \in Endpoints, ClearHalt(e) PROVE EdOfTransfer'
  BY <1>6, IntervalAssumption DEF ClearHalt, toggles, device, transfer
<1>7. ASSUME NEW e \in Endpoints, HcTakes(e) PROVE EdOfTransfer'
  BY <1>7, IntervalAssumption DEF HcTakes, Acknowledged, AcknowledgementLost, toggles,
       device, transfer
<1>8. ASSUME NEW e \in Endpoints, HcThrowsAway(e) PROVE EdOfTransfer'
  BY <1>8, IntervalAssumption DEF HcThrowsAway, Acknowledged, AcknowledgementLost,
       toggles, device, transfer
<1>9. ASSUME NEW e \in Endpoints, HcFails(e) PROVE EdOfTransfer'
  BY <1>9, IntervalAssumption DEF HcFails, toggles, device, transfer
<1>10. CASE HouseKeeperTimer
  BY <1>10, IntervalAssumption DEF HouseKeeperTimer, toggles, device, transfer
<1>11. CASE SkipEntry
  BY <1>11, IntervalAssumption DEF SkipEntry, Advance, toggles, device, transfer
<1>12. CASE Resubmit
  BY <1>12, IntervalAssumption DEF Resubmit, Resubmitted, Advance, toggles, device,
       transfer
<1>13. CASE ErrorCallback
  BY <1>13, IntervalAssumption DEF ErrorCallback, Unschedule, Freed, OutOfStep, toggles,
       device, transfer
<1>14. CASE OhciReset
  BY <1>14, IntervalAssumption DEF OhciReset, All, toggles, device, transfer
<1>15. CASE UNCHANGED periodicVars
  BY <1>15 DEF periodicVars
<1>16. CASE ReturnFromError
  BY <1>16, IntervalAssumption DEF ReturnFromError, toggles, device, transfer
<1> HIDE DEF PeriodicInv, PeriodicTypeOK, States, Flip, EdOfTransfer, ContextHasEd
<1> QED BY <1>1, <1>2, <1>3, <1>4, <1>5, <1>6, <1>7, <1>8, <1>9, <1>10, <1>11, <1>12,
           <1>13, <1>14, <1>15, <1>16 DEF PeriodicNext, Client, Controller, OhciHouseKeeper

LEMMA PolledInTimeStep == PeriodicInv /\ [PeriodicNext]_periodicVars => PolledInTime'
<1> SUFFICES ASSUME PeriodicInv, [PeriodicNext]_periodicVars PROVE PolledInTime'
  OBVIOUS
<1> USE DEF PeriodicInv, PeriodicTypeOK, States, ContextHasEd, EdOfTransfer, PolledInTime,
      Interval
<1>1. ASSUME NEW e \in Endpoints, NEW s \in BOOLEAN, Submit(e, s) PROVE PolledInTime'
  <2>1. Interval(e, s) \in 1 .. 255
    BY IntervalAssumption DEF Interval
  <2>2. at'[e] \in Nodes /\ at'[e] # NoNode /\ \E k \in Runs[at'[e]] : k <= Interval(e, s)
    BY <1>1, <2>1, PlacedInTime DEF Submit
  <2> QED BY <1>1, <2>2 DEF Submit, toggles, device, transfer, Interval
<1>2. ASSUME NEW e \in Endpoints, AttachTds(e) PROVE PolledInTime'
  BY <1>2, IntervalAssumption DEF AttachTds, toggles, device, transfer
<1>3. ASSUME NEW e \in Endpoints, SubmitFails(e) PROVE PolledInTime'
  BY <1>3, IntervalAssumption DEF SubmitFails, Freed, toggles, device, transfer
<1>4. ASSUME NEW e \in Endpoints, Activate(e) PROVE PolledInTime'
  BY <1>4, IntervalAssumption DEF Activate, OhciAddInterruptContextEntry, toggles,
       device, transfer
<1>5. ASSUME NEW e \in Endpoints, Cancel(e) PROVE PolledInTime'
  BY <1>5, IntervalAssumption DEF Cancel, Unschedule, Freed, OutOfStep, toggles,
       device, transfer
<1>6. ASSUME NEW e \in Endpoints, ClearHalt(e) PROVE PolledInTime'
  BY <1>6, IntervalAssumption DEF ClearHalt, toggles, device, transfer
<1>7. ASSUME NEW e \in Endpoints, HcTakes(e) PROVE PolledInTime'
  BY <1>7, IntervalAssumption DEF HcTakes, Acknowledged, AcknowledgementLost, toggles,
       device, transfer
<1>8. ASSUME NEW e \in Endpoints, HcThrowsAway(e) PROVE PolledInTime'
  BY <1>8, IntervalAssumption DEF HcThrowsAway, Acknowledged, AcknowledgementLost,
       toggles, device, transfer
<1>9. ASSUME NEW e \in Endpoints, HcFails(e) PROVE PolledInTime'
  BY <1>9, IntervalAssumption DEF HcFails, toggles, device, transfer
<1>10. CASE HouseKeeperTimer
  BY <1>10, IntervalAssumption DEF HouseKeeperTimer, toggles, device, transfer
<1>11. CASE SkipEntry
  BY <1>11, IntervalAssumption DEF SkipEntry, Advance, toggles, device, transfer
<1>12. CASE Resubmit
  BY <1>12, IntervalAssumption DEF Resubmit, Resubmitted, Advance, toggles, device,
       transfer
<1>13. CASE ErrorCallback
  BY <1>13, IntervalAssumption DEF ErrorCallback, Unschedule, Freed, OutOfStep, toggles,
       device, transfer
<1>14. CASE OhciReset
  BY <1>14, IntervalAssumption DEF OhciReset, All, toggles, device, transfer
<1>15. CASE UNCHANGED periodicVars
  BY <1>15 DEF periodicVars
<1>16. CASE ReturnFromError
  BY <1>16, IntervalAssumption DEF ReturnFromError, toggles, device, transfer
<1> HIDE DEF PeriodicInv, PeriodicTypeOK, States, ContextHasEd, EdOfTransfer, PolledInTime,
      Interval
<1> QED BY <1>1, <1>2, <1>3, <1>4, <1>5, <1>6, <1>7, <1>8, <1>9, <1>10, <1>11, <1>12,
           <1>13, <1>14, <1>15, <1>16 DEF PeriodicNext, Client, Controller, OhciHouseKeeper

LEMMA TdsRetiredStep == PeriodicInv /\ [PeriodicNext]_periodicVars => TdsRetired'
<1> SUFFICES ASSUME PeriodicInv, [PeriodicNext]_periodicVars PROVE TdsRetired'
  OBVIOUS
<1>0. PeriodicTypeOK /\ TdsRetired /\ InStep
  BY DEF PeriodicInv
<1> USE DEF PeriodicTypeOK, States, Flip, toggles, device, transfer
<1>1. ASSUME NEW e \in Endpoints, NEW s \in BOOLEAN, Submit(e, s) PROVE TdsRetired'
  <2>1. Retired(e)'
    BY <1>0, <1>1, IntervalAssumption DEF Submit, TdsRetired, Retired, Expected
  <2> QED BY <1>0, <1>1, <2>1, OneEndpoint, OthersKept
<1>2. ASSUME NEW e \in Endpoints, AttachTds(e) PROVE TdsRetired'
  <2>1. Retired(e)'
    BY <1>0, <1>2, IntervalAssumption DEF AttachTds, TdsRetired, Retired, Expected
  <2> QED BY <1>0, <1>2, <2>1, OneEndpoint, OthersKept
<1>3. ASSUME NEW e \in Endpoints, SubmitFails(e) PROVE TdsRetired'
  <2>1. Retired(e)'
    BY <1>0, <1>3, IntervalAssumption DEF SubmitFails, Freed, TdsRetired, Retired, Expected
  <2> QED BY <1>0, <1>3, <2>1, OneEndpoint, OthersKept
<1>4. ASSUME NEW e \in Endpoints, Activate(e) PROVE TdsRetired'
  <2>1. Retired(e)'
    <3>1. Retired(e) /\ st[e] = "built" /\ st'[e] = "active" /\ retired'[e] = retired[e]
      BY <1>0, <1>4 DEF Activate, TdsRetired
    <3> QED BY <3>1, IntervalAssumption DEF Retired
  <2> QED BY <1>0, <1>4, <2>1, OneEndpoint, OthersKept
<1>5. ASSUME NEW e \in Endpoints, Cancel(e) PROVE TdsRetired'
  <2>1. Retired(e)'
    <3>1. Retired(e) /\ st'[e] = "none" /\ retired'[e] = 0
      BY <1>0, <1>5, Ended DEF Cancel, TdsRetired
    <3> QED BY <3>1, IntervalAssumption DEF Retired
  <2> QED BY <1>0, <1>5, <2>1, OneEndpoint, OthersKept
<1>6. ASSUME NEW e \in Endpoints, ClearHalt(e) PROVE TdsRetired'
  <2>1. Retired(e)'
    BY <1>0, <1>6, IntervalAssumption DEF ClearHalt, TdsRetired, Retired, Expected
  <2> QED BY <1>0, <1>6, <2>1, OneEndpoint, OthersKept
<1>7. ASSUME NEW e \in Endpoints, HcTakes(e) PROVE TdsRetired'
  <2>1. Retired(e)'
    <3>1. Retired(e) /\ st[e] = "active" /\ retired[e] \in Nat /\ Tds[e] \in Nat
            /\ first[e] \in 0 .. 1
      BY <1>0, <1>7, IntervalAssumption DEF HcTakes, TdsRetired
    <3>2. /\ retired'[e] = retired[e] + 1 /\ carry'[e] = Flip(Expected(e)) /\ first'[e] = first[e]
          /\ st'[e] = IF retired[e] + 1 = Tds[e] THEN "done" ELSE "active"
      BY <1>0, <1>7 DEF HcTakes
    <3>3. carry'[e] = (first'[e] + retired'[e]) % 2
      BY <3>1, <3>2 DEF Expected
    <3> QED BY <3>1, <3>2, <3>3 DEF Retired, Expected
  <2> QED BY <1>0, <1>7, <2>1, OneEndpoint, OthersKept
<1>8. ASSUME NEW e \in Endpoints, HcThrowsAway(e) PROVE TdsRetired'
  <2>1. Retired(e)'
    BY <1>0, <1>8, IntervalAssumption DEF HcThrowsAway, TdsRetired, Retired, Expected
  <2> QED BY <1>0, <1>8, <2>1, OneEndpoint, OthersKept
<1>9. ASSUME NEW e \in Endpoints, HcFails(e) PROVE TdsRetired'
  <2>1. Retired(e)'
    BY <1>0, <1>9, IntervalAssumption DEF HcFails, TdsRetired, Retired, Expected
  <2> QED BY <1>0, <1>9, <2>1, OneEndpoint, OthersKept
<1>10. CASE HouseKeeperTimer
  BY <1>0, <1>10, IntervalAssumption DEF HouseKeeperTimer, TdsRetired, Retired, Expected
<1>11. CASE SkipEntry
  BY <1>0, <1>11, IntervalAssumption DEF SkipEntry, TdsRetired, Retired, Expected
<1>12. CASE Resubmit
  <2>1. PICK e \in Endpoints : e = InterruptContextList[hk] /\ ~ sync[e]
    BY <1>12, EntryHasEd DEF Resubmit
  <2>2. Retired(e)'
    <3>1. st'[e] = "active" /\ retired'[e] = 0
      BY <1>0, <1>12, <2>1 DEF Resubmit
    <3> QED BY <2>1, <3>1, IntervalAssumption DEF Retired
  <2> QED BY <1>0, <1>12, <2>1, <2>2, OneEndpoint, OthersKept
<1>13. CASE ErrorCallback
  <2>1. PICK e \in Endpoints : e = InterruptContextList[hk] /\ ~ sync[e]
    BY <1>13, EntryHasEd DEF ErrorCallback
  <2>2. Retired(e)'
    <3>1. Retired(e) /\ st'[e] = "none" /\ retired'[e] = 0
      BY <1>0, <1>13, <2>1, Ended DEF ErrorCallback, TdsRetired
    <3> QED BY <2>1, <3>1, IntervalAssumption DEF Retired
  <2> QED BY <1>0, <1>13, <2>1, <2>2, OneEndpoint, OthersKept
<1>14. CASE OhciReset
  BY <1>0, <1>14, IntervalAssumption DEF OhciReset, TdsRetired, Retired, Expected, All
<1>15. CASE UNCHANGED periodicVars
  BY <1>0, <1>15 DEF periodicVars, TdsRetired, Retired, Expected
<1>16. CASE ReturnFromError
  BY <1>0, <1>16, IntervalAssumption DEF ReturnFromError, TdsRetired, Retired, Expected
<1> QED BY <1>1, <1>2, <1>3, <1>4, <1>5, <1>6, <1>7, <1>8, <1>9, <1>10, <1>11, <1>12,
           <1>13, <1>14, <1>15, <1>16 DEF PeriodicNext, Client, Controller, OhciHouseKeeper

LEMMA InStepStep == PeriodicInv /\ [PeriodicNext]_periodicVars => InStep'
<1> SUFFICES ASSUME PeriodicInv, [PeriodicNext]_periodicVars PROVE InStep'
  OBVIOUS
<1>0. PeriodicTypeOK /\ TdsRetired /\ InStep
  BY DEF PeriodicInv
<1> USE DEF PeriodicTypeOK, States, Flip, toggles, device, transfer
<1>1. ASSUME NEW e \in Endpoints, NEW s \in BOOLEAN, Submit(e, s) PROVE InStep'
  <2>1. ToggleInStep(e)'
    <3>1. ToggleInStep(e) /\ st[e] = "none" /\ DataToggle[e] \in 0 .. 1
      BY <1>0, <1>1 DEF Submit, InStep
    <3>2. st'[e] = "linked" /\ retired'[e] = 0 /\ first'[e] = DataToggle[e]
      BY <1>0, <1>1 DEF Submit
    <3>3. UNCHANGED <<DataToggle, skewed, devToggle, repeat>> /\ Expected(e)' = DataToggle[e]
      BY <3>1, <3>2, <1>1 DEF Submit, Expected
    <3> QED BY <3>1, <3>2, <3>3 DEF ToggleInStep, Follows
  <2> QED BY <1>0, <1>1, <2>1, OneEndpoint, OthersKept
<1>2. ASSUME NEW e \in Endpoints, AttachTds(e) PROVE InStep'
  <2>1. ToggleInStep(e)'
    BY <1>0, <1>2, IntervalAssumption DEF AttachTds, TdsRetired, Retired, InStep,
         ToggleInStep, Follows, Expected
  <2> QED BY <1>0, <1>2, <2>1, OneEndpoint, OthersKept
<1>3. ASSUME NEW e \in Endpoints, SubmitFails(e) PROVE InStep'
  <2>1. ToggleInStep(e)'
    BY <1>0, <1>3, IntervalAssumption DEF SubmitFails, Freed, ToggleInStep
  <2> QED BY <1>0, <1>3, <2>1, OneEndpoint, OthersKept
<1>4. ASSUME NEW e \in Endpoints, Activate(e) PROVE InStep'
  <2>1. ToggleInStep(e)'
    BY <1>0, <1>4, IntervalAssumption DEF Activate, TdsRetired, Retired, InStep,
         ToggleInStep, Follows, Expected
  <2> QED BY <1>0, <1>4, <2>1, OneEndpoint, OthersKept
<1>5. ASSUME NEW e \in Endpoints, Cancel(e) PROVE InStep'
  <2>1. ToggleInStep(e)'
    <3>1. ToggleInStep(e) /\ st[e] # "none" /\ st'[e] = "none" /\ (~ OutOfStep(e)
            /\ ~ skewed[e] => DataToggle'[e] = Expected(e))
      BY <1>0, <1>5, Ended DEF Cancel, InStep
    <3>2. CASE skewed'[e]
      BY <3>1, <3>2 DEF ToggleInStep
    <3>3. CASE ~ skewed'[e]
      <4>1. ~ skewed[e] /\ ~ OutOfStep(e) /\ UNCHANGED <<devToggle, repeat>>
        BY <1>0, <1>5, <3>3 DEF Cancel
      <4> QED BY <3>1, <4>1 DEF ToggleInStep, Follows
    <3> QED BY <3>2, <3>3
  <2> QED BY <1>0, <1>5, <2>1, OneEndpoint, OthersKept
<1>6. ASSUME NEW e \in Endpoints, ClearHalt(e) PROVE InStep'
  <2>1. ToggleInStep(e)'
    BY <1>0, <1>6, IntervalAssumption DEF ClearHalt, TdsRetired, Retired, InStep,
         ToggleInStep, Follows, Expected
  <2> QED BY <1>0, <1>6, <2>1, OneEndpoint, OthersKept
<1>7. ASSUME NEW e \in Endpoints, HcTakes(e) PROVE InStep'
  <2>1. ToggleInStep(e)'
    <3>1. ToggleInStep(e) /\ Retired(e) /\ st[e] = "active" /\ devToggle[e] = Expected(e)
      BY <1>0, <1>7 DEF HcTakes, InStep, TdsRetired
    <3>2. retired[e] \in Nat /\ first[e] \in 0 .. 1 /\ devToggle[e] \in 0 .. 1
            /\ Expected(e) \in 0 .. 1
      BY <1>0, Fields
    <3>3. UNCHANGED <<sync, DataToggle, skewed, first>>
      BY <1>7 DEF HcTakes
    <3>4. st'[e] \in {"active", "done"} /\ Expected(e)' = Flip(Expected(e))
      BY <1>0, <1>7, <3>2 DEF HcTakes, Expected
    <3>5. Follows(e, Expected(e))'
      BY <1>0, <3>1, <3>2, <3>4, <1>7 DEF HcTakes, Acknowledged, AcknowledgementLost, Follows
    <3> QED BY <3>1, <3>3, <3>4, <3>5 DEF ToggleInStep, Follows
  <2> QED BY <1>0, <1>7, <2>1, OneEndpoint, OthersKept
<1>8. ASSUME NEW e \in Endpoints, HcThrowsAway(e) PROVE InStep'
  <2>1. ToggleInStep(e)'
    <3>1. ToggleInStep(e) /\ Retired(e) /\ st[e] = "active" /\ devToggle[e] # Expected(e)
      BY <1>0, <1>8 DEF HcThrowsAway, InStep, TdsRetired
    <3>2. retired[e] \in Nat /\ first[e] \in 0 .. 1 /\ devToggle[e] \in 0 .. 1
            /\ Expected(e) \in 0 .. 1
      BY <1>0, Fields
    <3>3. UNCHANGED <<sync, DataToggle, skewed, first>>
      BY <1>8 DEF HcThrowsAway
    <3>4. st'[e] = "active" /\ Expected(e)' = Expected(e)
      BY <1>0, <1>8, <3>2 DEF HcThrowsAway, Expected
    <3>5. Follows(e, Expected(e))'
      BY <1>0, <3>1, <3>2, <3>4, <1>8 DEF HcThrowsAway, Acknowledged, AcknowledgementLost, Follows
    <3> QED BY <3>1, <3>3, <3>4, <3>5 DEF ToggleInStep, Follows
  <2> QED BY <1>0, <1>8, <2>1, OneEndpoint, OthersKept
<1>9. ASSUME NEW e \in Endpoints, HcFails(e) PROVE InStep'
  <2>1. ToggleInStep(e)'
    BY <1>0, <1>9, IntervalAssumption DEF HcFails, TdsRetired, Retired, InStep, ToggleInStep,
         Follows, Expected
  <2> QED BY <1>0, <1>9, <2>1, OneEndpoint, OthersKept
<1>10. CASE HouseKeeperTimer
  BY <1>0, <1>10, IntervalAssumption DEF HouseKeeperTimer, InStep, ToggleInStep, Expected,
       Follows, TdsRetired, Retired
<1>11. CASE SkipEntry
  BY <1>0, <1>11, IntervalAssumption DEF SkipEntry, InStep, ToggleInStep, Expected, Follows,
       TdsRetired, Retired
<1>12. CASE Resubmit
  <2>1. PICK e \in Endpoints : e = InterruptContextList[hk] /\ ~ sync[e]
    BY <1>12, EntryHasEd DEF Resubmit
  <2>2. ToggleInStep(e)'
    <3>1. /\ ToggleInStep(e) /\ Retired(e) /\ st[e] = "done" /\ st'[e] = "active"
               /\ retired'[e] = 0
          /\ first'[e] = carry[e] /\ carry[e] \in 0 .. 1
      BY <1>0, <1>12, <2>1 DEF Resubmit, Resubmitted, InStep, TdsRetired
    <3>2. UNCHANGED <<sync, DataToggle, skewed, devToggle, repeat>>
      BY <1>12 DEF Resubmit
    <3>3. carry[e] = Expected(e)
      BY <2>1, <3>1, IntervalAssumption DEF Retired
    <3>4. Expected(e)' = Expected(e)
      <4>1. \A t \in 0 .. 1 : (t + 0) % 2 = t
        OBVIOUS
      <4> QED BY <3>1, <3>3, <4>1 DEF Expected
    <3> QED BY <2>1, <3>1, <3>2, <3>4 DEF ToggleInStep, Follows
  <2> QED BY <1>0, <1>12, <2>1, <2>2, OneEndpoint, OthersKept
<1>13. CASE ErrorCallback
  <2>1. PICK e \in Endpoints : e = InterruptContextList[hk] /\ ~ sync[e]
    BY <1>13, EntryHasEd DEF ErrorCallback
  <2>2. ToggleInStep(e)'
    <3>1. ToggleInStep(e) /\ st[e] # "none" /\ st'[e] = "none" /\ (~ OutOfStep(e)
            /\ ~ skewed[e] => DataToggle'[e] = Expected(e))
      BY <1>0, <1>13, <2>1, Ended DEF ErrorCallback, InStep
    <3>2. UNCHANGED <<devToggle, repeat>> /\ (~ skewed'[e] => ~ skewed[e] /\ ~ OutOfStep(e))
      BY <1>0, <1>13, <2>1 DEF ErrorCallback
    <3> QED BY <3>1, <3>2 DEF ToggleInStep, Follows
  <2> QED BY <1>0, <1>13, <2>1, <2>2, OneEndpoint, OthersKept
<1>14. CASE OhciReset
  BY <1>0, <1>14, IntervalAssumption DEF OhciReset, InStep, ToggleInStep, Expected, Follows,
       TdsRetired, Retired, All
<1>15. CASE UNCHANGED periodicVars
  BY <1>0, <1>15 DEF periodicVars, InStep, ToggleInStep, Expected, Follows, TdsRetired, Retired
<1>16. CASE ReturnFromError
  BY <1>0, <1>16, IntervalAssumption DEF ReturnFromError, InStep, ToggleInStep, Expected,
       Follows, TdsRetired, Retired
<1> QED BY <1>1, <1>2, <1>3, <1>4, <1>5, <1>6, <1>7, <1>8, <1>9, <1>10, <1>11, <1>12,
           <1>13, <1>14, <1>15, <1>16 DEF PeriodicNext, Client, Controller, OhciHouseKeeper

\* The invariant holds when the driver starts.
LEMMA PeriodicInitially == PeriodicInit => PeriodicInv
<1> SUFFICES ASSUME PeriodicInit PROVE PeriodicInv
  OBVIOUS
<1>1. InterruptContextList = <<>> /\ hk = 0 /\ Len(InterruptContextList) = 0
        /\ InterruptContextList \in Seq(Endpoints)
  BY DEF PeriodicInit
<1>2. ASSUME NEW e \in Endpoints
      PROVE  /\ st[e] = "none" /\ at[e] = NoNode /\ sync[e] = FALSE /\ repeat[e] = FALSE
             /\ retired[e] = 0 /\ DataToggle[e] = 0 /\ devToggle[e] = 0 /\ Tds[e] \in Nat
  BY IntervalAssumption DEF PeriodicInit, All
<1>3. PeriodicTypeOK
  BY <1>1 DEF PeriodicInit, PeriodicTypeOK, All, States
<1>4. ContextHasEd /\ PolledInTime /\ EdOfTransfer
  <2>1. DOMAIN InterruptContextList = {}
    BY <1>1
  <2>2. ContextHasEd
    BY <1>2, <2>1 DEF ContextHasEd
  <2> QED BY <1>2, <2>2 DEF PolledInTime, EdOfTransfer
<1>5. TdsRetired /\ InStep
  <2> SUFFICES ASSUME NEW e \in Endpoints PROVE Retired(e) /\ ToggleInStep(e)
    BY DEF TdsRetired, InStep
  <2>1. Retired(e)
    <3>1. st[e] = "none" /\ retired[e] = 0 /\ Tds[e] \in Nat
      BY <1>2
    <3>2. retired[e] <= Tds[e] /\ ~ (retired[e] > 0)
      BY <3>1
    <3> QED BY <3>1, <3>2 DEF Retired
  <2>2. ToggleInStep(e)
    BY <1>2 DEF ToggleInStep, Follows
  <2> QED BY <2>1, <2>2
<1> QED BY <1>3, <1>4, <1>5 DEF PeriodicInv

(* The invariant holds of the interrupt transfers, for any endpoints, any     *)
(* intervals and lengths, and whatever the device answers.                    *)
THEOREM PeriodicInvariant == PeriodicSpec => []PeriodicInv
<1>1. PeriodicInit => PeriodicInv
  BY PeriodicInitially
<1>2. PeriodicInv /\ [PeriodicNext]_periodicVars => PeriodicInv'
  BY PeriodicTypeOKStep, ContextHasEdStep, EdOfTransferStep, TdsRetiredStep, InStepStep,
       PolledInTimeStep
     DEF PeriodicInv
<1> QED BY <1>1, <1>2, PTL DEF PeriodicSpec

(* The types of the state of the interrupt transfers.                        *)
THEOREM PeriodicTyped == PeriodicSpec => []PeriodicTypeOK
<1>1. PeriodicInv => PeriodicTypeOK
  BY DEF PeriodicInv
<1> QED BY <1>1, PeriodicInvariant, PTL

(* For any endpoints, and whatever is submitted, cancelled or freed between:   *)
(* no entry of the list is without its ED, no endpoint has two entries, and no *)
(* active ED of an asynchronous transfer is without one.  The entry that the   *)
(* house keeper still reads after an error callback is no longer in the list.  *)
THEOREM ContextsHaveEds == PeriodicSpec => []ContextHasEd
<1>1. PeriodicInv => ContextHasEd
  BY DEF PeriodicInv
<1> QED BY <1>1, PeriodicInvariant, PTL

(* However many endpoints the tree is loaded with, and whatever intervals they *)
(* ask for: OhciFindMinInterruptEDList puts an ED where the controller comes   *)
(* past it in every run of frames as long as its interval.                   *)
THEOREM EdsArePolledInTime == PeriodicSpec => []PolledInTime
<1>1. PeriodicInv => PolledInTime
  BY DEF PeriodicInv
<1> QED BY <1>1, PeriodicInvariant, PTL

(* For any endpoints and any number of TDs: through completions, resubmission, *)
(* cancellation and new transfers the controller takes each packet once.      *)
THEOREM PacketsAreInStep == PeriodicSpec => []PacketsInStep
<1>1. PeriodicInv => PacketsInStep
  <2> SUFFICES ASSUME PeriodicInv, NEW e \in Endpoints, st[e] = "active", ~ skewed[e]
               PROVE  (devToggle[e] = Expected(e)) = ~ repeat[e]
    BY DEF PacketsInStep
  <2>1. repeat[e] \in BOOLEAN
    BY DEF PeriodicInv, PeriodicTypeOK
  <2>2. IF repeat[e] THEN devToggle[e] # Expected(e) ELSE devToggle[e] = Expected(e)
    BY DEF PeriodicInv, InStep, ToggleInStep, Follows
  <2> QED BY <2>1, <2>2
<1> QED BY <1>1, PeriodicInvariant, PTL
=============================================================================
