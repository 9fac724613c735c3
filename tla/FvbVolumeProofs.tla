-------------------------- MODULE FvbVolumeProofs --------------------------
(* Theorems about FvbVolume, for every size of the volume, every set of     *)
(* callers' argument lists and every flag set asked of SetAttributes.       *)
EXTENDS FvbVolume, TLAPS

(* Why the status flags cannot change: either the header is locked, or it   *)
(* has no capability to disable reading or writing, and none to lock it.    *)
HeaderHolds(a) ==
  /\ {"READ_STATUS", "WRITE_STATUS"} \subseteq a
  /\ \/ "LOCK_STATUS" \in a
     \/ a \intersect {"READ_DISABLED_CAP", "WRITE_DISABLED_CAP", "LOCK_CAP"} = {}

(* No list of the callers wraps an EFI_LBA *)
NoWrap == \A l \in EraseLists : \A i \in DOMAIN l : l[i][1] + l[i][2] < Modulus

(* No sum of an offset that is accepted and a length wraps a UINTN *)
NoWriteWrap == \A off \in WriteOffsets, n \in WriteLengths :
  off <= BlockLen => off + n < Modulus

(* What is left to erase was checked against the size of the volume *)
LeftInVolume == \A i \in DOMAIN left : left[i][1] + left[i][2] <= NumBlocks

-----------------------------------------------------------------------------
(* The volume is not empty, so its length bounds the widths from below. *)
LEMMA LengthPositive ==
  /\ FvLength \in Nat /\ FvLength > 0
  /\ Modulus \in Nat /\ Modulus > 0
  /\ Cells \subseteq Nat /\ 0 \in Cells
<1>1. ASSUME NEW a \in Nat, NEW b \in Nat, a > 0, b > 0 PROVE a * b \in Nat /\ a * b > 0
  BY <1>1
<1>2. FvLength \in Nat /\ FvLength > 0
  BY <1>1, SizeAssumption DEF FvLength
<1> QED
  BY <1>2, SizeAssumption DEF Cells

(* An index behind the first, shifted back by one. *)
LEMMA ShiftIndex ==
  ASSUME NEW n \in Nat, NEW k, k = n - 1, n > 0, NEW i \in 1 .. k + 1, i # 1
  PROVE  i \in 2 .. k + 1 /\ i - 1 \in 1 .. n - 1
  OBVIOUS

(* An LBA below the modulus does not wrap. *)
LEMMA ModIdentity ==
  ASSUME NEW x \in Nat, x < Modulus
  PROVE  x % Modulus = x
  BY LengthPositive

(* Advancing StartingLba and counting NumOfLba down leaves a range. *)
LEMMA RangeStep ==
  ASSUME NEW x \in 0 .. Modulus - 1, NEW n \in Nat, n > 0
  PROVE  <<(x + 1) % Modulus, n - 1>> \in Ranges
<1>1. (x + 1) % Modulus \in 0 .. Modulus - 1
  BY LengthPositive
<1> QED
  BY <1>1 DEF Ranges

(* A range is an LBA and a count. *)
LEMMA RangeParts ==
  ASSUME NEW r \in Ranges
  PROVE  /\ r[1] \in Nat /\ r[1] < Modulus
         /\ r[2] \in Nat
         /\ r = <<r[1], r[2]>>
  BY LengthPositive DEF Ranges

(* The elements of an argument list are ranges. *)
LEMMA RangeOf ==
  ASSUME NEW s \in Seq(Ranges), NEW i \in DOMAIN s
  PROVE  s[i] \in Ranges
  OBVIOUS

(* The empty list is a list of ranges. *)
LEMMA EmptyRange == <<>> \in Seq(Ranges)
  OBVIOUS

(* Adding the two elements of a range and putting the rest of the list      *)
(* behind it keeps it a list of ranges.                                     *)
LEMMA ConsRange ==
  ASSUME NEW r \in Ranges, NEW s \in Seq(Ranges)
  PROVE  /\ <<r>> \o s \in Seq(Ranges)
         /\ DOMAIN (<<r>> \o s) = 1 .. Len(s) + 1
         /\ (<<r>> \o s)[1] = r
         /\ \A i \in 2 .. Len(s) + 1 : (<<r>> \o s)[i] = s[i - 1]
  OBVIOUS

(* What EraseNextRange leaves: the rest of the list, shifted by one. *)
LEMMA TailRange ==
  ASSUME NEW s \in Seq(Ranges), s # <<>>
  PROVE  /\ Tail(s) \in Seq(Ranges)
         /\ Head(s) \in Ranges
         /\ Len(s) \in Nat /\ Len(s) > 0
         /\ Head(s) = s[1] /\ 1 \in DOMAIN s
         /\ Len(Tail(s)) = Len(s) - 1
         /\ DOMAIN Tail(s) = 1 .. Len(s) - 1
         /\ \A i \in 1 .. Len(s) - 1 : Tail(s)[i] = s[i + 1] /\ i + 1 \in DOMAIN s
  OBVIOUS

(* Type correctness of the volume, the flags and the erase list. *)
THEOREM TypeCorrect == Spec => []TypeOK
<1>1. Init => TypeOK
  <2> SUFFICES ASSUME Init PROVE TypeOK
    OBVIOUS
  <2>1. mem \in [Cells -> Values]
    BY DEF Init, Values
  <2>2. hdrAttr \in SUBSET Flags /\ summed \in SUBSET Flags
    BY DEF Init, FdfAttributes, InfoAttributes, Flags, StatusFlags, FixedFlags, CapFlags
  <2> QED
    BY <2>1, <2>2, EmptyRange DEF Init, TypeOK
<1>2. TypeOK /\ [Next]_vars => TypeOK'
  <2> SUFFICES ASSUME TypeOK, [Next]_vars PROVE TypeOK'
    OBVIOUS
  <2>0. Cells \subseteq Int /\ 0 \in Cells
    BY LengthPositive
  <2>a. Attributes \in SUBSET Flags
    BY DEF Attributes, TypeOK
  <2>b. ASSUME NEW a, NEW n, VarStoreErase(a, n)
        PROVE  mem' \in [Cells -> Values] /\ stray' \in BOOLEAN /\ Dirty' \in BOOLEAN
    BY <2>b DEF VarStoreErase, MarkDirty, TypeOK, Values
  <2>c. ASSUME NEW a, NEW n, NEW v \in Data, VarStoreWrite(a, n, v)
        PROVE  mem' \in [Cells -> Values] /\ stray' \in BOOLEAN /\ Dirty' \in BOOLEAN
    BY <2>c DEF VarStoreWrite, MarkDirty, TypeOK, Values
  <2>1. CASE FvbInitialize
    <3>1. mem' \in [Cells -> Values]
      BY <2>1 DEF FvbInitialize, TypeOK, Values
    <3>2. hdrAttr' \in SUBSET Flags /\ summed' \in SUBSET Flags
      BY <2>1 DEF FvbInitialize, TypeOK, InfoAttributes, Flags, StatusFlags,
                  FixedFlags, CapFlags
    <3> QED
      BY <2>1, <3>1, <3>2 DEF FvbInitialize, TypeOK
  <2>2. ASSUME NEW new \in AttrRequests, FvbSetVolumeAttributes(new) PROVE TypeOK'
    <3>1. hdrAttr' \in SUBSET Flags
      <4>1. hdrAttr' = hdrAttr \/ hdrAttr' = (Attributes \ StatusFlags)
                                    \union (new \intersect StatusFlags)
        BY <2>2 DEF FvbSetVolumeAttributes
      <4> QED
        BY <4>1, <2>a DEF TypeOK, Flags
    <3>2. ret' \in {"SUCCESS", "INVALID_PARAMETER", "ACCESS_DENIED"}
      BY <2>2 DEF FvbSetVolumeAttributes
    <3>3. /\ before' = mem /\ list' = <<>>
          /\ UNCHANGED <<inited, mem, summed, Dirty, stray, left, loaded>>
      BY <2>2 DEF FvbSetVolumeAttributes
    <3> QED
      BY <3>1, <3>2, <3>3, EmptyRange DEF TypeOK
  <2>3. ASSUME NEW lba \in 0 .. NumBlocks, NEW off \in WriteOffsets,
               NEW n \in WriteLengths, NEW v \in Data,
               FvbProtocolWrite(lba, off, n, v)
        PROVE  TypeOK'
    <3>1. /\ mem' \in [Cells -> Values] /\ stray' \in BOOLEAN /\ Dirty' \in BOOLEAN
      BY <2>3, <2>c DEF FvbProtocolWrite, TypeOK
    <3>2. ret' \in {"SUCCESS", "INVALID_PARAMETER", "ACCESS_DENIED", "BAD_BUFFER_SIZE"}
      BY <2>3 DEF FvbProtocolWrite
    <3>3. /\ before' = mem' /\ list' = <<>>
          /\ UNCHANGED <<inited, hdrAttr, summed, left, loaded>>
      BY <2>3 DEF FvbProtocolWrite
    <3> QED
      BY <3>1, <3>2, <3>3, EmptyRange DEF TypeOK
  <2>4. ASSUME NEW l \in EraseLists, FvbProtocolEraseBlocks(l) PROVE TypeOK'
    <3>1. list' = l /\ left' \in {l, <<>>} /\ ret' \in {"", "INVALID_PARAMETER"}
      BY <2>4 DEF FvbProtocolEraseBlocks
    <3>2. /\ before' = mem
          /\ UNCHANGED <<inited, mem, hdrAttr, summed, Dirty, stray, loaded>>
      BY <2>4 DEF FvbProtocolEraseBlocks
    <3>3. l \in Seq(Ranges)
      BY ListAssumption
    <3> QED
      BY <3>1, <3>2, <3>3, EmptyRange DEF TypeOK
  <2>5. CASE FvbEraseBlock
    <3> DEFINE r == <<(Head(left)[1] + 1) % Modulus, Head(left)[2] - 1>>
    <3>1. left \in Seq(Ranges) /\ left # <<>> /\ Head(left)[2] > 0
      BY <2>5 DEF FvbEraseBlock, TypeOK
    <3>2. Head(left) \in Ranges /\ Tail(left) \in Seq(Ranges)
      BY <3>1, TailRange
    <3>3. r \in Ranges
      BY <3>1, <3>2, RangeStep DEF Ranges
    <3>4. left' \in Seq(Ranges)
      <4>1. left' = <<>> \/ left' = <<r>> \o Tail(left)
        BY <2>5 DEF FvbEraseBlock
      <4> HIDE DEF r
      <4> QED
        BY <4>1, <3>2, <3>3, ConsRange, EmptyRange
    <3>5. /\ mem' \in [Cells -> Values] /\ stray' \in BOOLEAN /\ Dirty' \in BOOLEAN
      BY <2>5, <2>b DEF FvbEraseBlock, TypeOK
    <3>6. ret' \in {"", "INVALID_PARAMETER", "ACCESS_DENIED"}
      BY <2>5 DEF FvbEraseBlock, Busy
    <3>7. UNCHANGED <<inited, hdrAttr, summed, list, before, loaded>>
      BY <2>5 DEF FvbEraseBlock
    <3> QED
      BY <3>4, <3>5, <3>6, <3>7 DEF TypeOK
  <2>6. CASE EraseNextRange
    <3>1. left' \in Seq(Ranges)
      BY <2>6, TailRange DEF EraseNextRange, TypeOK
    <3> QED
      BY <2>6, <3>1 DEF EraseNextRange, TypeOK
  <2>7. CASE EraseReturn
    BY <2>7 DEF EraseReturn, TypeOK
  <2>8. CASE UNCHANGED vars
    BY <2>8 DEF vars, TypeOK
  <2> QED
    BY <2>1, <2>2, <2>3, <2>4, <2>5, <2>6, <2>7, <2>8 DEF Next
<1> QED
  BY <1>1, <1>2, PTL DEF Spec

-----------------------------------------------------------------------------
(* The flags that keep the volume writable *)
HeaderInv == HeaderHolds(hdrAttr)

(* Whether the header is intact or erased, the flags read through it hold   *)
(* both status bits.                                                        *)
LEMMA HeaderKeepsStatus ==
  ASSUME HeaderInv
  PROVE  {"READ_STATUS", "WRITE_STATUS"} \subseteq Attributes
  BY DEF HeaderInv, HeaderHolds, Attributes, Flags, StatusFlags

(* No request of a caller changes a flag: a locked header refuses any       *)
(* change of the status flags, and the unlocked one refuses to clear what    *)
(* is set and to set what is clear.                                         *)
LEMMA SetAttributesKeeps ==
  ASSUME HeaderInv, NEW new, FvbSetVolumeAttributes(new)
  PROVE  hdrAttr' = hdrAttr
<1> SUFFICES ASSUME hdrAttr' # hdrAttr PROVE FALSE
  OBVIOUS
<1>1. mem[0] = HDR /\ Attributes = hdrAttr
  BY DEF FvbSetVolumeAttributes, Attributes
<1>2. hdrAttr' = (hdrAttr \ StatusFlags) \union (new \intersect StatusFlags)
  BY <1>1 DEF FvbSetVolumeAttributes
<1>3. ret' = "SUCCESS"
  BY <1>1 DEF FvbSetVolumeAttributes
<1>4. ~ /\ "LOCK_STATUS" \in hdrAttr
        /\ hdrAttr \intersect StatusFlags # new \intersect StatusFlags
  BY <1>1, <1>3 DEF FvbSetVolumeAttributes
<1>5. /\ "READ_DISABLED_CAP" \notin hdrAttr => "READ_STATUS" \in new
      /\ "WRITE_DISABLED_CAP" \notin hdrAttr => "WRITE_STATUS" \in new
      /\ "LOCK_CAP" \notin hdrAttr => "LOCK_STATUS" \notin new
  BY <1>1, <1>3 DEF FvbSetVolumeAttributes
<1>6. hdrAttr \intersect StatusFlags = new \intersect StatusFlags
  <2>1. CASE "LOCK_STATUS" \in hdrAttr
    BY <1>4, <2>1
  <2>2. CASE "LOCK_STATUS" \notin hdrAttr
    <3>1. hdrAttr \intersect {"READ_DISABLED_CAP", "WRITE_DISABLED_CAP", "LOCK_CAP"} = {}
      BY <2>2 DEF HeaderInv, HeaderHolds
    <3>2. "READ_STATUS" \in new /\ "WRITE_STATUS" \in new /\ "LOCK_STATUS" \notin new
      BY <1>5, <3>1
    <3>3. "READ_STATUS" \in hdrAttr /\ "WRITE_STATUS" \in hdrAttr
      BY DEF HeaderInv, HeaderHolds
    <3> QED
      BY <2>2, <3>2, <3>3 DEF StatusFlags
  <2> QED
    BY <2>1, <2>2
<1> QED
  BY <1>2, <1>6

(* No step takes the status flags or both of their guards away. *)
LEMMA HeaderStep == HeaderInv /\ [Next]_vars => HeaderInv'
<1> SUFFICES ASSUME HeaderInv, [Next]_vars PROVE HeaderInv'
  OBVIOUS
<1>1. CASE FvbInitialize
  BY <1>1 DEF FvbInitialize, HeaderInv, HeaderHolds, InfoAttributes
<1>2. ASSUME NEW new \in AttrRequests, FvbSetVolumeAttributes(new) PROVE HeaderInv'
  BY <1>2, SetAttributesKeeps DEF HeaderInv
<1>3. ASSUME ~FvbInitialize, ~\E new \in AttrRequests : FvbSetVolumeAttributes(new)
      PROVE  hdrAttr' = hdrAttr
  BY <1>3 DEF Next, vars, FvbProtocolWrite, FvbProtocolEraseBlocks, FvbEraseBlock,
              EraseNextRange, EraseReturn
<1> QED
  BY <1>1, <1>2, <1>3 DEF HeaderInv

(* Both headers the volume can be loaded with hold the status flags. *)
LEMMA HeaderInit == Init => HeaderInv
  BY DEF Init, HeaderInv, HeaderHolds, FdfAttributes, InfoAttributes, Flags,
         StatusFlags, FixedFlags, CapFlags

(* No sequence of SetAttributes calls makes the volume unreadable or        *)
(* unwritable, whichever of the two headers it was loaded with.             *)
THEOREM AlwaysWritable == Spec => []StaysWritable
<1>1. HeaderInv => StaysWritable
  BY HeaderKeepsStatus DEF StaysWritable
<1> QED
  BY <1>1, HeaderInit, HeaderStep, PTL DEF Spec

-----------------------------------------------------------------------------
(* What the header and Dirty say of the image *)
DirtyInv ==
  /\ HeaderStaysValid
  /\ hdrAttr = summed
  /\ ~inited => <<mem, hdrAttr>> = loaded /\ ~Busy

(* Every step that changes a cell sets Dirty (VarBlockService.c:90-114), and *)
(* none but FvbInitialize, which takes the checksum, changes a flag.         *)
LEMMA DirtyStep == HeaderInv /\ DirtyInv /\ [Next]_vars => DirtyInv'
<1> SUFFICES ASSUME HeaderInv, DirtyInv, [Next]_vars PROVE DirtyInv'
  OBVIOUS
<1> USE DEF DirtyInv, HeaderStaysValid, Busy
<1>1. CASE FvbInitialize
  BY <1>1 DEF FvbInitialize
<1>2. ASSUME NEW new \in AttrRequests, FvbSetVolumeAttributes(new) PROVE DirtyInv'
  <2>1. UNCHANGED <<inited, mem, summed, Dirty, loaded>> /\ inited
    BY <1>2 DEF FvbSetVolumeAttributes, Ready
  <2>2. hdrAttr' = hdrAttr
    BY <1>2, SetAttributesKeeps
  <2> QED
    BY <2>1, <2>2
<1>3. ASSUME NEW lba \in 0 .. NumBlocks, NEW off \in WriteOffsets,
             NEW n \in WriteLengths, NEW v \in Data,
             FvbProtocolWrite(lba, off, n, v)
      PROVE  DirtyInv'
  <2>1. UNCHANGED <<inited, loaded, hdrAttr, summed>> /\ inited
    BY <1>3 DEF FvbProtocolWrite, Ready
  <2>2. UNCHANGED <<mem, Dirty>> \/ Dirty' = TRUE
    BY <1>3 DEF FvbProtocolWrite, VarStoreWrite, MarkDirty
  <2> QED
    BY <2>1, <2>2
<1>4. ASSUME NEW l \in EraseLists, FvbProtocolEraseBlocks(l) PROVE DirtyInv'
  BY <1>4 DEF FvbProtocolEraseBlocks, Ready
<1>5. CASE FvbEraseBlock
  <2>1. UNCHANGED <<inited, loaded, hdrAttr, summed>> /\ inited
    BY <1>5 DEF FvbEraseBlock
  <2>2. UNCHANGED <<mem, Dirty>> \/ Dirty' = TRUE
    BY <1>5 DEF FvbEraseBlock, VarStoreErase, MarkDirty
  <2> QED
    BY <2>1, <2>2
<1>6. CASE EraseNextRange
  BY <1>6 DEF EraseNextRange
<1>7. CASE EraseReturn
  BY <1>7 DEF EraseReturn
<1>8. CASE UNCHANGED vars
  BY <1>8 DEF vars
<1> QED
  BY <1>1, <1>2, <1>3, <1>4, <1>5, <1>6, <1>7, <1>8 DEF Next

(* No sequence of SetAttributes, writes and erases leaves an intact header   *)
(* whose checksum is not that of its flags, which the next boot would refuse *)
(* (VarBlockService.c:786-797), nor a RAM image that differs from the one    *)
(* loaded, in a cell or in a flag, without Dirty, which DumpVars would skip. *)
THEOREM HeaderAlwaysValid == Spec => []HeaderStaysValid
<1>1. Init => DirtyInv
  BY DEF Init, DirtyInv, HeaderStaysValid, Busy
<1>2. DirtyInv => HeaderStaysValid
  BY DEF DirtyInv
<1> QED
  BY <1>1, <1>2, HeaderInit, HeaderStep, DirtyStep, PTL DEF Spec

-----------------------------------------------------------------------------
(* The blocks fill the volume: a block below NumBlocks ends inside it. *)
LEMMA BlockFits ==
  ASSUME NEW lba \in Nat, lba < NumBlocks
  PROVE  /\ lba * BlockLen \in Nat
         /\ lba * BlockLen + BlockLen <= FvLength
<1>1. ASSUME NEW a \in Nat, NEW b \in Nat, NEW c \in Nat, a + 1 <= b
      PROVE  a * c \in Nat /\ a * c + c <= b * c
  BY <1>1
<1> QED
  BY <1>1, SizeAssumption DEF FvLength

(* A volume has fewer blocks than an LBA or an erased field can count. *)
LEMMA BlocksBelowMax == NumBlocks \in Nat /\ NumBlocks < U32Max /\ NumBlocks < Modulus
<1>1. ASSUME NEW a \in Nat, NEW b \in Nat, b > 0 PROVE a <= a * b
  BY <1>1
<1> QED
  BY <1>1, SizeAssumption, LengthPositive DEF FvLength

(* Advancing a range by one block keeps its end and leaves block 0 behind. *)
LEMMA RangeAdvance ==
  ASSUME NEW h \in Ranges, h[1] < NumBlocks, h[2] > 0, h[1] + h[2] <= NumBlocks
  PROVE  /\ <<h[1] + 1, h[2] - 1>> \in Ranges
         /\ (h[1] + 1) + (h[2] - 1) <= NumBlocks
         /\ h[1] + 1 # 0
<1>1. h[1] \in Nat /\ h[2] \in Nat
  BY RangeParts
<1>2. h[1] + 1 \in 0 .. Modulus - 1 /\ h[2] - 1 \in Nat
  BY <1>1, BlocksBelowMax, LengthPositive
<1> QED
  BY <1>1, <1>2, BlocksBelowMax DEF Ranges

(* The check of the first loop, for a list that does not wrap. *)
LEMMA CheckedList ==
  ASSUME NoWrap, NEW l \in EraseLists,
         \A i \in DOMAIN l : ~((l[i][1] + l[i][2]) % Modulus > NumBlocks)
  PROVE  \A i \in DOMAIN l : l[i][1] + l[i][2] <= NumBlocks
<1> SUFFICES ASSUME NEW i \in DOMAIN l PROVE l[i][1] + l[i][2] <= NumBlocks
  OBVIOUS
<1>1. l[i] \in Ranges
  BY ListAssumption, RangeOf
<1>2. l[i][1] \in Nat /\ l[i][2] \in Nat /\ l[i][1] + l[i][2] < Modulus
  BY <1>1, RangeParts DEF NoWrap
<1>3. ASSUME NEW a \in Nat, NEW b \in Nat, a + b < Modulus,
             ~((a + b) % Modulus > NumBlocks)
      PROVE  a + b <= NumBlocks
  <2>1. a + b \in Nat /\ (a + b) % Modulus = a + b
    BY <1>3, LengthPositive
  <2> QED
    BY <1>3, <2>1, BlocksBelowMax
<1> QED
  BY <1>2, <1>3

(* What the check of the first loop leaves for the second *)
EraseInv ==
  /\ EraseAllOrNothing
  /\ Busy => LeftInVolume
  /\ ~inited => ret = "SUCCESS"

(* An erase checked by the first loop is never refused by the second: the   *)
(* block exists and the volume is writable.                                 *)
LEMMA EraseBlockSucceeds ==
  ASSUME TypeOK, HeaderInv, EraseInv, FvbEraseBlock
  PROVE  /\ ret' = ret
         /\ VarStoreErase(LbaAddress(Head(left)[1]),
                          LbaLength)
         /\ left' = << <<Head(left)[1] + 1, Head(left)[2] - 1>> >> \o Tail(left)
         /\ Head(left) \in Ranges /\ Head(left) = left[1]
         /\ Head(left)[1] < NumBlocks
         /\ Head(left)[2] > 0
<1>1. left \in Seq(Ranges) /\ left # <<>> /\ Busy /\ Head(left)[2] > 0
  BY DEF FvbEraseBlock, TypeOK
<1>2. Head(left) \in Ranges /\ Head(left) = left[1] /\ 1 \in DOMAIN left
  BY <1>1, TailRange
<1>3. Head(left)[1] + Head(left)[2] <= NumBlocks
  BY <1>1, <1>2 DEF EraseInv, LeftInVolume
<1>4. Head(left)[1] < NumBlocks /\ Head(left)[1] \in Nat /\ Head(left)[2] \in Nat
  BY <1>1, <1>2, <1>3, BlocksBelowMax, LengthPositive DEF Ranges
<1>5. LbaFound(Head(left)[1])
  BY <1>4, BlocksBelowMax, SizeAssumption DEF LbaFound, BlockMap
<1>6. "WRITE_STATUS" \in Attributes
  BY HeaderKeepsStatus
<1>7. (Head(left)[1] + 1) % Modulus = Head(left)[1] + 1
  BY <1>4, BlocksBelowMax, LengthPositive, ModIdentity
<1> QED
  BY <1>1, <1>2, <1>4, <1>5, <1>6, <1>7 DEF FvbEraseBlock

(* Every step keeps what the first loop of EraseBlocks established. *)
LEMMA EraseStep ==
  ASSUME NoWrap, TypeOK, HeaderInv, EraseInv, [Next]_vars
  PROVE  EraseInv'
<1> USE DEF EraseInv, EraseAllOrNothing, Busy
<1>1. CASE FvbInitialize
  BY <1>1 DEF FvbInitialize
<1>2. ASSUME NEW new \in AttrRequests, FvbSetVolumeAttributes(new) PROVE EraseInv'
  BY <1>2 DEF FvbSetVolumeAttributes, Ready
<1>3. ASSUME NEW lba \in 0 .. NumBlocks, NEW off \in WriteOffsets,
             NEW n \in WriteLengths, NEW v \in Data,
             FvbProtocolWrite(lba, off, n, v)
      PROVE  EraseInv'
  <2>1. inited' /\ before' = mem' /\ ret' # ""
    BY <1>3 DEF FvbProtocolWrite, Ready
  <2> QED
    BY <2>1
<1>4. ASSUME NEW l \in EraseLists, FvbProtocolEraseBlocks(l) PROVE EraseInv'
  <2>1. inited' /\ before' = mem'
    BY <1>4 DEF FvbProtocolEraseBlocks, Ready
  <2>2. CASE ret' # ""
    BY <2>1, <2>2
  <2>3. CASE ret' = ""
    <3>1. left' = l /\ \A i \in DOMAIN l : ~((l[i][1] + l[i][2]) % Modulus > NumBlocks)
      BY <1>4, <2>3 DEF FvbProtocolEraseBlocks, BadRange
    <3>2. \A i \in DOMAIN l : l[i][1] + l[i][2] <= NumBlocks
      BY <3>1, CheckedList
    <3> QED
      BY <2>1, <2>3, <3>1, <3>2 DEF LeftInVolume
  <2> QED
    BY <2>2, <2>3
<1>5. CASE FvbEraseBlock
  <2> DEFINE r == <<Head(left)[1] + 1, Head(left)[2] - 1>>
  <2>1. left \in Seq(Ranges) /\ left # <<>> /\ ret = "" /\ inited' = inited
    BY <1>5 DEF FvbEraseBlock, TypeOK
  <2>2. /\ ret' = ret /\ left' = <<r>> \o Tail(left)
        /\ Head(left) \in Ranges /\ Head(left) = left[1]
        /\ Head(left)[1] < NumBlocks /\ Head(left)[2] > 0
    BY <1>5, EraseBlockSucceeds
  <2>3. \A i \in DOMAIN left : left[i][1] + left[i][2] <= NumBlocks
    BY <2>1 DEF LeftInVolume
  <2>4. r \in Ranges /\ r[1] + r[2] <= NumBlocks
    <3>1. left[1][1] + left[1][2] <= NumBlocks
      BY <2>1, <2>3, TailRange
    <3> QED
      BY <2>2, <3>1, RangeAdvance
  <2>5. Tail(left) \in Seq(Ranges)
    BY <2>1, TailRange
  <2>6. LeftInVolume'
    <3> SUFFICES ASSUME NEW i \in DOMAIN left' PROVE left'[i][1] + left'[i][2] <= NumBlocks
      BY DEF LeftInVolume
    <3> HIDE DEF r
    <3>0. /\ Len(Tail(left)) = Len(left) - 1
          /\ Len(left) \in Nat /\ Len(left) > 0
      BY <2>1, TailRange
    <3>1. i \in 1 .. Len(Tail(left)) + 1
      BY <2>2, <2>4, <2>5, ConsRange
    <3>2. CASE i = 1
      BY <2>2, <2>4, <2>5, <3>2, ConsRange
    <3>3. CASE i # 1
      <4>1. i \in 2 .. Len(Tail(left)) + 1 /\ i - 1 \in 1 .. Len(left) - 1
        BY <3>0, <3>1, <3>3, ShiftIndex
      <4>2. left'[i] = Tail(left)[i - 1]
        BY <2>2, <2>4, <2>5, <4>1, ConsRange
      <4>3. Tail(left)[i - 1] = left[(i - 1) + 1] /\ (i - 1) + 1 \in DOMAIN left
        BY <2>1, <4>1, TailRange
      <4> QED
        BY <2>3, <4>2, <4>3
    <3> QED
      BY <3>2, <3>3
  <2> QED
    BY <2>1, <2>2, <2>6
<1>6. CASE EraseNextRange
  <2>1. left \in Seq(Ranges) /\ left # <<>> /\ ret' = ret /\ left' = Tail(left)
        /\ ret = "" /\ inited' = inited
    BY <1>6 DEF EraseNextRange, TypeOK
  <2>2. LeftInVolume'
    <3> SUFFICES ASSUME NEW i \in DOMAIN left' PROVE left'[i][1] + left'[i][2] <= NumBlocks
      BY DEF LeftInVolume
    <3>1. left'[i] = left[i + 1] /\ i + 1 \in DOMAIN left
      BY <2>1, TailRange
    <3> QED
      BY <2>1, <3>1 DEF LeftInVolume
  <2> QED
    BY <2>1, <2>2
<1>7. CASE EraseReturn
  BY <1>7 DEF EraseReturn
<1>8. CASE UNCHANGED vars
  BY <1>8 DEF vars, LeftInVolume
<1> QED
  BY <1>1, <1>2, <1>3, <1>4, <1>5, <1>6, <1>7, <1>8 DEF Next

(* EraseBlocks verifies the whole list before it erases, and what it        *)
(* verified is enough: a rejected call has left the image untouched,        *)
(* provided no StartingLba + NumOfLba of its callers wraps.                 *)
THEOREM EraseIsAllOrNothing ==
  ASSUME NoWrap
  PROVE  Spec => []EraseAllOrNothing
<1>1. Init => EraseInv
  BY DEF Init, EraseInv, EraseAllOrNothing, Busy
<1>2. TypeOK /\ HeaderInv /\ EraseInv /\ [Next]_vars => EraseInv'
  BY EraseStep
<1>3. EraseInv => EraseAllOrNothing
  BY DEF EraseInv
<1> QED
  BY <1>1, <1>2, <1>3, TypeCorrect, HeaderInit, HeaderStep, PTL DEF Spec

-----------------------------------------------------------------------------
(* No list of the callers names the block that holds the header *)
HeaderLeftAlone == \A l \in EraseLists : \A i \in DOMAIN l : l[i][1] # 0

(* The header stays where the block map is read *)
HeaderStays ==
  /\ inited => mem[0] = HDR
  /\ ~inited => ret = "SUCCESS"
  /\ Busy => \A i \in DOMAIN left : left[i][1] # 0

(* The block map read through an intact header is the volume's own. *)
LEMMA IntactMap ==
  ASSUME mem[0] = HDR
  PROVE  BlockMap = [NumBlocks |-> NumBlocks, Length |-> BlockLen]
  BY DEF BlockMap

(* A write that starts in a block or at its end, and whose sum does not     *)
(* wrap, is cut to what is left of the block (VarBlockService.c:641-642).   *)
LEMMA CutToBlock ==
  ASSUME NEW off \in WriteOffsets, NEW n \in WriteLengths, off <= BlockLen, off + n < Modulus
  PROVE  LET m == IF BlockLen < (n + off) % Modulus THEN BlockLen - off ELSE n
         IN  m \in Nat /\ off + m <= BlockLen
<1>1. off \in Nat /\ n \in Nat /\ BlockLen \in Nat
  BY SizeAssumption, LengthPositive, WriteAssumption
<1>2. n + off \in Nat /\ n + off < Modulus
  BY <1>1
<1>3. (n + off) % Modulus = n + off
  BY <1>2, ModIdentity
<1> QED
  BY <1>1, <1>3

(* FvbProtocolWrite keeps the header, and if its sum does not wrap it stays  *)
(* inside the volume.                                                        *)
LEMMA WriteInVolume ==
  ASSUME TypeOK, HeaderStays, NEW lba \in 0 .. NumBlocks, NEW off \in WriteOffsets,
         NEW n \in WriteLengths, NEW v \in Data, FvbProtocolWrite(lba, off, n, v)
  PROVE  /\ mem'[0] = HDR /\ ret' # "" /\ UNCHANGED left /\ inited'
         /\ (off <= BlockLen => off + n < Modulus) => ~stray'
<1>1. inited /\ mem[0] = HDR /\ ~stray /\ ret' # "" /\ UNCHANGED <<left, inited>>
  BY DEF FvbProtocolWrite, Ready, HeaderStays
<1> DEFINE m == IF BlockLen < (n + off) % Modulus THEN BlockLen - off ELSE n
<1>2. /\ LbaFound(lba) <=> lba < NumBlocks
      /\ LbaAddress(lba) = lba * BlockLen
      /\ LbaLength = BlockLen
  <2>1. BlockMap.NumBlocks = NumBlocks /\ BlockMap.Length = BlockLen
    BY <1>1 DEF BlockMap
  <2> QED
    BY <2>1 DEF LbaFound, LbaAddress, LbaLength
<1>3. CASE UNCHANGED <<mem, stray, Dirty>>
  BY <1>1, <1>3
<1>4. CASE ~UNCHANGED <<mem, stray, Dirty>>
  <2>1. lba < NumBlocks /\ off <= BlockLen /\ VarStoreWrite(lba * BlockLen + off, m, v)
    <3>1. off \in Nat /\ BlockLen \in Nat
      BY SizeAssumption, LengthPositive, WriteAssumption
    <3>2. Crosses(off, n) <=> BlockLen < (n + off) % Modulus
      BY <1>2 DEF Crosses
    <3> QED
      BY <1>2, <1>4, <3>1, <3>2 DEF FvbProtocolWrite, Room
  <2>2. lba * BlockLen \in Nat /\ lba * BlockLen + BlockLen <= FvLength
    BY <2>1, BlockFits, SizeAssumption
  <2>3. ASSUME off + n < Modulus PROVE ~Escapes(lba * BlockLen + off, m)
    <3>1. m \in Nat /\ off + m <= BlockLen
      BY <2>1, <2>3, CutToBlock
    <3> HIDE DEF m
    <3>2. off \in Nat /\ BlockLen \in Nat /\ FvLength \in Nat
      BY <2>1, SizeAssumption, LengthPositive, WriteAssumption
    <3> QED
      BY <2>2, <3>1, <3>2 DEF Escapes
  <2>4. mem'[0] = HDR
    BY <1>1, <2>1, LengthPositive DEF VarStoreWrite
  <2> HIDE DEF m
  <2> QED
    BY <1>1, <2>1, <2>3, <2>4 DEF VarStoreWrite
<1> QED
  BY <1>3, <1>4

(* Erasing a block other than the first stays inside the volume and keeps   *)
(* its header.                                                              *)
LEMMA EraseInVolume ==
  ASSUME TypeOK, HeaderInv, EraseInv, HeaderStays, FvbEraseBlock, inited
  PROVE  /\ stray' = stray /\ mem'[0] = HDR /\ inited' = inited /\ ret' = ret
         /\ \A i \in DOMAIN left' : left'[i][1] # 0
<1> DEFINE r == <<Head(left)[1] + 1, Head(left)[2] - 1>>
           lba == Head(left)[1]
<1>1. left \in Seq(Ranges) /\ left # <<>> /\ Busy /\ inited' = inited
  BY DEF FvbEraseBlock, TypeOK
<1>2. /\ ret' = ret /\ left' = <<r>> \o Tail(left)
      /\ VarStoreErase(LbaAddress(lba), LbaLength)
      /\ Head(left) \in Ranges /\ Head(left) = left[1]
      /\ Head(left)[1] < NumBlocks /\ Head(left)[2] > 0
  BY EraseBlockSucceeds
<1>3. mem[0] = HDR
  BY DEF HeaderStays
<1>4. lba \in Nat /\ lba # 0 /\ lba < NumBlocks
  <2>1. 1 \in DOMAIN left
    BY <1>1, TailRange
  <2> QED
    BY <1>1, <1>2, <2>1, LengthPositive DEF HeaderStays, Ranges
<1>5. LbaAddress(lba) = lba * BlockLen /\ LbaLength = BlockLen
  BY <1>3, IntactMap DEF LbaAddress, LbaLength
<1>6. lba * BlockLen \in Nat /\ lba * BlockLen + BlockLen <= FvLength
  BY <1>4, BlockFits
<1>7. lba * BlockLen > 0
  <2>1. ASSUME NEW a \in Nat, NEW b \in Nat, a > 0, b > 0 PROVE a * b > 0
    BY <2>1
  <2> QED
    BY <1>4, <2>1, SizeAssumption
<1>8. VarStoreErase(lba * BlockLen, BlockLen)
  BY <1>2, <1>5
<1>9. stray' = stray
  <2>1. ~Escapes(lba * BlockLen, BlockLen)
    BY <1>6, SizeAssumption, LengthPositive DEF Escapes
  <2> QED
    BY <1>8, <2>1 DEF VarStoreErase, TypeOK
<1>10. mem'[0] = HDR
  BY <1>3, <1>6, <1>7, <1>8, SizeAssumption, LengthPositive DEF VarStoreErase, Span
<1>12. Head(left)[1] + Head(left)[2] <= NumBlocks
  BY <1>1, <1>2, TailRange DEF EraseInv, LeftInVolume
<1>11. \A i \in DOMAIN left' : left'[i][1] # 0
  <2>1. r \in Ranges /\ r[1] # 0
    BY <1>2, <1>12, RangeAdvance
  <2>2. Tail(left) \in Seq(Ranges)
    BY <1>1, TailRange
  <2> SUFFICES ASSUME NEW i \in DOMAIN left' PROVE left'[i][1] # 0
    OBVIOUS
  <2> HIDE DEF r
  <2>0. /\ Len(Tail(left)) = Len(left) - 1
        /\ Len(left) \in Nat /\ Len(left) > 0
    BY <1>1, TailRange
  <2>3. i \in 1 .. Len(Tail(left)) + 1
    BY <1>2, <2>1, <2>2, ConsRange
  <2>4. CASE i = 1
    BY <1>2, <2>1, <2>2, <2>4, ConsRange
  <2>5. CASE i # 1
    <3>1. i \in 2 .. Len(Tail(left)) + 1 /\ i - 1 \in 1 .. Len(left) - 1
      BY <2>0, <2>3, <2>5
    <3>2. left'[i] = Tail(left)[i - 1]
      BY <1>2, <2>1, <2>2, <3>1, ConsRange
    <3>3. Tail(left)[i - 1] = left[(i - 1) + 1] /\ (i - 1) + 1 \in DOMAIN left
      BY <1>1, <3>1, TailRange
    <3> QED
      BY <1>1, <3>2, <3>3 DEF HeaderStays
  <2> QED
    BY <2>4, <2>5
<1> QED
  BY <1>1, <1>2, <1>9, <1>10, <1>11

(* Every step keeps the header of the volume. *)
LEMMA HeaderStaysStep ==
  ASSUME HeaderLeftAlone, TypeOK, HeaderInv, EraseInv, HeaderStays, [Next]_vars
  PROVE  HeaderStays'
<1> USE DEF Busy
<1>1. CASE FvbInitialize
  BY <1>1, LengthPositive DEF FvbInitialize, HeaderStays
<1>2. ASSUME NEW new \in AttrRequests, FvbSetVolumeAttributes(new) PROVE HeaderStays'
  BY <1>2 DEF FvbSetVolumeAttributes, Ready, HeaderStays
<1>3. ASSUME NEW lba \in 0 .. NumBlocks, NEW off \in WriteOffsets,
             NEW n \in WriteLengths, NEW v \in Data,
             FvbProtocolWrite(lba, off, n, v)
      PROVE  HeaderStays'
  BY <1>3, WriteInVolume DEF HeaderStays
<1>4. ASSUME NEW l \in EraseLists, FvbProtocolEraseBlocks(l) PROVE HeaderStays'
  <2>1. /\ left' = l \/ (left' = <<>> /\ ret' # "")
        /\ inited' /\ inited /\ UNCHANGED mem
    BY <1>4 DEF FvbProtocolEraseBlocks, Ready
  <2> QED
    BY <2>1 DEF HeaderLeftAlone, HeaderStays
<1>5. CASE FvbEraseBlock
  <2>1. inited
    BY <1>5 DEF FvbEraseBlock, HeaderStays
  <2>2. /\ mem'[0] = HDR /\ inited' = inited /\ ret' = ret
        /\ \A i \in DOMAIN left' : left'[i][1] # 0
    BY <1>5, <2>1, EraseInVolume
  <2> QED
    BY <2>1, <2>2 DEF HeaderStays
<1>6. CASE EraseNextRange
  <2>1. /\ left \in Seq(Ranges) /\ left # <<>> /\ left' = Tail(left)
        /\ UNCHANGED <<inited, mem, ret>> /\ ret = ""
    BY <1>6 DEF EraseNextRange, TypeOK
  <2>2. ASSUME NEW i \in DOMAIN left' PROVE left'[i][1] # 0
    <3>1. left'[i] = left[i + 1] /\ i + 1 \in DOMAIN left
      BY <2>1, <2>2, TailRange
    <3> QED
      BY <2>1, <3>1 DEF HeaderStays
  <2> QED
    BY <2>1, <2>2 DEF HeaderStays
<1>7. CASE EraseReturn
  BY <1>7 DEF EraseReturn, HeaderStays
<1>8. CASE UNCHANGED vars
  BY <1>8 DEF vars, HeaderStays
<1> QED
  BY <1>1, <1>2, <1>3, <1>4, <1>5, <1>6, <1>7, <1>8 DEF Next

(* The steps that store into the image stay inside the volume. *)
LEMMA StrayStep ==
  ASSUME NoWriteWrap, TypeOK, HeaderInv, EraseInv, HeaderStays, StaysInVolume, [Next]_vars
  PROVE  StaysInVolume'
<1> USE DEF StaysInVolume
<1>1. ASSUME NEW lba \in 0 .. NumBlocks, NEW off \in WriteOffsets,
             NEW n \in WriteLengths, NEW v \in Data, FvbProtocolWrite(lba, off, n, v)
      PROVE  StaysInVolume'
  BY <1>1, WriteInVolume DEF NoWriteWrap
<1>2. CASE FvbEraseBlock
  <2>1. inited
    BY <1>2 DEF FvbEraseBlock, HeaderStays, Busy
  <2> QED
    BY <1>2, <2>1, EraseInVolume
<1>3. ASSUME ~FvbEraseBlock,
             ~\E lba \in 0 .. NumBlocks, off \in WriteOffsets,
                n \in WriteLengths, v \in Data : FvbProtocolWrite(lba, off, n, v)
      PROVE  stray' = stray
  BY <1>3 DEF Next, vars, FvbInitialize, FvbSetVolumeAttributes,
              FvbProtocolEraseBlocks, EraseNextRange, EraseReturn
<1> QED
  BY <1>1, <1>2, <1>3

(* Every write and erase stays inside the volume, whatever its size, as     *)
(* long as no caller erases the block that holds the volume header, and no   *)
(* sum of the first loop of EraseBlocks (line 526) or of a write (line 641)  *)
(* wraps.                                                                   *)
THEOREM NothingStrays ==
  ASSUME NoWrap, NoWriteWrap, HeaderLeftAlone
  PROVE  Spec => []StaysInVolume
<1>1. Init => EraseInv /\ HeaderStays /\ StaysInVolume
  BY DEF Init, EraseInv, EraseAllOrNothing, HeaderStays, StaysInVolume, Busy
<1>2. TypeOK /\ HeaderInv /\ EraseInv /\ [Next]_vars => EraseInv'
  BY EraseStep
<1>3. TypeOK /\ HeaderInv /\ EraseInv /\ HeaderStays /\ [Next]_vars => HeaderStays'
  BY HeaderStaysStep
<1>4. TypeOK /\ HeaderInv /\ EraseInv /\ HeaderStays /\ StaysInVolume /\ [Next]_vars
        => StaysInVolume'
  BY StrayStep
<1> QED
  BY <1>1, <1>2, <1>3, <1>4, TypeCorrect, HeaderInit, HeaderStep, PTL DEF Spec

-----------------------------------------------------------------------------
\* The block of a cell, and the cells from the start of a block to its end.
LEMMA BlockOf ==
  ASSUME NEW c \in Nat, NEW lba \in Nat
  PROVE  c \div BlockLen = lba <=> lba * BlockLen <= c /\ c < lba * BlockLen + BlockLen
<1> DEFINE q == c \div BlockLen
<1>1. BlockLen \in Nat /\ BlockLen > 0
  BY SizeAssumption
<1>2. q \in Nat /\ q * BlockLen <= c /\ c < q * BlockLen + BlockLen
  BY <1>1
<1>3. ASSUME NEW a \in Nat, NEW b \in Nat, a < b PROVE a * BlockLen + BlockLen <= b * BlockLen
  <2>1. ASSUME NEW k \in Nat, NEW d \in Nat, NEW e \in Nat, k + 1 <= d
        PROVE  k * e + e <= d * e
    BY <2>1
  <2> QED BY <1>1, <1>3, <2>1
<1>4. \A a \in Nat : a * BlockLen \in Nat
  BY <1>1
<1> HIDE DEF q
<1>5. ASSUME lba * BlockLen <= c, c < lba * BlockLen + BlockLen PROVE q = lba
  <2>1. ~(q < lba)
    <3>1. q < lba => q * BlockLen + BlockLen <= lba * BlockLen
      BY <1>2, <1>3
    <3> QED BY <1>1, <1>2, <1>4, <1>5, <3>1
  <2>2. ~(lba < q)
    <3>1. lba < q => lba * BlockLen + BlockLen <= q * BlockLen
      BY <1>2, <1>3
    <3> QED BY <1>1, <1>2, <1>4, <1>5, <3>1
  <2> QED BY <1>2, <2>1, <2>2
<1>6. q = lba => lba * BlockLen <= c /\ c < lba * BlockLen + BlockLen
  BY <1>2
<1> QED BY <1>5, <1>6 DEF q

\* The range of a list that names a block, among those of the list.
Names(r, lba) == r[1] <= lba /\ lba < r[1] + r[2]

\* A list names what its first range or one of the others names.
LEMMA NamesTail ==
  ASSUME NEW s \in Seq(Ranges), s # <<>>, NEW c
  PROVE  Named(s, c) <=> Names(Head(s), c \div BlockLen) \/ Named(Tail(s), c)
<1> DEFINE lba == c \div BlockLen
<1>1. /\ Head(s) = s[1] /\ 1 \in DOMAIN s /\ Len(s) \in Nat /\ DOMAIN s = 1 .. Len(s)
      /\ DOMAIN Tail(s) = 1 .. Len(s) - 1
      /\ \A i \in 1 .. Len(s) - 1 : Tail(s)[i] = s[i + 1] /\ i + 1 \in DOMAIN s
  BY TailRange
<1> HIDE DEF lba
<1>2. Named(s, c) <=> \E i \in DOMAIN s : Names(s[i], lba)
  BY DEF Named, Names, lba
<1>3. Named(Tail(s), c) <=> \E i \in 1 .. Len(s) - 1 : Names(s[i + 1], lba)
  BY <1>1 DEF Named, Names, lba
<1>4. ASSUME NEW i \in DOMAIN s, Names(s[i], lba), i # 1
      PROVE  \E j \in 1 .. Len(s) - 1 : Names(s[j + 1], lba)
  <2>1. i - 1 \in 1 .. Len(s) - 1 /\ (i - 1) + 1 = i
    BY <1>1, <1>4
  <2> QED BY <1>4, <2>1
<1> QED BY <1>1, <1>2, <1>3, <1>4 DEF lba

\* The same for a list put together from a range and another list.
LEMMA NamesCons ==
  ASSUME NEW r \in Ranges, NEW s \in Seq(Ranges), NEW c
  PROVE  Named(<<r>> \o s, c) <=> Names(r, c \div BlockLen) \/ Named(s, c)
<1> DEFINE t == <<r>> \o s
<1>1. t \in Seq(Ranges) /\ t # <<>> /\ Head(t) = r
  BY ConsRange
<1>2. Tail(t) = s
  OBVIOUS
<1> HIDE DEF t
<1>3. Named(t, c) <=> Names(r, c \div BlockLen) \/ Named(s, c)
  BY <1>1, <1>2, NamesTail
<1> QED BY <1>3 DEF t

(* Between the two loops and the return: what is left to erase was named by  *)
(* the caller, and everything else is as the call is to leave it.           *)
ErasedInv ==
  Busy => \A c \in Cells :
            /\ Named(left, c) => Named(list, c)
            /\ ~Named(left, c) => mem[c] = IF Named(list, c) THEN FF ELSE before[c]

\* Erasing the first block of what is left takes it off what is left.
LEMMA ErasedByBlock ==
  ASSUME TypeOK, HeaderInv, EraseInv, HeaderStays, ErasedInv, FvbEraseBlock
  PROVE  ErasedInv'
<1> DEFINE lba == Head(left)[1]
           r == <<lba + 1, Head(left)[2] - 1>>
<1>1. left \in Seq(Ranges) /\ left # <<>> /\ Busy /\ UNCHANGED <<list, before>>
  BY DEF FvbEraseBlock, TypeOK
<1>2. /\ ret' = ret /\ left' = <<r>> \o Tail(left)
      /\ VarStoreErase(LbaAddress(lba), LbaLength)
      /\ Head(left) \in Ranges /\ Head(left) = left[1]
      /\ Head(left)[1] < NumBlocks /\ Head(left)[2] > 0
  BY EraseBlockSucceeds
<1>3. mem[0] = HDR
  BY <1>1 DEF HeaderStays, Busy
<1>4. LbaAddress(lba) = lba * BlockLen /\ LbaLength = BlockLen
  BY <1>3, IntactMap DEF LbaAddress, LbaLength
<1>5. lba \in Nat /\ Head(left)[2] \in Nat
  BY <1>2, RangeParts
<1>6. Head(left)[1] + Head(left)[2] <= NumBlocks
  BY <1>1, <1>2, TailRange DEF EraseInv, LeftInVolume
<1>7. r \in Ranges /\ Tail(left) \in Seq(Ranges)
  BY <1>1, <1>2, <1>6, RangeAdvance, TailRange
<1>8. ASSUME NEW c \in Cells
      PROVE  /\ Named(left', c) => Named(list', c)
             /\ ~Named(left', c) => mem'[c] = IF Named(list', c) THEN FF ELSE before'[c]
  <2> DEFINE b == c \div BlockLen
  <2>1. c \in Nat /\ b \in Nat
    BY LengthPositive, SizeAssumption
  <2>2. /\ Named(left, c) <=> Names(Head(left), b) \/ Named(Tail(left), c)
        /\ Named(left', c) <=> Names(r, b) \/ Named(Tail(left), c)
    <3> HIDE DEF r
    <3> QED BY <1>1, <1>2, <1>7, NamesTail, NamesCons
  <2>3. b = lba <=> lba * BlockLen <= c /\ c < lba * BlockLen + BlockLen
    BY <1>5, <2>1, BlockOf
  <2>4. mem'[c] = IF b = lba THEN FF ELSE mem[c]
    <3>1. mem'[c] = IF c \in Span(lba * BlockLen, BlockLen) THEN FF ELSE mem[c]
      BY <1>2, <1>4 DEF VarStoreErase
    <3>2. c \in Span(lba * BlockLen, BlockLen) <=> b = lba
      <4>1. lba * BlockLen \in Nat /\ BlockLen \in Nat
        BY <1>5, SizeAssumption
      <4> QED BY <2>1, <2>3, <4>1 DEF Span
    <3> QED BY <3>1, <3>2
  <2> HIDE DEF b
  <2>5. Names(Head(left), b) <=> b = lba \/ Names(r, b)
    BY <1>2, <1>5, <2>1 DEF Names
  <2>6. /\ Named(left, c) => Named(list, c)
        /\ ~Named(left, c) => mem[c] = IF Named(list, c) THEN FF ELSE before[c]
    BY <1>1 DEF ErasedInv
  <2> QED BY <1>1, <2>2, <2>4, <2>5, <2>6
<1> QED BY <1>8 DEF ErasedInv

\* Every step keeps ErasedInv: only the second loop runs while the call does.
LEMMA ErasedStep ==
  ASSUME NoWrap, TypeOK, HeaderInv, EraseInv, HeaderStays, ErasedInv, [Next]_vars
  PROVE  ErasedInv'
<1> USE DEF Busy
<1>1. CASE FvbInitialize
  BY <1>1 DEF FvbInitialize, ErasedInv, EraseInv
<1>2. ASSUME NEW new \in AttrRequests, FvbSetVolumeAttributes(new) PROVE ErasedInv'
  BY <1>2 DEF FvbSetVolumeAttributes, ErasedInv
<1>3. ASSUME NEW lba \in 0 .. NumBlocks, NEW off \in WriteOffsets,
             NEW n \in WriteLengths, NEW v \in Data, FvbProtocolWrite(lba, off, n, v)
      PROVE  ErasedInv'
  BY <1>3 DEF FvbProtocolWrite, ErasedInv
<1>4. ASSUME NEW l \in EraseLists, FvbProtocolEraseBlocks(l) PROVE ErasedInv'
  BY <1>4 DEF FvbProtocolEraseBlocks, ErasedInv
<1>5. CASE FvbEraseBlock
  BY <1>5, ErasedByBlock
<1>6. CASE EraseNextRange
  <2>1. /\ left \in Seq(Ranges) /\ left # <<>> /\ left' = Tail(left) /\ Head(left)[2] = 0
        /\ Busy /\ UNCHANGED <<mem, list, before>>
    BY <1>6 DEF EraseNextRange, TypeOK
  <2>2. ASSUME NEW c \in Cells PROVE Named(left', c) <=> Named(left, c)
    <3>1. Head(left) \in Ranges /\ c \div BlockLen \in Nat
      <4>1. Head(left) \in Ranges
        BY <2>1, TailRange
      <4>2. c \div BlockLen \in Nat
        BY LengthPositive, SizeAssumption
      <4> QED BY <4>1, <4>2
    <3>2. ~Names(Head(left), c \div BlockLen)
      <4>1. ASSUME NEW x \in Nat, NEW y \in Nat PROVE ~(x <= y /\ y < x + 0)
        OBVIOUS
      <4> QED BY <2>1, <3>1, <4>1, RangeParts DEF Names
    <3> QED BY <2>1, <3>2, NamesTail
  <2> QED BY <2>1, <2>2 DEF ErasedInv
<1>7. CASE EraseReturn
  BY <1>7 DEF EraseReturn, ErasedInv
<1>8. CASE UNCHANGED vars
  BY <1>8 DEF vars, ErasedInv, Named
<1> QED
  BY <1>1, <1>2, <1>3, <1>4, <1>5, <1>6, <1>7, <1>8 DEF Next

\* What a write changes lies in the block it names, if its sum does not wrap.
LEMMA WriteInBlock ==
  ASSUME TypeOK, HeaderStays, NEW lba \in 0 .. NumBlocks, NEW off \in WriteOffsets,
         NEW n \in WriteLengths, NEW v \in Data, off + n < Modulus, FvbProtocolWrite(lba, off, n, v),
         NEW c \in Cells \ BlockCells(lba)
  PROVE  mem'[c] = mem[c]
<1>1. inited /\ mem[0] = HDR
  BY DEF FvbProtocolWrite, Ready, HeaderStays
<1> DEFINE m == IF BlockLen < (n + off) % Modulus THEN BlockLen - off ELSE n
<1>2. LbaAddress(lba) = lba * BlockLen /\ LbaLength = BlockLen
  <2>1. BlockMap.NumBlocks = NumBlocks /\ BlockMap.Length = BlockLen
    BY <1>1 DEF BlockMap
  <2> QED BY <2>1 DEF LbaAddress, LbaLength
<1>3. CASE UNCHANGED <<mem, stray, Dirty>>
  BY <1>3
<1>4. CASE ~UNCHANGED <<mem, stray, Dirty>>
  <2>1. off <= BlockLen /\ VarStoreWrite(lba * BlockLen + off, m, v)
    <3>1. off \in Nat /\ BlockLen \in Nat
      BY SizeAssumption, LengthPositive, WriteAssumption
    <3>2. Crosses(off, n) <=> BlockLen < (n + off) % Modulus
      BY <1>2 DEF Crosses
    <3> QED
      BY <1>2, <1>4, <3>1, <3>2 DEF FvbProtocolWrite, Room
  <2>2. c \in Nat /\ lba \in Nat /\ lba * BlockLen \in Nat /\ BlockLen \in Nat
    BY LengthPositive, SizeAssumption
  <2>3. ~(lba * BlockLen <= c /\ c < lba * BlockLen + BlockLen)
    BY <2>2, BlockOf DEF BlockCells
  <2>4. c \notin Span(lba * BlockLen + off, m)
    <3>1. m \in Nat /\ off + m <= BlockLen
      BY <2>1, CutToBlock
    <3>2. off \in Nat
      BY LengthPositive, WriteAssumption
    <3> HIDE DEF m
    <3> QED
      BY <2>2, <2>3, <3>1, <3>2 DEF Span
  <2> QED BY <2>1, <2>4 DEF VarStoreWrite
<1> QED BY <1>3, <1>4

\* What the invariants of the volume say together.
VolumeInv == TypeOK /\ HeaderInv /\ EraseInv /\ HeaderStays /\ ErasedInv

\* They hold for callers that neither wrap nor name the block of the header.
LEMMA VolumeAlways ==
  ASSUME NoWrap, HeaderLeftAlone
  PROVE  Spec => []VolumeInv
<1>1. Init => EraseInv /\ HeaderStays /\ ErasedInv
  BY DEF Init, EraseInv, EraseAllOrNothing, HeaderStays, ErasedInv, Busy
<1>2. TypeOK /\ HeaderInv /\ EraseInv /\ [Next]_vars => EraseInv'
  BY EraseStep
<1>3. TypeOK /\ HeaderInv /\ EraseInv /\ HeaderStays /\ [Next]_vars => HeaderStays'
  BY HeaderStaysStep
<1>4. TypeOK /\ HeaderInv /\ EraseInv /\ HeaderStays /\ ErasedInv /\ [Next]_vars => ErasedInv'
  BY ErasedStep
<1> QED
  BY <1>1, <1>2, <1>3, <1>4, TypeCorrect, HeaderInit, HeaderStep, PTL DEF Spec, VolumeInv

(* Of callers whose lists neither wrap nor name the block of the header, a    *)
(* successful EraseBlocks erases the blocks of its list and nothing else.    *)
THEOREM ErasesExactly ==
  ASSUME NoWrap, HeaderLeftAlone
  PROVE  Spec => EraseExact
<1>1. VolumeInv /\ [Next]_vars
        => [EraseReturn => \A c \in Cells : mem'[c] = IF Named(list, c) THEN FF
                                                      ELSE before[c]]_vars
  <2> SUFFICES ASSUME VolumeInv, EraseReturn, NEW c \in Cells
               PROVE  mem'[c] = IF Named(list, c) THEN FF ELSE before[c]
    OBVIOUS
  <2>1. left = <<>> /\ Busy /\ mem' = mem
    BY DEF EraseReturn
  <2>2. ~Named(left, c)
    BY <2>1 DEF Named
  <2> QED BY <2>1, <2>2 DEF VolumeInv, ErasedInv
<1> QED BY <1>1, VolumeAlways, PTL DEF Spec, EraseExact

(* Of the same callers, and whatever the offsets and lengths of the writes,   *)
(* a write whose offset and length do not wrap changes no cell of another     *)
(* block.                                                                     *)
THEOREM WritesStopAtBlock ==
  ASSUME NoWrap, HeaderLeftAlone
  PROVE  Spec => WriteStopsAtBlock
<1>1. VolumeInv /\ [Next]_vars
        => [\A lba \in 0 .. NumBlocks, off \in WriteOffsets,
               n \in WriteLengths, v \in Data :
              off + n < Modulus /\ FvbProtocolWrite(lba, off, n, v) =>
                \A c \in Cells \ BlockCells(lba) : mem'[c] = mem[c]]_vars
  BY WriteInBlock DEF VolumeInv
<1> QED BY <1>1, VolumeAlways, PTL DEF Spec, WriteStopsAtBlock
=============================================================================
