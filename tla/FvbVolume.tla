------------------------------ MODULE FvbVolume ------------------------------
(***************************************************************************)
(* The firmware volume block protocol of VarBlockServiceDxe.  The volume   *)
(* that holds the UEFI variables is an image in RAM; its header (flags,    *)
(* block map) is the first thing IN that image, because VolumeHeader and   *)
(* FvBase are two names of the same word (VarBlockService.h:29-32).        *)
(*                                                                         *)
(* A cell stands for a run of bytes.  Cell 0 is the volume header; an      *)
(* erased header reads as all ones: every flag set, and a block map of     *)
(* U32Max blocks of U32Max bytes.                                          *)
(***************************************************************************)
EXTENDS Integers, Sequences

CONSTANTS
  NumBlocks,   \* blocks of the volume (0x20 on the boards)
  BlockLen,    \* cells of one block
  U32Max,      \* value of an erased 32-bit field
  Modulus,     \* EFI_LBA and UINTN arithmetic wraps at this value (2^64)
  Data,        \* what callers write
  FF,          \* an erased cell
  HDR,         \* the header as the caller read it, or as FvbInfo.c builds it
  BadHdr,      \* what ValidateFvHeader rejects
  AttrRequests,\* flag sets SetAttributes is called with
  WriteOffsets,\* Offset and
  WriteLengths,\* *NumBytes that Write is called with
  EraseLists   \* argument lists of EraseBlocks: sequences of <<Lba, NumOfLba>>

FvLength == NumBlocks * BlockLen
Cells == 0 .. FvLength - 1
Values == Data \union {FF, HDR, BadHdr}
Ranges == (0 .. Modulus - 1) \X Nat

ASSUME SizeAssumption ==
  /\ NumBlocks \in Nat \ {0}
  /\ BlockLen \in Nat \ {0}
  /\ U32Max \in Nat /\ U32Max > FvLength
  /\ Modulus \in Nat /\ Modulus > FvLength
ASSUME ValueAssumption ==
  /\ FF \notin Data /\ HDR \notin Data /\ BadHdr \notin Data
  /\ FF # HDR /\ FF # BadHdr /\ HDR # BadHdr
ASSUME WriteAssumption ==
  WriteOffsets \subseteq 0 .. Modulus - 1 /\ WriteLengths \subseteq 0 .. Modulus - 1
ASSUME ListAssumption == EraseLists \subseteq Seq(Ranges)

-----------------------------------------------------------------------------
(* EFI_FVB_ATTRIBUTES_2 as a set of flags.  RANGE_LOCK_STATUS stands for    *)
(* the two status bits that are in neither EFI_FVB2_STATUS nor the mask of  *)
(* unchangeable bits.                                                      *)
StatusFlags == {"READ_STATUS", "WRITE_STATUS", "LOCK_STATUS"}
CapFlags == {"READ_DISABLED_CAP", "READ_ENABLED_CAP",
             "WRITE_DISABLED_CAP", "WRITE_ENABLED_CAP", "LOCK_CAP"}
FixedFlags == CapFlags \union {"STICKY_WRITE", "MEMORY_MAPPED",
                "ERASE_POLARITY", "RANGE_LOCK_CAP", "ALIGNMENT"}
Flags == StatusFlags \union FixedFlags \union {"RANGE_LOCK_STATUS"}

\* The header the firmware image is built with, 0x0004FEFF: everything set.
FdfAttributes == Flags
\* The header FvbInfo.c writes over a corrupted volume; mutant: with leave
\* to disable writes, or with leave to lock.
InfoAttributesLockable == {"MEMORY_MAPPED", "READ_ENABLED_CAP", "READ_STATUS",
                           "WRITE_ENABLED_CAP", "WRITE_STATUS", "ERASE_POLARITY",
                           "ALIGNMENT", "LOCK_CAP"}
InfoAttributesDisable == {"MEMORY_MAPPED", "READ_ENABLED_CAP", "READ_STATUS",
                          "WRITE_ENABLED_CAP", "WRITE_DISABLED_CAP", "WRITE_STATUS"}
InfoAttributes == {"MEMORY_MAPPED", "READ_ENABLED_CAP", "READ_STATUS",
                   "WRITE_ENABLED_CAP", "WRITE_STATUS", "ERASE_POLARITY",
                   "ALIGNMENT"}

VARIABLES
  inited,  \* FvbInitialize has run
  mem,     \* the RAM image
  hdrAttr, \* the flags an intact header holds
  summed,  \* history: the flags its checksum was taken over
  Dirty,   \* mFvInstance->Dirty
  stray,   \* a store went past the end of the volume
  ret,     \* status of the last call that returned, "" while one is running
  list,    \* argument list of the EraseBlocks in progress or last returned
  left,    \* what the second loop of EraseBlocks has still to erase
  before,  \* history: the image when the last EraseBlocks began
  loaded   \* history: image and flags as loaded from the boot device

vars == <<inited, mem, hdrAttr, summed, Dirty, stray, ret, list, left, before,
          loaded>>

Busy == ret = ""

(* The flags read through the header in RAM *)
Attributes == IF mem[0] = HDR THEN hdrAttr ELSE Flags

(* BlockMap[0], read through the header in RAM; a zero entry follows it *)
BlockMap == IF mem[0] = HDR
              THEN [NumBlocks |-> NumBlocks, Length |-> BlockLen]
              ELSE [NumBlocks |-> U32Max, Length |-> U32Max]

(* FvbGetLbaAddress: whether it finds the block, and where *)
(* with a mutant that counts one cell too few                               *)
LbaFound(lba) == lba < BlockMap.NumBlocks
LbaAddress(lba) == lba * BlockMap.Length
LbaLengthShort == BlockMap.Length - 1
LbaLength == BlockMap.Length

(* Whether the code sees a write cross the end of its block.  The sum is a  *)
(* UINTN: for a length near its limit it wraps, and the write is not cut.   *)
Crosses(offset, n) == LbaLength < (n + offset) % Modulus

(* What a write may still fill of its block; mutant: the offset is forgotten *)
RoomFromBlockStart(offset) == LbaLength
Room(offset) == LbaLength - offset

(* The cells of a block where the volume's layout puts it *)
BlockCells(lba) == {c \in Cells : c \div BlockLen = lba}

Span(address, n) == address .. address + n - 1
Escapes(address, n) == n > 0 /\ address + n > FvLength

-----------------------------------------------------------------------------
(* Mutant of MarkDirty: the driver forgets that the image changed *)
KeepClean == UNCHANGED Dirty
MarkDirty == Dirty' = TRUE

(* SetMem and CopyMem into the image: both leave the volume dirty *)
VarStoreErase(address, n) ==
  /\ mem' = [c \in Cells |-> IF c \in Span(address, n) THEN FF ELSE mem[c]]
  /\ stray' = (stray \/ Escapes(address, n))
  /\ MarkDirty

\* A caller that covers the header writes back the header it read.
VarStoreWrite(address, n, v) ==
  /\ mem' = [c \in Cells |-> IF c \notin Span(address, n) THEN mem[c]
                             ELSE IF c = 0 THEN HDR ELSE v]
  /\ stray' = (stray \/ Escapes(address, n))
  /\ MarkDirty

FvbInitialize ==
  /\ ~inited
  /\ inited' = TRUE
  /\ IF mem[0] = HDR
       THEN UNCHANGED <<mem, hdrAttr, summed, Dirty>>
       ELSE /\ mem' = [c \in Cells |-> IF c = 0 THEN HDR ELSE FF]
            /\ hdrAttr' = InfoAttributes
            /\ summed' = InfoAttributes
            /\ Dirty' = TRUE
  /\ UNCHANGED <<stray, ret, list, left, before, loaded>>

Ready == inited /\ ~Busy /\ ~stray

\* The flags are bytes of the image, but neither Dirty is set nor the
\* checksum of the header taken again.
FvbSetVolumeAttributes(new) ==
  LET old == Attributes
      Has(cap) == cap \in old
      Locked == /\ "LOCK_STATUS" \in old
                /\ old \intersect StatusFlags # new \intersect StatusFlags
      Incapable ==
        \/ ~Has("READ_DISABLED_CAP") /\ "READ_STATUS" \notin new
        \/ ~Has("READ_ENABLED_CAP") /\ "READ_STATUS" \in new
        \/ ~Has("WRITE_DISABLED_CAP") /\ "WRITE_STATUS" \notin new
        \/ ~Has("WRITE_ENABLED_CAP") /\ "WRITE_STATUS" \in new
        \/ ~Has("LOCK_CAP") /\ "LOCK_STATUS" \in new
      status == CASE old \intersect FixedFlags # new \intersect FixedFlags
                       -> "INVALID_PARAMETER"
                  [] OTHER -> IF Locked THEN "ACCESS_DENIED"
                              ELSE IF Incapable THEN "INVALID_PARAMETER"
                              ELSE "SUCCESS"
  IN
  /\ Ready
  /\ ret' = status
  /\ hdrAttr' = IF status # "SUCCESS" \/ mem[0] # HDR THEN hdrAttr
                ELSE (old \ StatusFlags) \union (new \intersect StatusFlags)
  /\ before' = mem /\ list' = <<>>
  /\ UNCHANGED <<inited, mem, summed, Dirty, stray, left, loaded>>

FvbProtocolWrite(lba, offset, n, v) ==
  LET m == IF Crosses(offset, n) THEN Room(offset) ELSE n IN
  /\ Ready
  /\ \/ /\ n = 0 \/ ~LbaFound(lba)
        /\ ret' = "INVALID_PARAMETER"
        /\ UNCHANGED <<mem, stray, Dirty>>
     \/ /\ n # 0 /\ LbaFound(lba)
        /\ "WRITE_STATUS" \notin Attributes
        /\ ret' = "ACCESS_DENIED"
        /\ UNCHANGED <<mem, stray, Dirty>>
     \/ /\ n # 0 /\ LbaFound(lba) /\ "WRITE_STATUS" \in Attributes
        /\ IF offset > LbaLength
             THEN ret' = "INVALID_PARAMETER" /\ UNCHANGED <<mem, stray, Dirty>>
             ELSE /\ VarStoreWrite(LbaAddress(lba) + offset, m, v)
                  /\ ret' = IF Crosses(offset, n) THEN "BAD_BUFFER_SIZE" ELSE "SUCCESS"
  /\ before' = mem' /\ list' = <<>>
  /\ UNCHANGED <<inited, hdrAttr, summed, left, loaded>>

(* StartingLba + NumOfLba is an EFI_LBA; mutant: off by one *)
BadRangeOffByOne(r) == r[2] = 0 \/ (r[1] + r[2]) % Modulus > NumBlocks + 1
BadRange(r) == r[2] = 0 \/ (r[1] + r[2]) % Modulus > NumBlocks

(* First loop of EraseBlocks: the whole list is checked before any erase *)
FvbProtocolEraseBlocks(l) ==
  /\ Ready
  /\ list' = l
  /\ before' = mem
  /\ IF \E i \in DOMAIN l : BadRange(l[i])
       THEN ret' = "INVALID_PARAMETER" /\ left' = <<>>
       ELSE ret' = "" /\ left' = l
  /\ UNCHANGED <<inited, mem, hdrAttr, summed, Dirty, stray, loaded>>

(* One iteration of the second loop: FvbEraseBlock(StartingLba) *)
FvbEraseBlock ==
  LET lba == Head(left)[1]
      n == Head(left)[2]
  IN
  /\ Busy /\ left # <<>> /\ n > 0
  /\ IF "WRITE_STATUS" \notin Attributes \/ ~LbaFound(lba)
       THEN /\ ret' = IF LbaFound(lba) THEN "ACCESS_DENIED" ELSE "INVALID_PARAMETER"
            /\ left' = <<>>
            /\ UNCHANGED <<mem, stray, Dirty>>
       ELSE /\ VarStoreErase(LbaAddress(lba), LbaLength)
            /\ left' = <<<<(lba + 1) % Modulus, n - 1>>>> \o Tail(left)
            /\ UNCHANGED ret
  /\ UNCHANGED <<inited, hdrAttr, summed, list, before, loaded>>

EraseNextRange ==
  /\ Busy /\ left # <<>> /\ Head(left)[2] = 0
  /\ left' = Tail(left)
  /\ UNCHANGED <<inited, mem, hdrAttr, summed, Dirty, stray, ret, list, before,
                 loaded>>

EraseReturn ==
  /\ Busy /\ left = <<>>
  /\ ret' = "SUCCESS"
  /\ UNCHANGED <<inited, mem, hdrAttr, summed, Dirty, stray, list, left, before,
                 loaded>>

-----------------------------------------------------------------------------
(* The boot loader leaves in RAM the volume it found in the firmware image: *)
(* the one the build made, or one that this driver dumped, or a bad one.    *)
Init ==
  /\ inited = FALSE
  /\ \E h \in {HDR, BadHdr}, d \in Data \union {FF} :
       mem = [c \in Cells |-> IF c = 0 THEN h ELSE d]
  /\ hdrAttr \in {FdfAttributes, InfoAttributes}
  /\ summed = hdrAttr
  /\ Dirty = FALSE
  /\ stray = FALSE
  /\ ret = "SUCCESS"
  /\ list = <<>>
  /\ left = <<>>
  /\ before = mem
  /\ loaded = <<mem, hdrAttr>>

Next ==
  \/ FvbInitialize
  \/ \E new \in AttrRequests : FvbSetVolumeAttributes(new)
  \/ \E lba \in 0 .. NumBlocks, off \in WriteOffsets,
        n \in WriteLengths, v \in Data : FvbProtocolWrite(lba, off, n, v)
  \/ \E l \in EraseLists : FvbProtocolEraseBlocks(l)
  \/ FvbEraseBlock
  \/ EraseNextRange
  \/ EraseReturn

Spec == Init /\ [][Next]_vars

-----------------------------------------------------------------------------
TypeOK ==
  /\ inited \in BOOLEAN
  /\ mem \in [Cells -> Values]
  /\ hdrAttr \in SUBSET Flags
  /\ summed \in SUBSET Flags
  /\ Dirty \in BOOLEAN
  /\ stray \in BOOLEAN
  /\ ret \in {"", "SUCCESS", "INVALID_PARAMETER", "ACCESS_DENIED",
              "BAD_BUFFER_SIZE"}
  /\ list \in Seq(Ranges)
  /\ left \in Seq(Ranges)
  /\ before \in [Cells -> Values]
  /\ loaded \in [Cells -> Values] \X SUBSET Flags

(* Whatever a caller asks of SetAttributes, the volume stays readable and   *)
(* writable: the header the build made is locked, and the one FvbInfo.c     *)
(* makes lacks the capabilities to disable either.  EraseBlocks relies on   *)
(* it: after its check of the list no erase of the second loop is denied.   *)
StaysWritable == {"READ_STATUS", "WRITE_STATUS"} \subseteq Attributes

(* FvbSetVolumeAttributes writes flags into the image behind the back of    *)
(* Dirty and of the checksum (VarBlockService.c:371-372), so no request of   *)
(* any caller may bring it to change one: an intact header has the checksum  *)
(* of its flags, or the next boot would throw the volume away (786-797), and *)
(* an image that is not Dirty has the cells and the flags the boot device    *)
(* holds, or a dump would be skipped.                                        *)
HeaderStaysValid ==
  /\ mem[0] = HDR => hdrAttr = summed
  /\ inited /\ <<mem, hdrAttr>> # loaded => Dirty

(* A range of EraseBlocks names a block it does not stop at *)
Named(l, c) == \E i \in DOMAIN l :
  LET lba == c \div BlockLen IN l[i][1] <= lba /\ lba < l[i][1] + l[i][2]

(* When EraseBlocks succeeds, exactly the blocks of its list are erased     *)
(* (VarBlockService.c:487).                                                 *)
EraseExact ==
  [][EraseReturn => \A c \in Cells : mem'[c] = IF Named(list, c) THEN FF
                                               ELSE before[c]]_vars

(* "If a block is requested that does not exist within the associated       *)
(* firmware volume [...] the EraseBlock() function must return              *)
(* EFI_INVALID_PARAMETER without modifying the contents of the firmware     *)
(* volume" (VarBlockService.c:489-493).                                     *)
EraseAllOrNothing == ret = "INVALID_PARAMETER" => mem = before

(* An erase stays inside the volume: the list "denotes" the blocks to       *)
(* erase (VarBlockService.c:487); and so does a write.                      *)
StaysInVolume == ~stray

(* A write ends at the block boundary (VarBlockService.c:575-577): whatever *)
(* the offset and the length, no cell of another block changes, as long as   *)
(* their sum is a UINTN.  One that wraps passes the check of line 641, and   *)
(* the write goes on behind the block and the volume.                        *)
WriteStopsAtBlock ==
  [][\A lba \in 0 .. NumBlocks, off \in WriteOffsets,
        n \in WriteLengths, v \in Data :
       off + n < Modulus /\ FvbProtocolWrite(lba, off, n, v) =>
         \A c \in Cells \ BlockCells(lba) : mem'[c] = mem[c]]_vars
=============================================================================
