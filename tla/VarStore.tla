------------------------------ MODULE VarStore ------------------------------
(***************************************************************************)
(* How the RAM image of the UEFI variables reaches the boot device, and    *)
(* what survives a reset: VarBlockServiceDxe.c (discovery of the boot      *)
(* device, DumpVars and its events), VarBlockService.c (load at boot) and  *)
(* ResetLib.c (the reset path).  Firmware code runs on one processor; the  *)
(* handlers run at TPL_CALLBACK, so that none of them preempts another and *)
(* no variable is set while one runs.  A transfer to the card is one step, *)
(* that stores any part of the image when it fails: a power loss or a card *)
(* pulled inside it is that failure followed by the event.                 *)
(*                                                                         *)
(* Release build: a failed ASSERT_EFI_ERROR logs nothing and goes on.      *)
(***************************************************************************)
EXTENDS Naturals, Sequences, FiniteSets

CONSTANTS
  Vars,       \* variables other than "ResetDelay"
  Hdr,        \* the cell of the volume header
  Delay,      \* the cell of "ResetDelay", the variable behind PcdPlatformResetDelay
  Settable,   \* delays a user can configure
  PLATFORM_RESET_DELAY,
  MaxValue,   \* variables take values 0 .. MaxValue
  Handles,    \* handles on which the DiskIo protocol can be installed
  MediaIds,   \* cards that can be in the slot; the boot card is BootCard
  BootCard,
  MaxPending, \* bound on the handlers waiting when another is signalled
  MaxSets     \* bound on the SetVariable calls of one behaviour

Cells == Vars \union {Hdr, Delay}

ASSUME CellAssumption == Hdr \notin Vars /\ Delay \notin Vars /\ Hdr # Delay
ASSUME DelayAssumption ==
  /\ PLATFORM_RESET_DELAY \in Nat \ {0}
  /\ Settable \subseteq Nat
ASSUME CardAssumption == BootCard \in MediaIds /\ "none" \notin MediaIds
ASSUME BoundAssumption ==
  MaxValue \in Nat /\ MaxPending \in Nat /\ MaxSets \in Nat

Good == 1   \* value of the cell Hdr when ValidateFvHeader accepts it
Image == {i \in [Cells -> Nat] : i[Hdr] \in {0, Good}}

(* What FvbInitialize makes of a volume with a bad header: all variables    *)
(* erased, and a good header.                                              *)
Reformatted == [c \in Cells |-> IF c = Hdr THEN Good ELSE 0]
(* A card that never held a variable store *)
Blank == [c \in Cells |-> 0]

(* A DiskIo handle is the whole boot device, a partition of it (its device   *)
(* path begins with the device's), or another disk.                        *)
ASSUME HandleAssumption == Handles \subseteq {"disk", "part", "other"}
Event == {"diskio", "rtb", "image", "reset"}

VARIABLES
  phase,      \* "boot", "resetting", "runtime" (after ExitBootServices), "off"
  resetTpl,   \* TPL of the caller of ResetSystem: "application" or "callback"
  sets,       \* counter behind the bound on SetVariable
  ram,        \* the RAM image
  Dirty, Device, MediaId,   \* fields of mFvInstance
  events,     \* handlers signalled and not yet run, in the order of the signals
  rtbArmed,   \* the ReadyToBoot event exists
  imgArmed,   \* the LoadedImage notification exists
  installed,  \* handles that carry DiskIo
  queue,      \* handles LocateHandle (ByRegisterNotify) has still to return
  discovering,\* OnDiskIoInstall is in its loop
  card,       \* media id of the card in the slot, or "none"
  readOnly,   \* write protect switch of the card
  cache,      \* what the card in the slot has accepted
  perm        \* what it keeps without power

fv == <<ram, Dirty, Device, MediaId>>
arms == <<rtbArmed, imgArmed>>
medium == <<card, readOnly, cache, perm>>
vars == <<phase, resetTpl, sets, fv, events, arms, installed, queue,
          discovering, medium>>

Idle == ~discovering
HandlersRun ==
  phase = "boot" \/ (phase = "resetting" /\ resetTpl = "application")

-----------------------------------------------------------------------------
(* The volatile state after power on and while power is off *)
Volatile(p, image) ==
  /\ phase' = p /\ resetTpl' = "application"
  /\ ram' = image
  /\ Device' = "none" /\ MediaId' = BootCard
  /\ events' = <<>> /\ rtbArmed' = TRUE /\ imgArmed' = FALSE
  /\ installed' = {} /\ queue' = <<>>
  /\ discovering' = FALSE

(* The firmware loads the image from the boot card; FvbInitialize *)
PowerOn ==
  /\ phase = "off" /\ card = BootCard
  /\ Volatile("boot", IF perm[Hdr] = Good THEN perm ELSE Reformatted)
  /\ Dirty' = (perm[Hdr] # Good)
  /\ UNCHANGED <<sets, medium>>

(* Power is lost: of what the card has accepted, it keeps the cells of S *)
PowerOff(S) ==
  /\ Volatile("off", Blank)
  /\ Dirty' = FALSE
  /\ perm' = [c \in Cells |-> IF c \in S THEN cache[c] ELSE perm[c]]
  /\ cache' = perm'
  /\ UNCHANGED <<sets, card, readOnly>>

(* A variable service writes through the FVB protocol (VarStoreWrite) *)
SetVariable(c, v) ==
  /\ phase \in {"boot", "runtime"} /\ Idle /\ sets < MaxSets
  /\ ram' = [ram EXCEPT ![c] = v]
  /\ Dirty' = TRUE
  /\ sets' = sets + 1
  /\ UNCHANGED <<phase, resetTpl, Device, MediaId, events, arms, installed,
                 queue, discovering, medium>>

-----------------------------------------------------------------------------
(* Events.  A handler that waits is not queued again (CoreSignalEvent), and  *)
(* those of one TPL run in the order of their signals.                     *)
Signalled(e) ==
  IF \E i \in DOMAIN events : events[i] = e THEN events ELSE Append(events, e)
Runs(e) == events # <<>> /\ Head(events) = e

DiskIoInstall(h) ==
  /\ phase = "boot" /\ Idle /\ h \notin installed
  /\ Len(events) < MaxPending
  /\ h # "other" => card # "none"
  /\ h = "part" => "disk" \in installed
  /\ installed' = installed \union {h}
  /\ queue' = Append(queue, h)
  /\ events' = Signalled("diskio")
  /\ UNCHANGED <<phase, resetTpl, sets, fv, arms, discovering, medium>>

Signal(e) ==
  /\ phase = "boot" /\ Idle /\ Len(events) < MaxPending
  /\ \/ e = "rtb" /\ rtbArmed
     \/ e = "image" /\ imgArmed
  /\ events' = Signalled(e)
  /\ UNCHANGED <<phase, resetTpl, sets, fv, arms, installed, queue, discovering,
                 medium>>

(* DoDump: LocateDevicePath takes the handle with the longest matching path, *)
(* WriteDisk asks for the remembered media id.  Only the whole device has   *)
(* the store at the offset written to; a partition has its own data there. *)
Located(path) ==
  IF path \in installed THEN path
  ELSE IF path = "part" /\ "disk" \in installed THEN "disk" ELSE "none"

(* Mutant of Accepts: the media id is not looked at *)
AcceptsAnyCard(id) == card # "none" /\ ~readOnly
Accepts(id) == card = id /\ ~readOnly

Store(handle, S) ==
  cache' = IF handle = "disk"
             THEN [c \in Cells |-> IF c \in S THEN ram[c] ELSE cache[c]] ELSE cache

(* Also a mutant of DumpSucceeds: a short transfer taken for a whole one *)
DumpFails(path, id) ==
  IF Accepts(id) THEN \E S \in SUBSET Cells : Store(Located(path), S)
  ELSE UNCHANGED cache

DumpSucceeds(path, id) ==
  Accepts(id) /\ Located(path) # "none" /\ Store(Located(path), Cells)

(* DumpVars after a successful dump.  PcdPlatformResetDelay is the variable  *)
(* "ResetDelay": PcdSet32S writes it into the image, and Dirty is cleared    *)
(* after that.  Mutant: the delay is left alone.                           *)
DelayUnchanged == UNCHANGED ram
RaiseDelay ==
  ram' = IF ram[Delay] < PLATFORM_RESET_DELAY
           THEN [ram EXCEPT ![Delay] = PLATFORM_RESET_DELAY] ELSE ram

DumpVars(e) ==
  /\ HandlersRun /\ Idle /\ Runs(e)
  /\ events' = Tail(events)
  /\ IF e = "rtb" THEN imgArmed' = TRUE /\ rtbArmed' = FALSE ELSE UNCHANGED arms
  /\ \/ /\ Device = "none" \/ ~Dirty
        /\ UNCHANGED <<ram, Dirty, cache>>
     \/ /\ Device # "none" /\ Dirty
        /\ \/ DumpSucceeds(Device, MediaId) /\ RaiseDelay /\ Dirty' = FALSE
           \/ DumpFails(Device, MediaId) /\ UNCHANGED <<ram, Dirty>>
  /\ UNCHANGED <<phase, resetTpl, sets, Device, MediaId, installed, queue,
                 discovering, card, readOnly, perm>>

IsBootDevice(h) == h # "other"

OnDiskIoInstall ==
  /\ HandlersRun /\ Idle /\ Runs("diskio")
  /\ events' = Tail(events)
  /\ discovering' = (Device = "none")
  /\ UNCHANGED <<phase, resetTpl, sets, fv, arms, installed, queue, medium>>

(* LocateHandle (ByRegisterNotify).  Mutant: it returns the same handle again *)
SameHandle == UNCHANGED queue
NextHandle == queue' = Tail(queue)

(* One turn of its loop.  The first handle that takes the image becomes the *)
(* store; Dirty is left as it is.                                          *)
Found(h) ==
  /\ DumpSucceeds(h, card)
  /\ Device' = h /\ MediaId' = card
  /\ discovering' = FALSE

DiscoverNext ==
  /\ discovering
  /\ \/ /\ queue = <<>>
        /\ discovering' = FALSE
        /\ UNCHANGED <<Device, MediaId, queue, cache>>
     \/ /\ queue # <<>>
        /\ NextHandle
        /\ LET h == Head(queue) IN
           IF IsBootDevice(h) /\ card # "none" /\ ~readOnly
             THEN \/ Found(h)
                  \/ /\ DumpFails(h, card)
                     /\ UNCHANGED <<Device, MediaId, discovering>>
             ELSE UNCHANGED <<Device, MediaId, discovering, cache>>
  /\ UNCHANGED <<phase, resetTpl, sets, ram, Dirty, events, arms, installed, card,
                 readOnly, perm>>

-----------------------------------------------------------------------------
(* LibResetSystem: the signalled handlers run at once if the caller is at    *)
(* TPL_APPLICATION; at TPL_CALLBACK they stay queued.                       *)
LibResetSystem(tpl) ==
  /\ phase = "boot" /\ Idle
  /\ phase' = "resetting" /\ resetTpl' = tpl
  /\ events' = Signalled("reset")
  /\ UNCHANGED <<sets, fv, arms, installed, queue, discovering, medium>>

(* MicroSecondDelay, then the PSCI call.  The card writes its cache back    *)
(* within PLATFORM_RESET_DELAY.                                            *)
ResetDone ==
  /\ phase = "resetting" /\ Idle
  /\ resetTpl = "application" => events = <<>>
  /\ \E S \in SUBSET Cells :
       /\ ram[Delay] >= PLATFORM_RESET_DELAY => S = Cells
       /\ PowerOff(S)

ExitBootServices ==
  /\ phase = "boot" /\ Idle /\ events = <<>>
  /\ phase' = "runtime"
  /\ UNCHANGED <<resetTpl, sets, fv, events, arms, installed, queue, discovering,
                 medium>>

(* A reset at runtime dumps nothing; power can be lost at any step *)
PowerLoss == phase # "off" /\ \E S \in SUBSET Cells : PowerOff(S)

-----------------------------------------------------------------------------
(* The slot.  The handles of a card go with it; "other" was queued once. *)
PullCard ==
  /\ phase = "boot" /\ card # "none"
  /\ card' = "none"
  /\ installed' = installed \ {"disk", "part"}
  /\ queue' = IF \E i \in DOMAIN queue : queue[i] = "other" THEN <<"other">>
              ELSE <<>>
  /\ cache' = Blank /\ perm' = Blank
  /\ UNCHANGED <<phase, resetTpl, sets, fv, events, arms, discovering,
                 readOnly>>

InsertOther(id) ==
  /\ phase = "boot" /\ card = "none" /\ id # BootCard
  /\ card' = id
  /\ UNCHANGED <<phase, resetTpl, sets, fv, events, arms, installed, queue,
                 discovering, cache, perm, readOnly>>

-----------------------------------------------------------------------------
Init ==
  /\ \E image \in {Blank, Reformatted} :
       /\ perm = image
       /\ ram = IF image[Hdr] = Good THEN image ELSE Reformatted
       /\ Dirty = (image[Hdr] # Good)
  /\ cache = perm
  /\ phase = "boot" /\ resetTpl = "application" /\ sets = 0
  /\ Device = "none" /\ MediaId = BootCard
  /\ events = <<>> /\ rtbArmed = TRUE /\ imgArmed = FALSE
  /\ installed = {} /\ queue = <<>>
  /\ discovering = FALSE
  /\ card = BootCard /\ readOnly \in BOOLEAN

Handlers ==
  \/ \E e \in {"rtb", "image", "reset"} : DumpVars(e)
  \/ OnDiskIoInstall
  \/ DiscoverNext

Next ==
  \/ PowerOn
  \/ \E c \in Vars, v \in 0 .. MaxValue : SetVariable(c, v)
  \/ \E v \in Settable : SetVariable(Delay, v)
  \/ \E h \in Handles : DiskIoInstall(h)
  \/ \E e \in {"rtb", "image"} : Signal(e)
  \/ Handlers
  \/ \E tpl \in {"application", "callback"} : LibResetSystem(tpl)
  \/ ResetDone
  \/ ExitBootServices
  \/ PowerLoss
  \/ PullCard
  \/ \E id \in MediaIds : InsertOther(id)

Spec == Init /\ [][Next]_vars

(* The processor goes on with the handlers, and with a reset once begun *)
FairSpec == Spec /\ WF_vars(Handlers) /\ WF_vars(ResetDone)

-----------------------------------------------------------------------------
TypeOK ==
  /\ phase \in {"boot", "resetting", "runtime", "off"}
  /\ resetTpl \in {"application", "callback"}
  /\ sets \in Nat
  /\ ram \in Image /\ cache \in Image /\ perm \in Image
  /\ Dirty \in BOOLEAN
  /\ Device \in {"none", "disk", "part"}
  /\ MediaId \in MediaIds
  /\ events \in Seq(Event)
  /\ rtbArmed \in BOOLEAN /\ imgArmed \in BOOLEAN
  /\ installed \subseteq Handles
  /\ queue \in Seq(Handles)
  /\ discovering \in BOOLEAN
  /\ card \in MediaIds \union {"none"}
  /\ readOnly \in BOOLEAN

(* While the store is known and not dirty, the boot card has accepted every *)
(* cell of the image but "ResetDelay": DumpVars may skip its dump            *)
(* (VarBlockServiceDxe.c:199).                                             *)
CleanIsStored ==
  phase # "off" /\ Device = "disk" /\ ~Dirty /\ card = BootCard =>
    \A c \in Cells \ {Delay} : cache[c] = ram[c]

(* A reset that finds the store known and the image not dirty loses no       *)
(* variable: DumpVars has written them all, and either the delay it has      *)
(* raised outlasts the card's write cache, or the card had them before      *)
(* this boot (ResetLib.c:52-62).                                           *)
ResetKeepsVariables ==
  [][ResetDone /\ Device = "disk" /\ ~Dirty /\ card = BootCard
       => \A c \in Vars : perm'[c] = ram[c]]_vars

(* A card put in the slot after the store was found is never written: the    *)
(* dump asks for the media id it remembered (VarBlockServiceDxe.c:412).     *)
OtherCardUntouched ==
  Device # "none" /\ card \in MediaIds \ {MediaId} => cache = Blank

(* "Found variable store!" (VarBlockServiceDxe.c:408): what is found is the  *)
(* device the firmware was loaded from, not a partition of it.              *)
FoundIsTheStore == Device # "part"

(* A reset always ends: whatever handlers it finds waiting and whatever      *)
(* fails in them, discovery and the dump terminate (ResetLib.c:48-84).      *)
ResetCompletes == phase = "resetting" ~> phase = "off"
=============================================================================
