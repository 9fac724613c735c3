--------------------------- MODULE VarStoreProofs ---------------------------
(* Theorems about VarStore, for every set of variables, values, cards and   *)
(* handles, and every length of the queues.                                 *)
EXTENDS VarStore, TLAPS

(* Storing part of the image in the card leaves the card an image. *)
LEMMA StoreIsImage ==
  ASSUME TypeOK, NEW h, NEW S, Store(h, S)
  PROVE  cache' \in Image
  BY CellAssumption DEF Store, Image, TypeOK, Good, Cells

(* A transfer, whole or cut short, leaves the card an image. *)
LEMMA DumpIsImage ==
  ASSUME TypeOK, NEW p, NEW id, DumpSucceeds(p, id) \/ DumpFails(p, id)
  PROVE  cache' \in Image
<1>1. CASE UNCHANGED cache
  BY <1>1 DEF TypeOK
<1>2. CASE \E S : Store(Located(p), S)
  BY <1>2, StoreIsImage
<1> QED
  BY <1>1, <1>2 DEF DumpSucceeds, DumpFails

(* Raising the delay changes no cell but "ResetDelay", and leaves it at     *)
(* PLATFORM_RESET_DELAY or more.                                            *)
LEMMA RaisedDelay ==
  ASSUME TypeOK, RaiseDelay
  PROVE  /\ ram' \in Image
         /\ \A c \in Cells \ {Delay} : ram'[c] = ram[c]
         /\ ram'[Delay] >= PLATFORM_RESET_DELAY
  BY CellAssumption, DelayAssumption DEF RaiseDelay, TypeOK, Image, Cells

(* The images a power on can start from. *)
LEMMA LoadedIsImage ==
  /\ Blank \in Image
  /\ Reformatted \in Image
  BY CellAssumption DEF Blank, Reformatted, Image, Cells, Good

(* Losing power leaves the card some mixture of two images. *)
LEMMA PowerOffIsImage ==
  ASSUME TypeOK, NEW S \in SUBSET Cells, PowerOff(S)
  PROVE  perm' \in Image /\ cache' \in Image
<1>1. perm' = [c \in Cells |-> IF c \in S THEN cache[c] ELSE perm[c]] /\ cache' = perm'
  BY DEF PowerOff
<1>2. Hdr \in Cells
  BY DEF Cells
<1> QED
  BY <1>1, <1>2 DEF Image, TypeOK

(* A handler queued once more leaves the queue a queue of handlers. *)
LEMMA SignalledIsSeq ==
  ASSUME events \in Seq(Event), NEW e \in Event
  PROVE  Signalled(e) \in Seq(Event)
  BY DEF Signalled

(* Dropping the head of a queue leaves a queue. *)
LEMMA TailIsSeq ==
  ASSUME NEW S, NEW s \in Seq(S), s # <<>>
  PROVE  Tail(s) \in Seq(S) /\ Head(s) \in S
  OBVIOUS

(* The state after power on and while power is off is well typed. *)
LEMMA VolatileTypes ==
  ASSUME NEW p \in {"boot", "off"}, NEW image \in Image, Volatile(p, image)
  PROVE  /\ phase' \in {"boot", "off"} /\ resetTpl' = "application"
         /\ ram' \in Image
         /\ Device' = "none" /\ MediaId' \in MediaIds
         /\ events' \in Seq(Event)
         /\ rtbArmed' \in BOOLEAN /\ imgArmed' \in BOOLEAN
         /\ installed' \subseteq Handles /\ queue' \in Seq(Handles)
         /\ discovering' \in BOOLEAN
<1>1. <<>> \in Seq(Event) /\ <<>> \in Seq(Handles)
  OBVIOUS
<1> QED
  BY <1>1, CardAssumption DEF Volatile

(* Type correctness. *)
THEOREM TypeCorrect == Spec => []TypeOK
<1>1. Init => TypeOK
  <2> SUFFICES ASSUME Init PROVE TypeOK
    OBVIOUS
  <2>1. ram \in Image /\ perm \in Image /\ cache \in Image
    BY LoadedIsImage DEF Init
  <2>2. <<>> \in Seq(Event) /\ <<>> \in Seq(Handles)
    OBVIOUS
  <2> QED
    BY <2>1, <2>2, CardAssumption DEF Init, TypeOK
<1>2. TypeOK /\ [Next]_vars => TypeOK'
  <2> SUFFICES ASSUME TypeOK, [Next]_vars PROVE TypeOK'
    OBVIOUS
  <2> USE DEF medium, fv, arms
  <2>0. ASSUME NEW S \in SUBSET Cells, PowerOff(S) PROVE TypeOK'
    <3>1. perm' \in Image /\ cache' \in Image
      BY <2>0, PowerOffIsImage
    <3>2. Volatile("off", Blank) /\ Dirty' = FALSE /\ UNCHANGED <<sets, card, readOnly>>
      BY <2>0 DEF PowerOff
    <3> QED
      BY <3>1, <3>2, VolatileTypes, LoadedIsImage DEF TypeOK
  <2>1. CASE PowerOn
    <3>1. /\ Volatile("boot", IF perm[Hdr] = Good THEN perm ELSE Reformatted)
          /\ Dirty' = (perm[Hdr] # Good) /\ UNCHANGED <<sets, medium>>
      BY <2>1 DEF PowerOn
    <3>2. (IF perm[Hdr] = Good THEN perm ELSE Reformatted) \in Image
      BY LoadedIsImage DEF TypeOK
    <3> QED
      BY <3>1, <3>2, VolatileTypes DEF TypeOK
  <2>2. ASSUME NEW c \in Vars \union {Delay}, NEW v \in Nat, SetVariable(c, v)
        PROVE  TypeOK'
    <3>1. ram' = [ram EXCEPT ![c] = v] /\ c # Hdr
      BY <2>2, CellAssumption DEF SetVariable
    <3>2. ram' \in Image
      <4>1. ram \in [Cells -> Nat] /\ ram[Hdr] \in {0, Good}
        BY DEF TypeOK, Image
      <4>2. ram' \in [Cells -> Nat] /\ ram'[Hdr] = ram[Hdr]
        BY <2>2, <3>1, <4>1 DEF Cells
      <4> QED
        BY <4>1, <4>2 DEF Image
    <3> QED
      BY <2>2, <3>2 DEF SetVariable, TypeOK
  <2>3. ASSUME NEW h \in Handles, DiskIoInstall(h) PROVE TypeOK'
    <3>1. events' \in Seq(Event)
      BY <2>3, SignalledIsSeq DEF DiskIoInstall, TypeOK, Event
    <3> QED
      BY <2>3, <3>1 DEF DiskIoInstall, TypeOK
  <2>4. ASSUME NEW e \in {"rtb", "image"}, Signal(e) PROVE TypeOK'
    <3>1. events' \in Seq(Event)
      BY <2>4, SignalledIsSeq DEF Signal, TypeOK, Event
    <3> QED
      BY <2>4, <3>1 DEF Signal, TypeOK
  <2>5. ASSUME NEW e \in {"rtb", "image", "reset"}, DumpVars(e) PROVE TypeOK'
    <3>1. events' \in Seq(Event)
      BY <2>5, TailIsSeq DEF DumpVars, Runs, TypeOK
    <3>2. cache' \in Image
      <4>1. UNCHANGED cache \/ DumpSucceeds(Device, MediaId) \/ DumpFails(Device, MediaId)
        BY <2>5 DEF DumpVars
      <4> QED
        BY <4>1, DumpIsImage DEF TypeOK
    <3>3. ram' \in Image /\ Dirty' \in BOOLEAN
      <4>1. (UNCHANGED ram \/ RaiseDelay) /\ (UNCHANGED Dirty \/ Dirty' = FALSE)
        BY <2>5 DEF DumpVars
      <4> QED
        BY <4>1, RaisedDelay DEF TypeOK
    <3>4. rtbArmed' \in BOOLEAN /\ imgArmed' \in BOOLEAN
      BY <2>5 DEF DumpVars, TypeOK
    <3>5. UNCHANGED <<phase, resetTpl, sets, Device, MediaId, installed, queue,
                      discovering, card, readOnly, perm>>
      BY <2>5 DEF DumpVars
    <3> QED
      BY <3>1, <3>2, <3>3, <3>4, <3>5 DEF TypeOK
  <2>6. CASE OnDiskIoInstall
    <3>1. events' \in Seq(Event)
      BY <2>6, TailIsSeq DEF OnDiskIoInstall, Runs, TypeOK
    <3> QED
      BY <2>6, <3>1 DEF OnDiskIoInstall, TypeOK
  <2>7. CASE DiscoverNext
    <3>1. UNCHANGED <<phase, resetTpl, sets, ram, Dirty, events, arms, installed, card,
                      readOnly, perm>>
      BY <2>7 DEF DiscoverNext
    <3>2. CASE queue = <<>>
      <4>1. discovering' = FALSE /\ UNCHANGED <<Device, MediaId, queue, cache>>
        BY <2>7, <3>2 DEF DiscoverNext
      <4> QED
        BY <3>1, <4>1 DEF TypeOK
    <3>3. CASE queue # <<>>
      <4> DEFINE h == Head(queue)
      <4>1. queue' \in Seq(Handles) /\ h \in Handles
        BY <2>7, <3>3, TailIsSeq DEF DiscoverNext, NextHandle, TypeOK
      <4>2. CASE Found(h) /\ IsBootDevice(h) /\ card # "none"
        <5>1. h \in {"disk", "part"} /\ card \in MediaIds
          BY <4>1, <4>2, HandleAssumption DEF IsBootDevice, TypeOK
        <5>2. cache' \in Image
          BY <4>2, DumpIsImage DEF Found
        <5>3. Device' = h /\ MediaId' = card /\ discovering' = FALSE
          BY <4>2 DEF Found
        <5> HIDE DEF h
        <5> QED
          BY <3>1, <4>1, <5>1, <5>2, <5>3 DEF TypeOK
      <4>3. CASE (DumpFails(h, card) \/ UNCHANGED cache)
                   /\ UNCHANGED <<Device, MediaId, discovering>>
        <5>1. cache' \in Image
          BY <4>3, DumpIsImage DEF TypeOK
        <5> QED
          BY <3>1, <4>1, <4>3, <5>1 DEF TypeOK
      <4> QED
        BY <2>7, <3>3, <4>2, <4>3 DEF DiscoverNext
    <3> QED
      BY <3>2, <3>3
  <2>8. ASSUME NEW tpl \in {"application", "callback"}, LibResetSystem(tpl)
        PROVE  TypeOK'
    <3>1. events' \in Seq(Event)
      BY <2>8, SignalledIsSeq DEF LibResetSystem, TypeOK, Event
    <3> QED
      BY <2>8, <3>1 DEF LibResetSystem, TypeOK
  <2>9. CASE ResetDone
    BY <2>0, <2>9 DEF ResetDone
  <2>10. CASE ExitBootServices
    BY <2>10 DEF ExitBootServices, TypeOK
  <2>11. CASE PowerLoss
    BY <2>0, <2>11 DEF PowerLoss
  <2>12. CASE PullCard
    <3>1. queue' \in Seq(Handles)
      <4>1. CASE \E i \in DOMAIN queue : queue[i] = "other"
        <5>1. "other" \in Handles
          BY <4>1 DEF TypeOK
        <5> QED
          BY <2>12, <4>1, <5>1 DEF PullCard
      <4>2. CASE ~\E i \in DOMAIN queue : queue[i] = "other"
        BY <2>12, <4>2 DEF PullCard
      <4> QED
        BY <4>1, <4>2
    <3> QED
      BY <2>12, <3>1, LoadedIsImage DEF PullCard, TypeOK
  <2>13. ASSUME NEW id \in MediaIds, InsertOther(id) PROVE TypeOK'
    BY <2>13 DEF InsertOther, TypeOK
  <2>14. CASE UNCHANGED vars
    BY <2>14 DEF vars, TypeOK
  <2>15. Settable \subseteq Nat /\ 0 .. MaxValue \subseteq Nat
    BY DelayAssumption, BoundAssumption
  <2> QED
    BY <2>1, <2>2, <2>3, <2>4, <2>5, <2>6, <2>7, <2>8, <2>9, <2>10, <2>11, <2>12,
       <2>13, <2>14, <2>15 DEF Next, Handlers
<1> QED
  BY <1>1, <1>2, PTL DEF Spec

-----------------------------------------------------------------------------
(* A successful dump to the whole device leaves the card with the image. *)
LEMMA DumpStoresAll ==
  ASSUME NEW id, DumpSucceeds("disk", id)
  PROVE  \A c \in Cells : cache'[c] = ram[c]
  BY DEF DumpSucceeds, Located, Store

(* A failed one leaves every cell as it was or as the image has it. *)
LEMMA DumpStoresSome ==
  ASSUME TypeOK, NEW path, NEW id, DumpFails(path, id)
  PROVE  \A c \in Cells : cache'[c] \in {cache[c], ram[c]}
  BY DEF DumpFails, Store, TypeOK, Image

(* Steps that reach no card and no variable keep what is stored stored. *)
LEMMA StoredUnchanged ==
  ASSUME CleanIsStored, UNCHANGED <<ram, cache, Device, Dirty>>,
         phase' # "off" => phase # "off", card' = BootCard => card = BootCard
  PROVE  CleanIsStored'
  BY DEF CleanIsStored

(* Dirty is clear only when the card has the image: no step clears it, or   *)
(* changes a variable without setting it, before the dump is whole.         *)
LEMMA StoredStep ==
  ASSUME TypeOK, CleanIsStored, [Next]_vars
  PROVE  CleanIsStored'
<1> USE DEF fv, arms, medium
<1>1. CASE PowerOn
  <2>1. Device' = "none"
    BY <1>1 DEF PowerOn, Volatile
  <2> QED
    BY <2>1 DEF CleanIsStored
<1>2. ASSUME NEW c, NEW v, SetVariable(c, v) PROVE CleanIsStored'
  BY <1>2 DEF SetVariable, CleanIsStored
<1>3. ASSUME NEW h, DiskIoInstall(h) PROVE CleanIsStored'
  BY <1>3, StoredUnchanged DEF DiskIoInstall
<1>4. ASSUME NEW e, Signal(e) PROVE CleanIsStored'
  BY <1>4, StoredUnchanged DEF Signal
<1>5. ASSUME NEW e, DumpVars(e) PROVE CleanIsStored'
  <2>1. UNCHANGED <<phase, card, Device>>
    BY <1>5 DEF DumpVars
  <2>2. CASE UNCHANGED <<ram, Dirty, cache>>
    BY <2>1, <2>2, StoredUnchanged
  <2>3. CASE Device # "none" /\ Dirty /\ UNCHANGED Dirty
    BY <2>3 DEF CleanIsStored
  <2>4. CASE DumpSucceeds(Device, MediaId) /\ RaiseDelay
    <3>1. Device = "disk" => \A c \in Cells : cache'[c] = ram[c]
      BY <2>4, DumpStoresAll
    <3>2. \A c \in Cells \ {Delay} : ram'[c] = ram[c]
      BY <2>4, RaisedDelay
    <3> QED
      BY <2>1, <3>1, <3>2 DEF CleanIsStored
  <2> QED
    BY <1>5, <2>2, <2>3, <2>4 DEF DumpVars
<1>6. CASE OnDiskIoInstall
  BY <1>6, StoredUnchanged DEF OnDiskIoInstall
<1>7. CASE DiscoverNext
  <2>1. UNCHANGED <<phase, card, ram, Dirty>>
    BY <1>7 DEF DiscoverNext
  <2>2. CASE UNCHANGED <<Device, cache>>
    BY <2>1, <2>2, StoredUnchanged
  <2>3. ASSUME NEW h, Found(h) PROVE CleanIsStored'
    <3>1. CASE h = "disk"
      <4>1. \A c \in Cells : cache'[c] = ram[c]
        BY <2>3, <3>1, DumpStoresAll DEF Found
      <4> QED
        BY <2>1, <4>1 DEF CleanIsStored
    <3>2. CASE h # "disk"
      BY <2>3, <3>2 DEF Found, CleanIsStored
    <3> QED
      BY <3>1, <3>2
  <2>4. ASSUME NEW h, DumpFails(h, card), UNCHANGED Device PROVE CleanIsStored'
    <3>1. \A c \in Cells : cache'[c] \in {cache[c], ram[c]}
      BY <2>4, DumpStoresSome
    <3> QED
      BY <2>1, <2>4, <3>1 DEF CleanIsStored
  <2> QED
    BY <1>7, <2>2, <2>3, <2>4 DEF DiscoverNext
<1>8. ASSUME NEW tpl, LibResetSystem(tpl) PROVE CleanIsStored'
  BY <1>8, StoredUnchanged DEF LibResetSystem
<1>9. ASSUME NEW S, PowerOff(S) PROVE CleanIsStored'
  BY <1>9 DEF PowerOff, Volatile, CleanIsStored
<1>10. CASE ExitBootServices
  BY <1>10, StoredUnchanged DEF ExitBootServices
<1>11. CASE PullCard
  BY <1>11, CardAssumption DEF PullCard, CleanIsStored
<1>12. ASSUME NEW id, InsertOther(id) PROVE CleanIsStored'
  BY <1>12 DEF InsertOther, CleanIsStored
<1>13. CASE UNCHANGED vars
  BY <1>13, StoredUnchanged DEF vars
<1> QED
  BY <1>1, <1>2, <1>3, <1>4, <1>5, <1>6, <1>7, <1>8, <1>9, <1>10, <1>11, <1>12, <1>13
     DEF Next, Handlers, ResetDone, PowerLoss

(* While the store is known and the image not dirty, the boot card has       *)
(* accepted every variable but "ResetDelay", so DumpVars may skip its dump   *)
(* (VarBlockServiceDxe.c:199-202).                                         *)
THEOREM CleanVariablesAreStored == Spec => []CleanIsStored
<1>1. Init => CleanIsStored
  BY DEF Init, CleanIsStored
<1>2. TypeOK /\ CleanIsStored /\ [Next]_vars => CleanIsStored'
  BY StoredStep
<1> QED
  BY <1>1, <1>2, TypeCorrect, PTL DEF Spec

-----------------------------------------------------------------------------
(* Why a clean image survives a reset: the delay was raised by the dump that *)
(* cleared Dirty, or nothing changed since the card was read at boot.       *)
Flushed ==
  phase # "off" /\ ~Dirty /\ card = BootCard =>
    \/ ram[Delay] >= PLATFORM_RESET_DELAY
    \/ \A c \in Vars : perm[c] = ram[c]

(* Steps that leave the image, what the card keeps, and Dirty alone. *)
LEMMA FlushedUnchanged ==
  ASSUME Flushed, UNCHANGED <<ram, perm, Dirty>>,
         phase' # "off" => phase # "off", card' = BootCard => card = BootCard
  PROVE  Flushed'
  BY DEF Flushed

(* Every step keeps the reason why a clean image survives. *)
LEMMA FlushedStep ==
  ASSUME TypeOK, Flushed, [Next]_vars
  PROVE  Flushed'
<1> USE DEF fv, arms, medium
<1>1. CASE PowerOn
  <2>1. CASE perm[Hdr] = Good
    BY <1>1, <2>1 DEF PowerOn, Volatile, Flushed
  <2>2. CASE perm[Hdr] # Good
    BY <1>1, <2>2 DEF PowerOn, Flushed
  <2> QED
    BY <2>1, <2>2
<1>2. ASSUME NEW c, NEW v, SetVariable(c, v) PROVE Flushed'
  BY <1>2 DEF SetVariable, Flushed
<1>3. ASSUME NEW h, DiskIoInstall(h) PROVE Flushed'
  BY <1>3, FlushedUnchanged DEF DiskIoInstall
<1>4. ASSUME NEW e, Signal(e) PROVE Flushed'
  BY <1>4, FlushedUnchanged DEF Signal
<1>5. ASSUME NEW e, DumpVars(e) PROVE Flushed'
  <2>1. UNCHANGED <<phase, card, perm>>
    BY <1>5 DEF DumpVars
  <2>2. CASE UNCHANGED <<ram, Dirty>>
    BY <2>1, <2>2, FlushedUnchanged
  <2>3. CASE RaiseDelay
    BY <2>3, RaisedDelay DEF Flushed
  <2> QED
    BY <1>5, <2>2, <2>3 DEF DumpVars
<1>6. CASE OnDiskIoInstall
  BY <1>6, FlushedUnchanged DEF OnDiskIoInstall
<1>7. CASE DiscoverNext
  BY <1>7, FlushedUnchanged DEF DiscoverNext
<1>8. ASSUME NEW tpl, LibResetSystem(tpl) PROVE Flushed'
  BY <1>8, FlushedUnchanged DEF LibResetSystem
<1>9. ASSUME NEW S, PowerOff(S) PROVE Flushed'
  BY <1>9 DEF PowerOff, Volatile, Flushed
<1>10. CASE ExitBootServices
  BY <1>10, FlushedUnchanged DEF ExitBootServices
<1>11. CASE PullCard
  BY <1>11, CardAssumption DEF PullCard, Flushed
<1>12. ASSUME NEW id, InsertOther(id) PROVE Flushed'
  BY <1>12 DEF InsertOther, Flushed
<1>13. CASE UNCHANGED vars
  BY <1>13, FlushedUnchanged DEF vars
<1> QED
  BY <1>1, <1>2, <1>3, <1>4, <1>5, <1>6, <1>7, <1>8, <1>9, <1>10, <1>11, <1>12, <1>13
     DEF Next, Handlers, ResetDone, PowerLoss

(* A reset with the store known and nothing dirty keeps every variable: the *)
(* card has accepted it, and had the time to write it back if it is new.    *)
THEOREM ResetKeeps == Spec => ResetKeepsVariables
<1>1. Init => CleanIsStored /\ Flushed
  <2>1. ASSUME Init PROVE Flushed
    <3>1. CASE perm[Hdr] = Good
      BY <2>1, <3>1 DEF Init, Flushed
    <3>2. CASE perm[Hdr] # Good
      BY <2>1, <3>2 DEF Init, Flushed
    <3> QED
      BY <3>1, <3>2
  <2> QED
    BY <2>1 DEF Init, CleanIsStored
<1>2. TypeOK /\ CleanIsStored /\ Flushed /\ [Next]_vars => CleanIsStored' /\ Flushed'
  BY StoredStep, FlushedStep
<1>3. TypeOK /\ CleanIsStored /\ Flushed =>
        [ResetDone /\ Device = "disk" /\ ~Dirty /\ card = BootCard
           => \A c \in Vars : perm'[c] = ram[c]]_vars
  <2> SUFFICES ASSUME TypeOK, CleanIsStored, Flushed, ResetDone, Device = "disk",
                      ~Dirty, card = BootCard, NEW c \in Vars
               PROVE  perm'[c] = ram[c]
    OBVIOUS
  <2>1. PICK S \in SUBSET Cells :
          /\ ram[Delay] >= PLATFORM_RESET_DELAY => S = Cells
          /\ perm' = [d \in Cells |-> IF d \in S THEN cache[d] ELSE perm[d]]
    BY DEF ResetDone, PowerOff
  <2>2. phase # "off" /\ c \in Cells /\ c # Delay
    BY CellAssumption DEF ResetDone, Cells
  <2>3. cache[c] = ram[c]
    BY <2>2 DEF CleanIsStored
  <2>4. CASE ram[Delay] >= PLATFORM_RESET_DELAY
    BY <2>1, <2>2, <2>3, <2>4
  <2>5. CASE perm[c] = ram[c]
    BY <2>1, <2>2, <2>3, <2>5
  <2> QED
    BY <2>2, <2>4, <2>5 DEF Flushed
<1> QED
  BY <1>1, <1>2, <1>3, TypeCorrect, PTL DEF Spec, ResetKeepsVariables

-----------------------------------------------------------------------------
(* A card put in after the store was found has never been written *)
Untouched ==
  /\ OtherCardUntouched
  /\ card = "none" => cache = Blank /\ perm = Blank
  /\ discovering => Device = "none"

(* Every step keeps the cards that are not the store untouched. *)
LEMMA UntouchedStep ==
  ASSUME TypeOK, Untouched, [Next]_vars
  PROVE  Untouched'
<1> USE DEF fv, arms, medium, Untouched, OtherCardUntouched, Idle
<1>1. CASE PowerOn
  BY <1>1, CardAssumption DEF PowerOn, Volatile
<1>2. ASSUME NEW c, NEW v, SetVariable(c, v) PROVE Untouched'
  BY <1>2 DEF SetVariable
<1>3. ASSUME NEW h, DiskIoInstall(h) PROVE Untouched'
  BY <1>3 DEF DiskIoInstall
<1>4. ASSUME NEW e, Signal(e) PROVE Untouched'
  BY <1>4 DEF Signal
<1>5. ASSUME NEW e, DumpVars(e) PROVE Untouched'
  <2>1. UNCHANGED <<card, Device, MediaId, discovering, perm>>
    BY <1>5 DEF DumpVars
  <2>2. UNCHANGED cache \/ card = MediaId
    BY <1>5 DEF DumpVars, DumpSucceeds, DumpFails, Accepts
  <2> QED
    BY <2>1, <2>2, CardAssumption DEF TypeOK
<1>6. CASE OnDiskIoInstall
  BY <1>6 DEF OnDiskIoInstall
<1>7. CASE DiscoverNext
  <2>1. Device = "none" /\ UNCHANGED card
    BY <1>7 DEF DiscoverNext
  <2>2. CASE UNCHANGED <<Device, MediaId>>
    <3>1. discovering' => discovering
      BY <1>7, <2>1 DEF DiscoverNext
    <3>2. UNCHANGED perm /\ (UNCHANGED cache \/ card # "none")
      BY <1>7 DEF DiscoverNext
    <3> QED
      BY <2>1, <2>2, <3>1, <3>2
  <2>3. ASSUME NEW h, Found(h), card # "none" PROVE Untouched'
    BY <2>1, <2>3 DEF Found
  <2> QED
    BY <1>7, <2>2, <2>3 DEF DiscoverNext
<1>8. ASSUME NEW tpl, LibResetSystem(tpl) PROVE Untouched'
  BY <1>8 DEF LibResetSystem
<1>9. ASSUME NEW S, PowerOff(S) PROVE Untouched'
  <2>1. /\ Device' = "none" /\ ~discovering' /\ UNCHANGED card /\ cache' = perm'
        /\ perm' = [c \in Cells |-> IF c \in S THEN cache[c] ELSE perm[c]]
    BY <1>9 DEF PowerOff, Volatile
  <2>2. card = "none" => perm' = Blank
    BY <2>1 DEF Blank
  <2> QED
    BY <2>1, <2>2
<1>10. CASE ExitBootServices
  BY <1>10 DEF ExitBootServices
<1>11. CASE PullCard
  BY <1>11 DEF PullCard
<1>12. ASSUME NEW id, InsertOther(id) PROVE Untouched'
  BY <1>12 DEF InsertOther
<1>13. CASE UNCHANGED vars
  BY <1>13 DEF vars
<1> QED
  BY <1>1, <1>2, <1>3, <1>4, <1>5, <1>6, <1>7, <1>8, <1>9, <1>10, <1>11, <1>12, <1>13
     DEF Next, Handlers, ResetDone, PowerLoss

(* Once the store was found, no card but the one it was found on is ever    *)
(* written by a dump (VarBlockServiceDxe.c:169, 412).                       *)
THEOREM OtherCardsUntouched == Spec => []OtherCardUntouched
<1>1. Init => Untouched
  BY CardAssumption DEF Init, Untouched, OtherCardUntouched
<1>2. TypeOK /\ Untouched /\ [Next]_vars => Untouched'
  BY UntouchedStep
<1>3. Untouched => OtherCardUntouched
  BY DEF Untouched
<1> QED
  BY <1>1, <1>2, <1>3, TypeCorrect, PTL DEF Spec
=============================================================================
