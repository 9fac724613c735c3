------------------------------ MODULE OhciPipe ------------------------------
(***************************************************************************)
(* The control and bulk transfers of OhciDxe: OhciControlTransfer and       *)
(* OhciBulkTransfer (Ohci.c) with the polling of CheckIfDone (OhciSched.c),   *)
(* OhciReset and OhciSetState, against a host controller that walks the two   *)
(* lists concurrently and works on one transfer descriptor (TD) at a time.   *)
(*                                                                         *)
(* There is one call at a time: the callers raise the TPL around a call.     *)
(* A call builds one endpoint descriptor (ED) with n TDs, and one more that  *)
(* ends their list.  The controller may answer, refuse or fail each TD.      *)
(***************************************************************************)
EXTENDS Naturals

CONSTANTS MaxData   \* bound on the data TDs of a call

ASSUME MaxDataAssumption == MaxData \in Nat \ {0}

Lists == {"control", "bulk"}
Toggles == 0 .. 1

VARIABLES
  pc, list,       \* the step a call is at, and the list it works on
  n, retired,     \* its TDs, and how many of them the controller has retired
  toggle0,        \* DataToggle of its first TD
  Halted, Skip,   \* bits of its ED; Halted: the next TD has failed
  mem,            \* which of ED and TDs are allocated from the pool
  mapped,         \* which of the caller's buffers are mapped for DMA
  Enable, Filled, \* ControlListEnable, BulkListEnable and the Filled bits
  headEd,         \* HcControlHeadED, HcBulkHeadED point to an ED
  running,        \* the functional state is operational
  serving,        \* the lists the controller serves in this frame
  currentEd,      \* its HcControlCurrentED, HcBulkCurrentED point to an ED
  busy,           \* the list whose TD is on the bus, or "none"
  DataToggle,     \* of the bulk endpoint, as the caller keeps it
  devToggle,      \* of the bulk endpoint in the device
  gaveUp,         \* a call has timed out since the last stall of 20 ms
  skewed          \* a bulk call has failed since the endpoint was reset

call == <<pc, list, n, toggle0>>
ed == <<retired, Halted, Skip>>
owned == <<mem, mapped>>
regs == <<Enable, Filled, headEd, running>>
hc == <<serving, currentEd, busy>>
data == <<DataToggle, devToggle, skewed>>
vars == <<call, ed, owned, regs, hc, data, gaveUp>>

Flip(t) == 1 - t
TdToggle(i) == (toggle0 + i) % 2      \* of the i-th TD, from 0, before it is retired
DataTds == IF list = "control" THEN n - 2 ELSE n
Buffers ==
  (IF list = "control" THEN {"request"} ELSE {})
    \cup (IF DataTds > 0 THEN {"data"} ELSE {})

-----------------------------------------------------------------------------
(* The calls up to the stall of 20 ms.  Writing 0 to the Filled bit leaves    *)
(* it as it is: HcCommandStatus ignores bits written as 0.                  *)
Begin(l, d) ==
  /\ pc = "idle" /\ (l = "bulk" => d > 0)
  /\ pc' = "stall" /\ list' = l
  /\ n' = IF l = "control" THEN d + 2 ELSE d
  /\ toggle0' = IF l = "control" THEN 0 ELSE DataToggle
  /\ Enable' = [Enable EXCEPT ![l] = FALSE]
  /\ UNCHANGED <<ed, owned, Filled, headEd, running, hc, data, gaveUp>>

(* The stall lasts for many frames: the controller has seen that the list is *)
(* disabled, and is done with a TD it was working on.                       *)
StallEnds ==
  /\ pc = "stall" /\ ~ serving[list] /\ busy = "none"
  /\ pc' = "create"
  /\ headEd' = [headEd EXCEPT ![list] = FALSE]
  /\ gaveUp' = FALSE
  /\ UNCHANGED <<list, n, toggle0, ed, owned, Enable, Filled, running, hc, data>>

(* OhciCreateED and OhciAttachEDToList: as the list is empty, the ED becomes *)
(* its head.                                                               *)
CreateED ==
  /\ pc = "create"
  /\ \/ /\ pc' = "map"
        /\ mem' = {"ed"}
        /\ retired' = 0 /\ Halted' = FALSE /\ Skip' = TRUE
        /\ headEd' = [headEd EXCEPT ![list] = TRUE]
     \/ pc' = "idle" /\ UNCHANGED <<mem, ed, headEd>>
  /\ UNCHANGED <<list, n, toggle0, mapped, Enable, Filled, running, hc, data, gaveUp>>

(* the mapping of the request, or of the data of a bulk transfer             *)
MapFirst ==
  /\ pc = "map"
  /\ \/ pc' = "build" /\ mapped' = {IF list = "control" THEN "request" ELSE "data"}
     \/ pc' = "freeED" /\ UNCHANGED mapped
  /\ UNCHANGED <<list, n, toggle0, ed, mem, regs, hc, data, gaveUp>>

(* The TDs; those of a bulk transfer advance *DataToggle as they are made.   *)
Build ==
  /\ pc = "build"
  /\ pc' = "start"
  /\ mem' = {"ed", "tds"}
  /\ mapped' = Buffers
  /\ DataToggle' = IF list = "bulk" THEN TdToggle(n) ELSE DataToggle
  /\ UNCHANGED <<list, n, toggle0, ed, regs, hc, devToggle, skewed, gaveUp>>

(* No setup TD, no mapping of the data, or no TD after that                 *)
ControlBuildFails ==
  /\ pc = "build" /\ list = "control"
  /\ \/ pc' = "unmapRequest" /\ UNCHANGED owned
     \/ pc' = "freeTDs" /\ mem' = {"ed", "tds"} /\ DataTds > 0 /\ UNCHANGED mapped
     \/ pc' = "skip" /\ mem' = {"ed", "tds"} /\ mapped' = Buffers
  /\ UNCHANGED <<list, n, toggle0, ed, regs, hc, data, gaveUp>>

BulkBuildFails ==
  /\ pc = "build" /\ list = "bulk"
  /\ pc' = "skip"
  /\ \E k \in 0 .. n :
       /\ mem' = IF k = 0 THEN {"ed"} ELSE {"ed", "tds"}
       /\ DataToggle' = TdToggle(k)
  /\ skewed' = TRUE
  /\ UNCHANGED <<list, n, toggle0, ed, mapped, regs, hc, devToggle, gaveUp>>

(* A control transfer enables the list and then sets the Filled bit, a bulk  *)
(* transfer does it the other way round.                                   *)
Start ==
  /\ pc = "start"
  /\ pc' = "start2"
  /\ Skip' = FALSE
  /\ IF list = "control"
     THEN Enable' = [Enable EXCEPT ![list] = TRUE] /\ UNCHANGED Filled
     ELSE Filled' = [Filled EXCEPT ![list] = TRUE] /\ UNCHANGED Enable
  /\ UNCHANGED <<list, n, toggle0, retired, Halted, owned, headEd, running, hc, data, gaveUp>>

Start2 ==
  /\ pc = "start2"
  /\ pc' = "poll"
  /\ Enable' = [Enable EXCEPT ![list] = TRUE]
  /\ Filled' = [Filled EXCEPT ![list] = TRUE]
  /\ UNCHANGED <<list, n, toggle0, ed, owned, headEd, running, hc, data, gaveUp>>

-----------------------------------------------------------------------------
(* CheckIfDone, with CheckEDStatus: the transfer has ended if the first TD   *)
(* that was not executed successfully is the one that ends the list, or has   *)
(* failed.                                                                 *)
\* mutant: one TD that was executed is enough
EdDoneFirst == retired > 0 \/ Halted
EdDone == retired = n \/ Halted

CheckIfDone == ~ Filled[list] /\ EdDone

(* NextToggle of CheckEDStatus: the inverse of what the last TD that was     *)
(* retired says, which the controller has inverted already                  *)
NextToggle == IF retired = 0 THEN toggle0 ELSE Flip(Flip(TdToggle(retired - 1)))

(* the toggle a call that has ended leaves with the caller                  *)
\* mutant: the toggle of the TD that was executed last
EndToggleStale == IF Halted THEN NextToggle ELSE TdToggle(retired - 1)
EndToggle == IF Halted THEN NextToggle ELSE DataToggle

Done ==
  /\ pc = "poll" /\ CheckIfDone
  /\ pc' = "skip"
  /\ IF list = "bulk"
     THEN DataToggle' = EndToggle /\ skewed' = (skewed \/ Halted)
     ELSE UNCHANGED <<DataToggle, skewed>>
  /\ UNCHANGED <<list, n, toggle0, ed, owned, regs, hc, devToggle, gaveUp>>

(* The polling ends after TimeOut milliseconds.                             *)
GiveUp ==
  /\ pc = "poll" /\ ~ CheckIfDone
  /\ pc' = "skip"
  /\ gaveUp' = TRUE
  /\ skewed' = (skewed \/ list = "bulk")
  /\ UNCHANGED <<list, n, toggle0, ed, owned, regs, hc, DataToggle, devToggle>>

-----------------------------------------------------------------------------
(* The labels at the end of the two functions                               *)
SkipED ==
  /\ pc = "skip"
  /\ pc' = "unlink"
  /\ Skip' = TRUE
  /\ UNCHANGED <<list, n, toggle0, retired, Halted, owned, regs, hc, data, gaveUp>>

Unlink ==
  /\ pc = "unlink"
  /\ pc' = IF list = "control" THEN "unmapData" ELSE "freeTDs"
  /\ headEd' = [headEd EXCEPT ![list] = FALSE]
  /\ UNCHANGED <<list, n, toggle0, ed, owned, Enable, Filled, running, hc, data, gaveUp>>

\* mutant: without the unmapping
UnmapDataForgotten ==
  /\ pc = "unmapData"
  /\ pc' = IF list = "control" THEN "freeTDs" ELSE "freeED"
  /\ UNCHANGED <<list, n, toggle0, ed, owned, regs, hc, data, gaveUp>>
UnmapData ==
  /\ pc = "unmapData"
  /\ pc' = IF list = "control" THEN "freeTDs" ELSE "freeED"
  /\ mapped' = mapped \ {"data"}
  /\ UNCHANGED <<list, n, toggle0, ed, mem, regs, hc, data, gaveUp>>

FreeTDs ==
  /\ pc = "freeTDs"
  /\ pc' = IF list = "control" THEN "unmapRequest" ELSE "unmapData"
  /\ mem' = mem \ {"tds"}
  /\ UNCHANGED <<list, n, toggle0, ed, mapped, regs, hc, data, gaveUp>>

UnmapRequest ==
  /\ pc = "unmapRequest"
  /\ pc' = "freeED"
  /\ mapped' = mapped \ {"request"}
  /\ UNCHANGED <<list, n, toggle0, ed, mem, regs, hc, data, gaveUp>>

FreeED ==
  /\ pc = "freeED"
  /\ pc' = "idle"
  /\ mem' = {}
  /\ UNCHANGED <<list, n, toggle0, ed, mapped, regs, hc, data, gaveUp>>

-----------------------------------------------------------------------------
(* OhciReset ends with both lists empty and enabled.  It may also reset the   *)
(* registers of the controller first.                                       *)
\* mutant: the head of a list stays as the last call left it
ResetHeadsKept == headEd
ResetHeads == [l \in Lists |-> FALSE]

OhciReset ==
  /\ pc = "idle"
  /\ headEd' = ResetHeads
  /\ Enable' = [l \in Lists |-> TRUE]
  /\ running' = TRUE
  /\ serving' = [l \in Lists |-> TRUE]
  /\ busy' = "none"
  /\ \/ UNCHANGED <<Filled, currentEd>>
     \/ Filled' = [l \in Lists |-> FALSE] /\ currentEd' = [l \in Lists |-> FALSE]
  /\ UNCHANGED <<call, ed, owned, data, gaveUp>>

(* OhciSetState, to operational or to a state that stops the controller       *)
OhciSetState ==
  /\ pc = "idle"
  /\ \/ running' = TRUE /\ UNCHANGED <<serving, busy>>
     \/ running' = FALSE /\ serving' = [l \in Lists |-> FALSE] /\ busy' = "none"
  /\ UNCHANGED <<call, ed, owned, Enable, Filled, headEd, currentEd, data, gaveUp>>

(* A client resets a bulk endpoint, on both sides, with a request of its own. *)
ResetEndpoint ==
  /\ pc = "idle" /\ busy = "none"
  /\ DataToggle' = 0 /\ devToggle' = 0 /\ skewed' = FALSE
  /\ UNCHANGED <<call, ed, owned, regs, hc, gaveUp>>

-----------------------------------------------------------------------------
(* The controller: at the start of a frame it looks at the enable bits.      *)
HcFrame ==
  /\ running /\ busy = "none"
  /\ serving' = Enable
  /\ UNCHANGED <<call, ed, owned, regs, currentEd, busy, data, gaveUp>>

HcWalk(l) ==
  /\ serving[l] /\ busy = "none" /\ ~ currentEd[l] /\ Filled[l]
  /\ Filled' = [Filled EXCEPT ![l] = FALSE]
  /\ currentEd' = [currentEd EXCEPT ![l] = headEd[l]]
  /\ UNCHANGED <<call, ed, owned, Enable, headEd, running, serving, busy, data, gaveUp>>

(* The ED it has come to; memory of an ED that was freed still says Skip.    *)
Executable(l) == "ed" \in mem /\ list = l /\ ~ Skip /\ ~ Halted /\ retired < n

HcServe(l) ==
  /\ serving[l] /\ busy = "none" /\ currentEd[l]
  /\ currentEd' = [currentEd EXCEPT ![l] = FALSE]
  /\ IF Executable(l)
     THEN busy' = l /\ Filled' = [Filled EXCEPT ![l] = TRUE]
     ELSE UNCHANGED <<busy, Filled>>
  /\ UNCHANGED <<call, ed, owned, Enable, headEd, running, serving, data, gaveUp>>

(* A transaction ends: acknowledged, with the acknowledgement lost, refused   *)
(* for now, or failed for good.  The device toggles when it has got the data. *)
DeviceToggles == devToggle' = IF busy = "bulk" THEN Flip(TdToggle(retired)) ELSE devToggle

HcEnd ==
  /\ busy # "none" /\ "tds" \in mem
  /\ busy' = "none"
  /\ \/ retired' = retired + 1 /\ DeviceToggles /\ UNCHANGED Halted
     \/ DeviceToggles /\ UNCHANGED <<retired, Halted>>
     \/ UNCHANGED <<retired, devToggle, Halted>>
     \/ Halted' = TRUE /\ UNCHANGED <<retired, devToggle>>
  /\ UNCHANGED <<call, Skip, owned, regs, serving, currentEd, DataToggle, skewed, gaveUp>>

(* It ends after its TD was freed.                                          *)
HcEndLate ==
  /\ busy # "none" /\ "tds" \notin mem
  /\ busy' = "none"
  /\ devToggle' \in IF busy = "bulk" THEN Toggles ELSE {devToggle}
  /\ UNCHANGED <<call, ed, owned, regs, serving, currentEd, DataToggle, skewed, gaveUp>>

-----------------------------------------------------------------------------
Init ==
  /\ pc = "idle" /\ list = "control" /\ n = 2 /\ retired = 0 /\ toggle0 = 0
  /\ Halted = FALSE /\ Skip = TRUE
  /\ mem = {} /\ mapped = {}
  /\ Enable = [l \in Lists |-> TRUE] /\ Filled = [l \in Lists |-> FALSE]
  /\ headEd = [l \in Lists |-> FALSE] /\ running = TRUE
  /\ serving = [l \in Lists |-> TRUE] /\ currentEd = [l \in Lists |-> FALSE]
  /\ busy = "none"
  /\ DataToggle = 0 /\ devToggle = 0
  /\ gaveUp = FALSE /\ skewed = FALSE

Call ==
  \/ \E l \in Lists, d \in 0 .. MaxData : Begin(l, d)
  \/ StallEnds \/ CreateED \/ MapFirst \/ Build \/ ControlBuildFails \/ BulkBuildFails
  \/ Start \/ Start2 \/ Done \/ GiveUp
  \/ SkipED \/ Unlink \/ UnmapData \/ FreeTDs \/ UnmapRequest \/ FreeED

Controller ==
  \/ HcFrame \/ HcEnd \/ HcEndLate
  \/ \E l \in Lists : HcWalk(l) \/ HcServe(l)

Next == Call \/ OhciReset \/ OhciSetState \/ ResetEndpoint \/ Controller

Spec == Init /\ [][Next]_vars

-----------------------------------------------------------------------------
Steps == {"idle", "stall", "create", "map", "build", "start", "start2", "poll", "skip",
          "unlink", "unmapData", "freeTDs", "unmapRequest", "freeED"}

TypeOK ==
  /\ pc \in Steps /\ list \in Lists
  /\ n \in 1 .. MaxData + 2 /\ retired \in 0 .. MaxData + 2 /\ toggle0 \in Toggles
  /\ Halted \in BOOLEAN /\ Skip \in BOOLEAN
  /\ mem \subseteq {"ed", "tds"} /\ mapped \subseteq {"request", "data"}
  /\ Enable \in [Lists -> BOOLEAN] /\ Filled \in [Lists -> BOOLEAN]
  /\ headEd \in [Lists -> BOOLEAN] /\ running \in BOOLEAN
  /\ serving \in [Lists -> BOOLEAN] /\ currentEd \in [Lists -> BOOLEAN]
  /\ busy \in Lists \cup {"none"}
  /\ DataToggle \in Toggles /\ devToggle \in Toggles
  /\ gaveUp \in BOOLEAN /\ skewed \in BOOLEAN

(* The controller never works on a TD whose memory is freed or whose buffers *)
(* are unmapped, unless a call has timed out: both functions free everything  *)
(* at once when CheckIfDone says that the transfer has ended.               *)
InFlightSafe ==
  busy # "none" =>
    gaveUp \/ (busy = list /\ mem = {"ed", "tds"} /\ mapped = Buffers)

(* The controller can only find an ED at the head of a list while a call has *)
(* it there complete with TDs and buffers.  A call that fails in between     *)
(* leaves the head pointing to an ED it frees, on a list it has disabled.    *)
HeadIsReady ==
  \A l \in Lists :
    (Enable[l] \/ serving[l]) /\ headEd[l] =>
      l = list /\ mem = {"ed", "tds"} /\ mapped = Buffers

(* Whatever step of a call fails, it returns with nothing allocated and       *)
(* nothing mapped.                                                         *)
NothingLeft == pc = "idle" => mem = {} /\ mapped = {}

(* The caller's toggle of a bulk endpoint is that of the device, unless a     *)
(* bulk call has failed since both were reset (Ohci.c:645).                 *)
ToggleInStep == pc = "idle" /\ ~ skewed => DataToggle = devToggle
=============================================================================
