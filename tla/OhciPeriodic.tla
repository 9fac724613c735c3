----------------------------- MODULE OhciPeriodic -----------------------------
(***************************************************************************)
(* The interrupt transfers of OhciDxe: OhciInterruptTransfer and its two      *)
(* callers (Ohci.c), the list of contexts and OhciHouseKeeper (OhciSched.c),   *)
(* and the tree of endpoint descriptors (OhciUrb.c), against a controller     *)
(* that walks the tree and devices that repeat a packet whose acknowledgement *)
(* was lost.                                                               *)
(*                                                                         *)
(* An endpoint has one client, which has one transfer on it at a time, and    *)
(* cancels it in the callback that tells it of an error.  OhciFindWorkingEd   *)
(* never finds an ED: it asks for a direction that no ED is given.           *)
(***************************************************************************)
EXTENDS Integers, Sequences, FiniteSets

CONSTANTS Endpoints,        \* device address and endpoint number
          PollingInterval,  \* that each client asks for, in milliseconds
          Tds               \* the data TDs of its transfers

ASSUME IntervalAssumption ==
  /\ IsFiniteSet(Endpoints) /\ PollingInterval \in [Endpoints -> 1 .. 255]
  /\ Tds \in [Endpoints -> Nat \ {0}]

VARIABLES
  InterruptContextList,  \* endpoints of the contexts, in the order of the list
  at,          \* the fixed ED each endpoint's ED is linked behind, or NoNode
  st,          \* how far the transfer is: see States
  sync,        \* it has no context: its caller polls it
  retired,     \* how many of its data TDs are retired
  first,       \* the toggle its first TD was given
  carry,       \* ToggleCarry of its ED
  DataToggle,  \* of the endpoint, as the caller keeps it
  devToggle,   \* of the packet the device sends
  repeat,      \* the device sends that packet again
  skewed,      \* a call has left the endpoint with a toggle of its own making
  hk           \* the entry OhciHouseKeeper looks at, or 0, or Dangling

toggles == <<DataToggle, skewed>>
device == <<devToggle, repeat>>
transfer == <<sync, first>>
periodicVars == <<InterruptContextList, at, st, sync, retired, first, carry,
          DataToggle, devToggle, repeat, skewed, hk>>

(* none; ED linked; TDs attached; with the controller; it is done with it     *)
States == {"none", "linked", "built", "active", "done", "stalled", "error"}
Flip(t) == 1 - t
Dangling == -1   \* the house keeper holds an entry that is freed
All(v) == [e \in Endpoints |-> v]

-----------------------------------------------------------------------------
(* The tree: 32 lists, one for each frame in turn, whose fixed EDs meet two   *)
(* by two on 5 more levels.  IntervalList[d][i] is the node <<d, i>>.         *)
Leaf == <<0, 16, 8, 24, 4, 20, 12, 28, 2, 18, 10, 26, 6, 22, 14, 30,
          1, 17, 9, 25, 5, 21, 13, 29, 3, 19, 11, 27, 7, 23, 15, 31>>
Nodes == {<<d, i>> : d \in 0 .. 5, i \in 0 .. 31}
NoNode == <<>>

\* mutant: the leaves in the order of the frames
FramesInOrder(d, i) == {j \in 0 .. 31 : j \div 2^d = i}
(* the frames that come past a node                                        *)
Frames(d, i) == {Leaf[j + 1] : j \in {j \in 0 .. 31 : j \div 2^d = i}}

(* The EDs linked behind a node and those after it; the fixed EDs are as many *)
(* for all nodes of a level.                                               *)
CountEdNum(d, i) ==
  Cardinality({e \in Endpoints : \E k \in d .. 5 : at[e] = <<k, i \div 2^(k - d)>>})

OhciFindMinInterruptEDList(d) ==
  LET Count == [i \in 0 .. 2^(5 - d) - 1 |-> CountEdNum(d, i)]
      IsFirstMin(i) == \A j \in DOMAIN Count :
                         IF j < i THEN Count[i] < Count[j] ELSE Count[i] <= Count[j]
  IN <<d, CHOOSE i \in DOMAIN Count : IsFirstMin(i)>>

(* OhciSyncInterruptTransfer asks for an interval of 1                       *)
Interval(e, s) == IF s THEN 1 ELSE PollingInterval[e]

(* the level for an interval: its frames are 2^(5 - Depth) apart              *)
Depth(p) == CHOOSE d \in 0 .. 5 : 2^(5 - d) <= p /\ (d > 0 => p < 2^(6 - d))

-----------------------------------------------------------------------------
(* OhciInterruptTransfer with a new transfer, at the TPL of its caller: the    *)
(* house keeper may run between its steps, never the other way round.         *)
Submit(e, s) ==
  /\ hk = 0 /\ st[e] = "none"
  /\ st' = [st EXCEPT ![e] = "linked"]
  /\ at' = [at EXCEPT ![e] = OhciFindMinInterruptEDList(Depth(Interval(e, s)))]
  /\ sync' = [sync EXCEPT ![e] = s]
  /\ retired' = [retired EXCEPT ![e] = 0]
  /\ first' = [first EXCEPT ![e] = DataToggle[e]]
  /\ carry' = [carry EXCEPT ![e] = 0]
  /\ UNCHANGED <<InterruptContextList, toggles, device, hk>>

(* the TDs, each of which advances *DataToggle                               *)
AttachTds(e) ==
  /\ hk = 0 /\ st[e] = "linked"
  /\ st' = [st EXCEPT ![e] = "built"]
  /\ DataToggle' = [DataToggle EXCEPT ![e] = (first[e] + Tds[e]) % 2]
  /\ UNCHANGED <<InterruptContextList, at, transfer, retired, carry, device, skewed, hk>>

(* What is in the descriptors of an endpoint goes with them.                 *)
Freed(e) ==
  /\ st' = [st EXCEPT ![e] = "none"] /\ at' = [at EXCEPT ![e] = NoNode]
  /\ sync' = [sync EXCEPT ![e] = FALSE] /\ retired' = [retired EXCEPT ![e] = 0]
  /\ first' = [first EXCEPT ![e] = 0] /\ carry' = [carry EXCEPT ![e] = 0]

(* FREE_OHCI_TDBUFF: there is no TD, or no context any more.  *DataToggle     *)
(* stays as far as it was advanced.                                        *)
SubmitFails(e) ==
  /\ hk = 0
  /\ \/ /\ st[e] = "linked"
        /\ \E k \in 0 .. Tds[e] :
             DataToggle' = [DataToggle EXCEPT ![e] = (first[e] + k) % 2]
     \/ st[e] = "built" /\ ~ sync[e] /\ UNCHANGED DataToggle
  /\ Freed(e)
  /\ skewed' = [skewed EXCEPT ![e] = TRUE]
  /\ UNCHANGED <<InterruptContextList, device, hk>>

\* mutant: a new entry becomes the head of the list
AddInFront(e) == <<e>> \o InterruptContextList
OhciAddInterruptContextEntry(e) == Append(InterruptContextList, e)

(* the context, and the ED without Skip                                    *)
Activate(e) ==
  /\ hk = 0 /\ st[e] = "built"
  /\ st' = [st EXCEPT ![e] = "active"]
  /\ InterruptContextList' =
       IF sync[e] THEN InterruptContextList ELSE OhciAddInterruptContextEntry(e)
  /\ UNCHANGED <<at, transfer, retired, carry, toggles, device, hk>>

-----------------------------------------------------------------------------
(* OhciFreeInterruptContext and OhciFreeInterruptEdByAddr: the contexts and    *)
(* the EDs of an endpoint; *DataToggle is that of the first TD of a context,   *)
(* which the controller inverts when it retires the TD.                      *)
\* mutant: the toggle the TD was given
FirstTdToggleGiven(e) == first[e]
FirstTdToggle(e) == IF retired[e] > 0 THEN Flip(first[e]) ELSE first[e]

(* An endpoint has one transfer, and so one context at most.                 *)
Without(places) ==
  IF places = {} THEN InterruptContextList
  ELSE LET i == CHOOSE i \in places : TRUE
       IN SubSeq(InterruptContextList, 1, i - 1)
            \o SubSeq(InterruptContextList, i + 1, Len(InterruptContextList))
ContextsOf(e) == {i \in DOMAIN InterruptContextList : InterruptContextList[i] = e}

\* mutant: the head of the list is not looked at
ContextsButHead(e) == Without(ContextsOf(e) \ {1})
ContextsWithout(e) == Without(ContextsOf(e))

Unschedule(e) ==
  /\ Freed(e)
  /\ InterruptContextList' = ContextsWithout(e)
  /\ DataToggle' = IF sync[e] THEN DataToggle
                   ELSE [DataToggle EXCEPT ![e] = FirstTdToggle(e)]

(* What is left out of step: more than one TD retired, or a synchronous       *)
(* transfer that did not come to its end.                                  *)
OutOfStep(e) == IF sync[e] THEN retired[e] < Tds[e] ELSE retired[e] > 1

(* A cancellation turns the list off and frees everything at once; if the     *)
(* controller is working on a TD, the device may have had its packet taken.   *)
Cancel(e) ==
  /\ hk = 0 /\ st[e] \in {"active", "done", "stalled", "error"}
  /\ Unschedule(e)
  /\ \/ /\ skewed' = [skewed EXCEPT ![e] = @ \/ OutOfStep(e)]
        /\ UNCHANGED device
     \/ /\ st[e] = "active"
        /\ skewed' = [skewed EXCEPT ![e] = TRUE]
        /\ devToggle' = [devToggle EXCEPT ![e] = Flip(@)]
        /\ repeat' = [repeat EXCEPT ![e] = FALSE]
  /\ UNCHANGED hk

-----------------------------------------------------------------------------
(* OhciHouseKeeper, from a timer: the entries in turn.                       *)
Advance == IF hk = Len(InterruptContextList) THEN 0 ELSE hk + 1

HouseKeeperTimer ==
  /\ hk = 0 /\ InterruptContextList # <<>>
  /\ hk' = 1
  /\ UNCHANGED <<InterruptContextList, at, st, transfer, retired, carry, toggles, device>>

SkipEntry ==
  /\ hk > 0 /\ st[InterruptContextList[hk]] \in {"active", "stalled"}
  /\ hk' = Advance
  /\ UNCHANGED <<InterruptContextList, at, st, transfer, retired, carry, toggles, device>>

(* without an error: the callback gets the data, and the TDs are made ready   *)
(* again with the toggles that follow the ED's                              *)
\* mutant: with the toggles they had
ToggleKept(e) == first[e]
Resubmitted(e) == carry[e]

Resubmit ==
  /\ hk > 0
  /\ LET e == InterruptContextList[hk] IN
       /\ st[e] = "done"
       /\ st' = [st EXCEPT ![e] = "active"]
       /\ retired' = [retired EXCEPT ![e] = 0]
       /\ first' = [first EXCEPT ![e] = Resubmitted(e)]
       /\ carry' = [carry EXCEPT ![e] = 0]
  /\ hk' = Advance
  /\ UNCHANGED <<InterruptContextList, at, sync, toggles, device>>

(* With an error: its client cancels the transfer in the callback, which      *)
(* frees the entry the house keeper holds.  Only if the list is empty now does *)
(* the house keeper return at once.                                        *)
ErrorCallback ==
  /\ hk > 0
  /\ LET e == InterruptContextList[hk] IN
       /\ st[e] = "error"
       /\ Unschedule(e)
       /\ skewed' = [skewed EXCEPT ![e] = @ \/ OutOfStep(e)]
  /\ hk' = IF InterruptContextList' = <<>> THEN 0 ELSE Dangling
  /\ UNCHANGED device

(* Else it reads IsPeriodic, Ed and DataTd of the freed entry.  A DEBUG build  *)
(* has filled it (Rk356x.dsc.inc:254), a RELEASE build has left it as it was,  *)
(* and no other code runs between, so IsPeriodic is not 0 and the house keeper *)
(* returns for the error it has a copy of, without RestoreTPL.               *)
ReturnFromError ==
  /\ hk = Dangling
  /\ hk' = 0
  /\ UNCHANGED <<InterruptContextList, at, st, transfer, retired, carry, toggles, device>>

OhciHouseKeeper ==
  \/ HouseKeeperTimer \/ SkipEntry \/ Resubmit
  \/ ErrorCallback \/ ReturnFromError

-----------------------------------------------------------------------------
(* OhciReset frees all transfers and builds the tree again; the devices are   *)
(* reset as well.  No other call is in progress.                            *)
OhciReset ==
  /\ hk = 0 /\ \A e \in Endpoints : st[e] \notin {"linked", "built"} /\ ~ sync[e]
  /\ InterruptContextList' = <<>>
  /\ st' = All("none") /\ at' = All(NoNode) /\ sync' = All(FALSE)
  /\ retired' = All(0) /\ first' = All(0) /\ carry' = All(0)
  /\ DataToggle' = All(0) /\ devToggle' = All(0)
  /\ repeat' = All(FALSE) /\ skewed' = All(FALSE)
  /\ UNCHANGED hk

(* A client clears the halt of its endpoint, which sets both toggles to 0.    *)
ClearHalt(e) ==
  /\ hk = 0 /\ st[e] = "none"
  /\ DataToggle' = [DataToggle EXCEPT ![e] = 0]
  /\ devToggle' = [devToggle EXCEPT ![e] = 0]
  /\ repeat' = [repeat EXCEPT ![e] = FALSE]
  /\ skewed' = [skewed EXCEPT ![e] = FALSE]
  /\ UNCHANGED <<InterruptContextList, at, st, transfer, retired, carry, hk>>

-----------------------------------------------------------------------------
(* The controller takes a packet with the toggle it expects, and throws away   *)
(* one with the other.  It acknowledges both.                              *)
Expected(e) == (first[e] + retired[e]) % 2

Acknowledged(e) ==
  /\ devToggle' = [devToggle EXCEPT ![e] = Flip(@)]
  /\ repeat' = [repeat EXCEPT ![e] = FALSE]
AcknowledgementLost(e) ==
  /\ repeat' = [repeat EXCEPT ![e] = TRUE]
  /\ UNCHANGED devToggle

HcTakes(e) ==
  /\ st[e] = "active" /\ devToggle[e] = Expected(e)
  /\ retired' = [retired EXCEPT ![e] = @ + 1]
  /\ carry' = [carry EXCEPT ![e] = Flip(Expected(e))]
  /\ st' = [st EXCEPT ![e] = IF retired[e] + 1 = Tds[e] THEN "done" ELSE "active"]
  /\ Acknowledged(e) \/ AcknowledgementLost(e)
  /\ UNCHANGED <<InterruptContextList, at, transfer, toggles, hk>>

HcThrowsAway(e) ==
  /\ st[e] = "active" /\ devToggle[e] # Expected(e)
  /\ Acknowledged(e) \/ AcknowledgementLost(e)
  /\ UNCHANGED <<InterruptContextList, at, st, transfer, retired, carry, toggles, hk>>

HcFails(e) ==
  /\ st[e] = "active"
  /\ \E r \in {"stalled", "error"} : st' = [st EXCEPT ![e] = r]
  /\ UNCHANGED <<InterruptContextList, at, transfer, retired, carry, toggles, device, hk>>

-----------------------------------------------------------------------------
PeriodicInit ==
  /\ InterruptContextList = <<>> /\ hk = 0
  /\ st = All("none") /\ at = All(NoNode) /\ sync = All(FALSE)
  /\ retired = All(0) /\ first = All(0) /\ carry = All(0)
  /\ DataToggle = All(0) /\ devToggle = All(0)
  /\ repeat = All(FALSE) /\ skewed = All(FALSE)

Client(e) ==
  \/ \E s \in BOOLEAN : Submit(e, s)
  \/ AttachTds(e) \/ SubmitFails(e) \/ Activate(e) \/ Cancel(e) \/ ClearHalt(e)

Controller(e) == HcTakes(e) \/ HcThrowsAway(e) \/ HcFails(e)

PeriodicNext ==
  \/ \E e \in Endpoints : Client(e) \/ Controller(e)
  \/ OhciHouseKeeper \/ OhciReset

(* The timer of the house keeper is periodic.                               *)
PeriodicSpec == PeriodicInit /\ [][PeriodicNext]_periodicVars /\ WF_periodicVars(OhciHouseKeeper)

-----------------------------------------------------------------------------
PeriodicTypeOK ==
  /\ InterruptContextList \in Seq(Endpoints)
  /\ hk \in {Dangling} \union 0 .. Len(InterruptContextList)
  /\ at \in [Endpoints -> Nodes \cup {NoNode}]
  /\ st \in [Endpoints -> States] /\ sync \in [Endpoints -> BOOLEAN]
  /\ retired \in [Endpoints -> Nat]
  /\ first \in [Endpoints -> 0 .. 1] /\ carry \in [Endpoints -> 0 .. 1]
  /\ DataToggle \in [Endpoints -> 0 .. 1] /\ devToggle \in [Endpoints -> 0 .. 1]
  /\ repeat \in [Endpoints -> BOOLEAN] /\ skewed \in [Endpoints -> BOOLEAN]

(* A context and its ED come and go together: no entry is left in the list     *)
(* whose ED and TDs are freed, whoever cancels what and when, and no ED is left *)
(* in the tree of which nobody looks at the results.  This is about the entries *)
(* of the list, from which a pass of the house keeper takes the next one; the   *)
(* entry it holds after an error callback is freed and no longer listed (see    *)
(* ReturnFromError).                                                       *)
ContextHasEd ==
  /\ \A i, j \in DOMAIN InterruptContextList :
       InterruptContextList[i] = InterruptContextList[j] => i = j
  /\ \A e \in Endpoints :
       (\E i \in DOMAIN InterruptContextList : InterruptContextList[i] = e)
         <=> at[e] # NoNode /\ ~ sync[e] /\ st[e] \notin {"linked", "built"}

(* However the tree is loaded, the controller comes past an ED at least once  *)
(* in any run of frames as long as its polling interval.  Runs are the lengths  *)
(* of which every run of frames comes past a node.                          *)
Runs == [v \in Nodes |->
           {k \in 1 .. 32 :
              \A f \in 0 .. 31 : \E j \in 0 .. k - 1 : (f + j) % 32 \in Frames(v[1], v[2])}]

PolledInTime ==
  \A e \in Endpoints :
    at[e] # NoNode => \E k \in Runs[at[e]] : k <= Interval(e, sync[e])

(* No packet is lost and none is taken twice: the controller expects the       *)
(* packet the device sends, or throws away one it repeats.  This holds through *)
(* completions, cancellations and new transfers, unless a call has failed.    *)
PacketsInStep ==
  \A e \in Endpoints : st[e] = "active" /\ ~ skewed[e] =>
    (devToggle[e] = Expected(e)) = ~ repeat[e]

(* A transfer that has ended, well or with an error other than a stall, is     *)
(* reported to its client, whatever other clients' transfers do.             *)
EventuallyReported ==
  \A e \in Endpoints :
    (~ sync[e] /\ st[e] \in {"done", "error"}) ~> (sync[e] \/ st[e] \notin {"done", "error"})
=============================================================================
