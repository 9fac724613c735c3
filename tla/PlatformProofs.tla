--------------------------- MODULE PlatformProofs ---------------------------
(***************************************************************************)
(* Proofs about the platform, whatever its board, the state the boot       *)
(* loader leaves the clock unit in, the polls that time out, the transfers *)
(* that fail, the rates of the CPU and the regulator that supplies it.     *)
(*                                                                         *)
(* The platform is several drivers, each with variables of its own, that   *)
(* share the clock and reset unit.  So is its invariant: RtcInv, CpuInv,   *)
(* CardInv, HostInv and ConfigInv speak of one each, and each is shown to  *)
(* survive the steps of its own driver and whatever the other drivers do   *)
(* to the unit.  PlatformInv is their conjunction.  What each adds to the  *)
(* property it is for is said where it is defined:                         *)
(*   RtcInv   LossIsDetected     a lost time is not believed               *)
(*   CpuInv   VoltageSuffices    the voltage is enough for the clock       *)
(*   CardInv  CardClockWithin    no card is clocked faster than asked      *)
(*   HostInv  ReferenceMatches   a PHY gets the reference it was told of   *)
(*            DevicesReady       no device is used before it is ready      *)
(*   ConfigInv AccessExact     an access touches what it names, no more    *)
(* The last section is about the block transfers of the SD driver, Mshc,   *)
(* which keeps its variables to itself.                                    *)
(***************************************************************************)
EXTENDS Platform, Mshc, TLAPS, FiniteSetTheorems, FunctionTheorems, SequenceTheorems,
        WellFoundedInduction

-----------------------------------------------------------------------------
(***************************************************************************)
(* The real-time clock.  The property speaks of the call that returns.     *)
(* The invariant says what holds of the chip between calls (FlagIsTrue:    *)
(* without the flag the time in it counts, or its loss was told), what a   *)
(* call that sets the time has written so far (SetsInOrder), and what a    *)
(* call that gets it has seen (GetsFlagFirst: once the seconds are read, a *)
(* flag that was not in them is not in the chip, for no other call runs    *)
(* meanwhile).                                                             *)
(***************************************************************************)
Believable == rtc.kept = RtcRegisters \/ told

FlagIsTrue == ~rtc.DL => Believable

\* The call has ended the first n of its six transfers.
AtTransfer(order, n) ==
  /\ n \in 0..6 /\ Len(rtcPc.todo) = 6 - n
  /\ \A i \in 1..6 - n : rtcPc.todo[i] = order[n + i]

SetsInOrder ==
  rtcPc.call = "set" =>
    \E n \in 0..6 : AtTransfer(WriteOrder, n) /\ \A i \in 1..n : WriteOrder[i] \in rtc.kept

GetsFlagFirst ==
  rtcPc.call = "get" =>
    \E n \in 0..6 : AtTransfer(ReadOrder, n) /\ (n > 0 /\ ~rtcPc.DL => Believable)

(* Type correctness: the chip, the running call and the register transfers *)
(* it has left have the shape LibGetTime and LibSetTime give them.         *)
RtcTypeOK ==
  /\ rtc \in [DL : BOOLEAN, kept : SUBSET RtcRegisters]
  /\ rtcPc \in [call : {"none", "get", "set", "time", "error"},
                todo : Seq(RtcRegisters), DL : BOOLEAN]
  /\ told \in BOOLEAN

RtcInv == RtcTypeOK /\ FlagIsTrue /\ SetsInOrder /\ GetsFlagFirst /\ LossIsDetected

-----------------------------------------------------------------------------
(* The registers are the six of either order, named once.                   *)
LEMMA Registers ==
  /\ RtcRegisters = {"seconds", "minutes", "hours", "days", "mon_century", "years"}
  /\ ReadOrder \in Seq(RtcRegisters) /\ Len(ReadOrder) = 6
  /\ WriteOrder \in Seq(RtcRegisters) /\ Len(WriteOrder) = 6
  /\ WriteOrder[6] = "seconds" /\ ReadOrder[1] = "seconds"
  /\ \A r \in RtcRegisters : \E i \in 1..6 : WriteOrder[i] = r
<1>1. RtcRegisters = {"seconds", "minutes", "hours", "days", "mon_century", "years"}
  <2>1. /\ ReadOrder[1] = "seconds" /\ ReadOrder[2] = "minutes" /\ ReadOrder[3] = "hours"
        /\ ReadOrder[4] = "days" /\ ReadOrder[5] = "mon_century" /\ ReadOrder[6] = "years"
    BY DEF ReadOrder
  <2>2. 1..6 = {1, 2, 3, 4, 5, 6}
    OBVIOUS
  <2> QED BY <2>1, <2>2 DEF RtcRegisters
<1>2. ReadOrder \in Seq(RtcRegisters) /\ Len(ReadOrder) = 6 /\ ReadOrder[1] = "seconds"
  BY <1>1 DEF ReadOrder
<1>3. WriteOrder \in Seq(RtcRegisters) /\ Len(WriteOrder) = 6 /\ WriteOrder[6] = "seconds"
  BY <1>1 DEF WriteOrder
<1>4. \A r \in RtcRegisters : \E i \in 1..6 : WriteOrder[i] = r
  <2>1. /\ WriteOrder[1] = "years" /\ WriteOrder[2] = "mon_century" /\ WriteOrder[3] = "days"
        /\ WriteOrder[4] = "hours" /\ WriteOrder[5] = "minutes" /\ WriteOrder[6] = "seconds"
    BY DEF WriteOrder
  <2>2. 1 \in 1..6 /\ 2 \in 1..6 /\ 3 \in 1..6 /\ 4 \in 1..6 /\ 5 \in 1..6 /\ 6 \in 1..6
    OBVIOUS
  <2> QED BY <1>1, <2>1, <2>2
<1> QED BY <1>1, <1>2, <1>3, <1>4

(* A transfer that ends well leaves the rest of the order.                  *)
LEMMA NextTransfer ==
  ASSUME NEW order, order \in Seq(RtcRegisters), Len(order) = 6, RtcTypeOK,
         NEW n \in 0..6, AtTransfer(order, n), rtcPc.todo # <<>>,
         rtcPc'.todo = Tail(rtcPc.todo)
  PROVE  n < 6 /\ Head(rtcPc.todo) = order[n + 1] /\ AtTransfer(order, n + 1)'
<1>1. n < 6
  BY DEF AtTransfer, RtcTypeOK
<1>2. Head(rtcPc.todo) = rtcPc.todo[1] /\ rtcPc.todo[1] = order[n + 1]
  BY <1>1 DEF AtTransfer, RtcTypeOK
<1>3. Len(Tail(rtcPc.todo)) = 6 - (n + 1)
  BY <1>1 DEF AtTransfer, RtcTypeOK
<1>4. \A i \in 1..6 - (n + 1) : Tail(rtcPc.todo)[i] = order[(n + 1) + i]
  <2> SUFFICES ASSUME NEW i \in 1..6 - (n + 1) PROVE Tail(rtcPc.todo)[i] = order[(n + 1) + i]
    OBVIOUS
  <2>1. Tail(rtcPc.todo)[i] = rtcPc.todo[i + 1]
    BY <1>1, <1>3 DEF RtcTypeOK
  <2>2. i + 1 \in 1..6 - n
    BY <1>1
  <2>3. rtcPc.todo[i + 1] = order[n + (i + 1)]
    BY <2>2 DEF AtTransfer
  <2>4. n + (i + 1) = (n + 1) + i
    OBVIOUS
  <2> QED BY <2>1, <2>3, <2>4
<1> QED BY <1>1, <1>2, <1>3, <1>4 DEF AtTransfer

(* No call has a transfer left once it has ended.                           *)
LEMMA AtRest ==
  LET Calls == [call : {"none", "get", "set", "time", "error"},
                todo : Seq(RtcRegisters), DL : BOOLEAN]
  IN  NoCall \in Calls /\ Returned("time") \in Calls /\ Returned("error") \in Calls
<1>1. <<>> \in Seq(RtcRegisters)
  OBVIOUS
<1> QED BY <1>1 DEF NoCall, Returned

\* The invariant holds when the chip is met, and every step keeps it.
LEMMA RtcInitInv == RtcInit => RtcInv
<1> SUFFICES ASSUME RtcInit PROVE RtcInv
  OBVIOUS
<1>1. rtc = [DL |-> TRUE, kept |-> {}] /\ rtcPc = NoCall /\ told = FALSE
  BY DEF RtcInit
<1>2. rtc.DL /\ rtcPc.call = "none"
  BY <1>1 DEF NoCall
<1> QED BY <1>1, <1>2, AtRest DEF RtcInv, RtcTypeOK, FlagIsTrue, SetsInOrder, GetsFlagFirst,
             LossIsDetected

(* What a transfer may do: one that ended well has moved its data.          *)
LEMMA Transfers ==
  /\ \A t \in I2cWrite : t.written \in BOOLEAN /\ (I2cOk(t) => t.written)
BY DEF I2cWrite, I2cOk, I2cStart, I2cStop, I2cWait, Fails

-----------------------------------------------------------------------------

LEMMA GetTimeCallInv == RtcInv /\ GetTimeCall => RtcInv'
<1> SUFFICES ASSUME RtcInv, GetTimeCall PROVE RtcInv'
  OBVIOUS
<1>1. rtcPc'.call = "get" /\ rtcPc'.todo = ReadOrder /\ rtc' = rtc /\ told' = told
  BY DEF GetTimeCall
<1>2. RtcTypeOK'
  BY Registers DEF RtcInv, RtcTypeOK, GetTimeCall
<1>3. FlagIsTrue' /\ SetsInOrder' /\ LossIsDetected'
  BY <1>1 DEF RtcInv, FlagIsTrue, Believable, SetsInOrder, LossIsDetected
<1>4. GetsFlagFirst'
  <2>1. AtTransfer(ReadOrder, 0)'
    BY <1>1, Registers DEF AtTransfer
  <2> QED BY <2>1 DEF GetsFlagFirst
<1> QED BY <1>2, <1>3, <1>4 DEF RtcInv

\* The first of the six reads brings the flag, before any of the time.
LEMMA LibGetTimeReadsInv == RtcInv /\ LibGetTimeReads => RtcInv'
<1> SUFFICES ASSUME RtcInv, LibGetTimeReads PROVE RtcInv'
  OBVIOUS
<1>1. rtc' = rtc /\ told' = told /\ rtcPc.call = "get" /\ rtcPc.todo # <<>>
  BY DEF LibGetTimeReads
<1>2. CASE rtcPc' = Returned("error")
  <2>1. rtcPc'.call = "error" /\ RtcTypeOK'
    BY <1>1, <1>2, AtRest DEF Returned, RtcInv, RtcTypeOK
  <2> QED BY <1>1, <2>1 DEF RtcInv, FlagIsTrue, Believable, SetsInOrder, GetsFlagFirst,
               LossIsDetected
<1>3. CASE rtcPc' = [rtcPc EXCEPT !.todo = Tail(@),
                       !.DL = IF Head(rtcPc.todo) = "seconds" THEN rtc.DL ELSE @]
  <2>1. /\ rtcPc'.call = "get" /\ rtcPc'.todo = Tail(rtcPc.todo)
        /\ rtcPc'.DL = IF Head(rtcPc.todo) = "seconds" THEN rtc.DL ELSE rtcPc.DL
    BY <1>1, <1>3 DEF RtcInv, RtcTypeOK
  <2>2. RtcTypeOK'
    <3>1. Tail(rtcPc.todo) \in Seq(RtcRegisters) /\ rtc.DL \in BOOLEAN
      BY <1>1 DEF RtcInv, RtcTypeOK
    <3>2. rtcPc' \in [call : {"none", "get", "set", "time", "error"},
                       todo : Seq(RtcRegisters), DL : BOOLEAN]
      BY <1>1, <1>3, <3>1 DEF RtcInv, RtcTypeOK
    <3> QED BY <1>1, <3>2 DEF RtcInv, RtcTypeOK
  <2>3. PICK n \in 0..6 : AtTransfer(ReadOrder, n) /\ (n > 0 /\ ~rtcPc.DL => Believable)
    BY <1>1 DEF RtcInv, GetsFlagFirst
  <2>4. n < 6 /\ Head(rtcPc.todo) = ReadOrder[n + 1] /\ AtTransfer(ReadOrder, n + 1)'
    BY <1>1, <2>1, <2>3, Registers, NextTransfer DEF RtcInv
  <2>5. ~rtcPc'.DL => Believable'
    <3>1. CASE n = 0
      BY <1>1, <2>1, <2>4, <3>1, Registers DEF RtcInv, FlagIsTrue, Believable
    <3>2. CASE n > 0
      BY <1>1, <2>1, <2>3, <3>2 DEF RtcInv, RtcTypeOK, FlagIsTrue, Believable
    <3> QED BY <3>1, <3>2
  <2>6. GetsFlagFirst'
    <3>1. n + 1 \in 0..6
      BY <2>4
    <3> QED BY <2>4, <2>5, <3>1 DEF GetsFlagFirst
  <2> QED BY <1>1, <2>1, <2>2, <2>6 DEF RtcInv, FlagIsTrue, Believable, SetsInOrder,
               LossIsDetected
<1> QED BY <1>2, <1>3 DEF LibGetTimeReads

\* The call returns a time only without the flag in it.
LEMMA LibGetTimeEndsInv == RtcInv /\ (LibGetTimeRefuses \/ LibGetTime) => RtcInv'
<1> SUFFICES ASSUME RtcInv, LibGetTimeRefuses \/ LibGetTime PROVE RtcInv'
  OBVIOUS
<1>1. CASE LibGetTimeRefuses
  <2>1. told' = TRUE /\ rtcPc'.call = "error" /\ rtcPc' = Returned("error")
    BY <1>1 DEF LibGetTimeRefuses, Returned
  <2>2. RtcTypeOK'
    <3>1. rtc' \in [DL : BOOLEAN, kept : SUBSET RtcRegisters]
      BY <1>1 DEF LibGetTimeRefuses, RtcInv, RtcTypeOK
    <3> QED BY <2>1, <3>1, AtRest DEF RtcTypeOK
  <2> QED BY <2>1, <2>2 DEF RtcInv, FlagIsTrue, Believable, SetsInOrder, GetsFlagFirst,
               LossIsDetected
<1>2. CASE LibGetTime
  <2>1. /\ rtc' = rtc /\ told' = told /\ rtcPc'.call = "time" /\ rtcPc' = Returned("time")
        /\ rtcPc.call = "get" /\ rtcPc.todo = <<>> /\ ~rtcPc.DL
    BY <1>2 DEF LibGetTime, Returned
  <2>2. RtcTypeOK'
    BY <2>1, AtRest DEF RtcInv, RtcTypeOK
  <2>3. Believable
    <3>1. PICK n \in 0..6 : AtTransfer(ReadOrder, n) /\ (n > 0 /\ ~rtcPc.DL => Believable)
      BY <2>1 DEF RtcInv, GetsFlagFirst
    <3>2. Len(rtcPc.todo) = 0
      BY <2>1
    <3>3. n = 6
      BY <3>1, <3>2 DEF AtTransfer
    <3> QED BY <2>1, <3>1, <3>3
  <2> QED BY <2>1, <2>2, <2>3
        DEF RtcInv, FlagIsTrue, Believable, SetsInOrder, GetsFlagFirst, LossIsDetected
<1> QED BY <1>1, <1>2

LEMMA SetTimeCallInv == RtcInv /\ SetTimeCall => RtcInv'
<1> SUFFICES ASSUME RtcInv, SetTimeCall PROVE RtcInv'
  OBVIOUS
<1>1. rtc' = rtc /\ told' = told
  BY DEF SetTimeCall
<1>2. CASE rtcPc' = [call |-> "set", todo |-> WriteOrder, DL |-> FALSE]
  <2>1. rtcPc'.call = "set" /\ rtcPc'.todo = WriteOrder
    BY <1>2
  <2>2. RtcTypeOK'
    BY <1>1, <1>2, Registers DEF RtcInv, RtcTypeOK
  <2>3. SetsInOrder'
    <3>1. AtTransfer(WriteOrder, 0)'
      BY <2>1, Registers DEF AtTransfer
    <3> QED BY <3>1 DEF SetsInOrder
  <2> QED BY <1>1, <2>1, <2>2, <2>3 DEF RtcInv, FlagIsTrue, Believable, GetsFlagFirst,
               LossIsDetected
<1>3. CASE rtcPc' = Returned("error")
  <2>1. rtcPc'.call = "error" /\ RtcTypeOK'
    BY <1>1, <1>3 DEF Returned, RtcInv, RtcTypeOK
  <2> QED BY <1>1, <2>1 DEF RtcInv, FlagIsTrue, Believable, SetsInOrder, GetsFlagFirst,
               LossIsDetected
<1> QED BY <1>2, <1>3 DEF SetTimeCall

\* The seconds, with the flag, are written after all the others.
LEMMA LibSetTimeWritesInv == RtcInv /\ LibSetTimeWrites => RtcInv'
<1> SUFFICES ASSUME RtcInv, LibSetTimeWrites PROVE RtcInv'
  OBVIOUS
<1>1. rtcPc.call = "set" /\ rtcPc.todo # <<>> /\ told' = told
  BY DEF LibSetTimeWrites
<1>2. PICK t \in I2cWrite :
        /\ rtc' = IF t.written THEN Stored(Head(rtcPc.todo)) ELSE rtc
        /\ rtcPc' = IF I2cOk(t) THEN [rtcPc EXCEPT !.todo = Tail(@)] ELSE Returned("error")
  BY DEF LibSetTimeWrites
<1>3. PICK n \in 0..6 :
        AtTransfer(WriteOrder, n) /\ \A i \in 1..n : WriteOrder[i] \in rtc.kept
  BY <1>1 DEF RtcInv, SetsInOrder
<1>4. /\ n < 6 /\ Head(rtcPc.todo) = WriteOrder[n + 1]
      /\ Head(rtcPc.todo) \in RtcRegisters /\ Tail(rtcPc.todo) \in Seq(RtcRegisters)
  <2>1. n < 6
    BY <1>1, <1>3 DEF AtTransfer, RtcInv, RtcTypeOK
  <2>2. Head(rtcPc.todo) = rtcPc.todo[1] /\ rtcPc.todo[1] = WriteOrder[n + 1]
    BY <1>1, <1>3, <2>1 DEF AtTransfer, RtcInv, RtcTypeOK
  <2> QED BY <1>1, <2>1, <2>2 DEF RtcInv, RtcTypeOK
<1>5. /\ RtcTypeOK' /\ rtc.kept \subseteq rtc'.kept
      /\ t.written => Head(rtcPc.todo) \in rtc'.kept
  <2>1. /\ rtc' \in [DL : BOOLEAN, kept : SUBSET RtcRegisters]
        /\ rtc.kept \subseteq rtc'.kept
        /\ t.written => Head(rtcPc.todo) \in rtc'.kept
    BY <1>2, <1>4 DEF Stored, RtcInv, RtcTypeOK
  <2>2. rtcPc' \in [call : {"none", "get", "set", "time", "error"},
                     todo : Seq(RtcRegisters), DL : BOOLEAN]
    BY <1>1, <1>2, <1>4, AtRest DEF RtcInv, RtcTypeOK
  <2>3. RtcTypeOK'
    BY <1>1, <2>1, <2>2 DEF RtcInv, RtcTypeOK
  <2> QED BY <2>1, <2>3
<1>6. FlagIsTrue'
  <2>1. CASE ~t.written
    BY <1>1, <1>2, <2>1 DEF RtcInv, FlagIsTrue, Believable
  <2>2. CASE t.written /\ Head(rtcPc.todo) = "seconds"
    <3>1. n = 5
      <4>1. WriteOrder[n + 1] = "seconds"
        BY <1>4, <2>2
      <4> QED BY <1>4, <4>1 DEF WriteOrder
    <3>2. \A i \in 1..6 : WriteOrder[i] \in rtc'.kept
      <4> SUFFICES ASSUME NEW i \in 1..6 PROVE WriteOrder[i] \in rtc'.kept
        OBVIOUS
      <4>1. CASE i = 6
        BY <1>4, <1>5, <2>2, <3>1, <4>1
      <4>2. CASE i \in 1..5
        BY <1>3, <1>5, <3>1, <4>2
      <4> QED BY <4>1, <4>2
    <3>3. rtc'.kept = RtcRegisters
      BY <1>5, <3>2, Registers DEF RtcTypeOK
    <3> QED BY <3>3 DEF FlagIsTrue, Believable
  <2>3. CASE t.written /\ Head(rtcPc.todo) # "seconds"
    <3>1. rtc'.DL = rtc.DL
      BY <1>2, <2>3 DEF Stored
    <3>2. rtc.kept = RtcRegisters => rtc'.kept = RtcRegisters
      BY <1>5 DEF RtcTypeOK
    <3> QED BY <1>1, <3>1, <3>2 DEF RtcInv, FlagIsTrue, Believable
  <2> QED BY <2>1, <2>2, <2>3
<1>7. SetsInOrder' /\ GetsFlagFirst' /\ LossIsDetected'
  <2>1. CASE I2cOk(t)
    <3>1. rtcPc'.call = "set" /\ rtcPc'.todo = Tail(rtcPc.todo)
      BY <1>1, <1>2, <2>1 DEF RtcInv, RtcTypeOK
    <3>2. AtTransfer(WriteOrder, n + 1)'
      BY <1>1, <1>3, <3>1, Registers, NextTransfer DEF RtcInv
    <3>3. \A i \in 1..n + 1 : WriteOrder[i] \in rtc'.kept
      <4> SUFFICES ASSUME NEW i \in 1..n + 1 PROVE WriteOrder[i] \in rtc'.kept
        OBVIOUS
      <4>1. CASE i = n + 1
        BY <1>4, <1>5, <2>1, <4>1, Transfers
      <4>2. CASE i \in 1..n
        BY <1>3, <1>5, <4>2
      <4> QED BY <4>1, <4>2
    <3>4. n + 1 \in 0..6
      BY <1>4
    <3>5. SetsInOrder'
      BY <3>2, <3>3, <3>4 DEF SetsInOrder
    <3> QED BY <3>1, <3>5 DEF GetsFlagFirst, LossIsDetected
  <2>2. CASE ~I2cOk(t)
    <3>1. rtcPc'.call = "error"
      BY <1>2, <2>2 DEF Returned
    <3> QED BY <3>1 DEF SetsInOrder, GetsFlagFirst, LossIsDetected
  <2> QED BY <2>1, <2>2
<1> QED BY <1>5, <1>6, <1>7 DEF RtcInv

LEMMA LibSetTimeInv == RtcInv /\ LibSetTime => RtcInv'
<1> SUFFICES ASSUME RtcInv, LibSetTime PROVE RtcInv'
  OBVIOUS
<1>1. rtc' = rtc /\ told' = told /\ rtcPc' = NoCall /\ rtcPc'.call = "none"
  BY DEF LibSetTime, NoCall
<1> QED BY <1>1, AtRest
      DEF RtcInv, RtcTypeOK, FlagIsTrue, Believable, SetsInOrder, GetsFlagFirst, LossIsDetected

LEMMA SwitchedOffInv == RtcInv /\ SwitchedOff => RtcInv'
<1> SUFFICES ASSUME RtcInv, SwitchedOff PROVE RtcInv'
  OBVIOUS
<1>1. rtcPc' = NoCall /\ rtcPc'.call = "none"
  BY DEF SwitchedOff, NoCall
<1>2. /\ rtc' \in [DL : BOOLEAN, kept : SUBSET RtcRegisters] /\ told' \in BOOLEAN
      /\ FlagIsTrue'
  <2>1. CASE rtc' = rtc /\ told' = told
    BY <2>1 DEF RtcInv, RtcTypeOK, FlagIsTrue, Believable
  <2>2. CASE rtc' = [DL |-> TRUE, kept |-> {}] /\ told' = FALSE
    BY <2>2 DEF FlagIsTrue
  <2> QED BY <2>1, <2>2 DEF SwitchedOff
<1> QED BY <1>1, <1>2, AtRest DEF RtcInv, RtcTypeOK, SetsInOrder, GetsFlagFirst, LossIsDetected

\* Every step of the clock, or none, keeps its invariant.
LEMMA RtcStepInv == RtcInv /\ [RtcNext]_rtcVars => RtcInv'
<1> SUFFICES ASSUME RtcInv, [RtcNext]_rtcVars PROVE RtcInv'
  OBVIOUS
<1>1. CASE UNCHANGED rtcVars
  BY <1>1 DEF rtcVars, RtcInv, RtcTypeOK, FlagIsTrue, Believable, SetsInOrder, GetsFlagFirst,
              AtTransfer, LossIsDetected
<1> QED BY <1>1, GetTimeCallInv, LibGetTimeReadsInv, LibGetTimeEndsInv, SetTimeCallInv,
           LibSetTimeWritesInv, LibSetTimeInv, SwitchedOffInv DEF RtcNext

(* A lost time is never returned as the time before a caller was told so   *)
(* (LibGetTime), whatever transfer of whatever call fails and whenever the *)
(* machine goes off.                                                       *)
THEOREM LossAlwaysDetected == RtcSpec => []LossIsDetected
<1>1. RtcInv => LossIsDetected
  BY DEF RtcInv
<1> QED BY RtcInitInv, RtcStepInv, <1>1, PTL DEF RtcSpec

(* Without the flag the time in the chip counts, or its loss was told: the *)
(* flag, which LibSetTime clears with its last write, is never cleared on  *)
(* the way.                                                                *)
THEOREM FlagAlwaysTrue == RtcSpec => []FlagIsTrue
<1>1. RtcInv => FlagIsTrue
  BY DEF RtcInv
<1> QED BY RtcInitInv, RtcStepInv, <1>1, PTL DEF RtcSpec
-----------------------------------------------------------------------------
(***************************************************************************)
(* The CPU clock.  ApplyVariables raises the voltage before the clock and  *)
(* lowers it after: which of the two it does it decides on a clock it read *)
(* (ClockRead), it writes the selector it read (VselRead), the voltage is  *)
(* there before the clock is set (SuppliedFirst), the clock is down before *)
(* the voltage (LoweredLast), and a call that has set nothing yet leaves   *)
(* the pair the board booted with (BootsSupplied).                         *)
(***************************************************************************)
Vsels == [high : SUBSET {6, 7}, nsel : 0..VSEL_NSEL_MASK]
CpuPcs == {"setup", "choose", "get", "raise", "raising", "speed", "lower", "lowering",
           "pages", "done", "stopped"}

CpuTypeOK ==
  /\ setup \in [created : SUBSET VariableNames, pages : BOOLEAN]
  /\ cpu \in [mhz : Rates, reg : Regulators, vsel : Vsels]
  /\ setting \in [pc : CpuPcs, speed : Nat, cur : Nat, old : Vsels, failed : BOOLEAN]

Supplied == UVol(cpu.reg, cpu.vsel)
Enough == Supplied >= CpuVoltageHzToUVol(cpu.mhz)

\* What the property asks before it says anything.
Watched ==
  ~setting.failed /\ Needed # Unsupported /\ Selector(cpu.reg, Needed) <= VSEL_NSEL_MASK

Before == {"setup", "choose", "get", "raise", "raising"}

\* Until the clock is set, it is the one the board booted with.
BootsSupplied ==
  /\ setting.pc \in Before => Enough
  /\ setting.pc \in Before \cup {"speed"} => CpuVoltageHzToUVol(cpu.mhz) # Unsupported

\* The choice between raising and lowering was made on this clock.
ClockRead ==
  /\ setting.pc \in {"raise", "raising", "speed"} => setting.cur = cpu.mhz
  /\ setting.pc \in {"raise", "raising"} => setting.cur < setting.speed

VselRead == setting.pc \in {"raising", "lowering"} => setting.failed \/ setting.old = cpu.vsel

\* The voltage is already there when the clock is set, and still when it is
\* only then brought down.
SuppliedFirst == setting.pc = "speed" /\ Watched => Supplied >= Needed
LoweredLast == setting.pc \in {"lower", "lowering"} /\ Watched => cpu.mhz <= setting.speed

CpuInv == /\ CpuTypeOK /\ BootsSupplied /\ ClockRead /\ VselRead
          /\ SuppliedFirst /\ LoweredLast /\ VoltageSuffices

-----------------------------------------------------------------------------
(* Least and greatest elements.                                             *)

\* Every non-empty set of naturals has a least element.
LEMMA LeastNatural ==
  ASSUME NEW T, T \subseteq Nat, T # {}
  PROVE  \E x \in T : \A y \in T : x <= y
<1> DEFINE Less == {p \in Nat \X Nat : p[1] < p[2]}
<1>1. IsWellFoundedOn(Less, Nat)
  BY NatLessThanWellFounded DEF OpToRel
<1> HIDE DEF Less
<1>2. PICK x \in T : \A y \in T : ~ (<<y, x>> \in Less)
  BY <1>1, WFMin
<1>3. ASSUME NEW y \in T PROVE x <= y
  <2>1. x \in Nat /\ y \in Nat /\ ~ (<<y, x>> \in Less)
    BY <1>2
  <2> QED BY <2>1 DEF Less
<1> QED BY <1>3

\* A set of naturals with 0 and with what follows each of its members has all.
LEMMA InductiveSet ==
  ASSUME NEW T, 0 \in T, \A n \in Nat : n \in T => n + 1 \in T
  PROVE  Nat \subseteq T
<1> SUFFICES ASSUME Nat \ T # {} PROVE FALSE
  OBVIOUS
<1>1. PICK x \in Nat \ T : \A y \in Nat \ T : x <= y
  BY LeastNatural
<1>2. x # 0 /\ x - 1 \in Nat /\ x - 1 \notin Nat \ T
  BY <1>1
<1> QED BY <1>2

\* A finite set of naturals has a bound.
LEMMA FiniteSetBounded ==
  ASSUME NEW S, S \subseteq Nat, IsFiniteSet(S)
  PROVE  \E top \in Nat : \A x \in S : x <= top
<1>1. PICK n \in Nat : ExistsBijection(1..n, S)
  BY FS_NatBijection
<1>2. PICK f \in [1..n -> S] : \A x \in S : \E i \in 1..n : f[i] = x
  BY <1>1 DEF ExistsBijection, Bijection, Surjection
<1> DEFINE T == {k \in Nat : \E top \in Nat : \A i \in 1..n : i <= k => f[i] <= top}
<1>3. 0 \in T
  OBVIOUS
<1>4. ASSUME NEW k \in Nat, k \in T PROVE k + 1 \in T
  <2>1. PICK top \in Nat : \A i \in 1..n : i <= k => f[i] <= top
    BY <1>4
  <2> DEFINE higher == IF k + 1 \in 1..n /\ f[k + 1] > top THEN f[k + 1] ELSE top
  <2>2. higher \in Nat /\ \A i \in 1..n : i <= k + 1 => f[i] <= higher
    <3>1. \A i \in 1..n : f[i] \in Nat
      OBVIOUS
    <3> QED BY <2>1, <3>1
  <2> HIDE DEF higher
  <2> QED BY <2>2
<1> HIDE DEF T
<1>5. n \in T
  BY <1>3, <1>4, InductiveSet
<1>6. PICK top \in Nat : \A i \in 1..n : i <= n => f[i] <= top
  BY <1>5 DEF T
<1>7. ASSUME NEW x \in S PROVE x <= top
  <2>1. PICK i \in 1..n : f[i] = x
    BY <1>2
  <2> QED BY <2>1, <1>6
<1> QED BY <1>7

\* Min and Max of the library, of sets that have them.
LEMMA MinOfNaturals ==
  ASSUME NEW S, S \subseteq Nat, S # {}
  PROVE  Min(S) \in S /\ \A y \in S : Min(S) <= y
<1>1. \E x \in S : \A y \in S : x <= y
  BY LeastNatural
<1> QED BY <1>1 DEF Min

\* The greatest element is the least distance to the bound.
LEMMA MaxOfNaturals ==
  ASSUME NEW S, S \subseteq Nat, S # {}, NEW top \in Nat, \A x \in S : x <= top
  PROVE  Max(S) \in S /\ \A y \in S : Max(S) >= y
<1>1. PICK d \in {top - x : x \in S} : \A e \in {top - x : x \in S} : d <= e
  <2>1. \A x \in S : top - x \in Nat
    OBVIOUS
  <2>2. {top - x : x \in S} \subseteq Nat /\ {top - x : x \in S} # {}
    BY <2>1
  <2> QED BY <2>2, LeastNatural
<1>2. PICK x \in S : d = top - x
  BY <1>1
<1>3. \A y \in S : x >= y
  <2> TAKE y \in S
  <2>1. d <= top - y /\ x \in Nat /\ y \in Nat
    BY <1>1
  <2> QED BY <1>2, <2>1
<1>4. \E z \in S : \A y \in S : z >= y
  BY <1>3
<1> QED BY <1>4 DEF Max

-----------------------------------------------------------------------------
(* The table, and the regulator.                                            *)
LEMMA VoltageOf ==
  ASSUME NEW mhz \in Nat
  PROVE  CpuVoltageHzToUVol(mhz) = IF mhz <= 1200 THEN 825000 ELSE IF mhz <= 1416 THEN 900000
           ELSE IF mhz <= 1608 THEN 975000 ELSE IF mhz <= 1800 THEN 1050000
           ELSE IF mhz <= 1992 THEN 1150000 ELSE 0
<1> DEFINE fit == {i \in DOMAIN Opps : mhz <= Opps[i][1]}
<1>1. /\ DOMAIN Opps = 1..5 /\ fit \subseteq Nat
      /\ Opps[1][1] = 1200 /\ Opps[2][1] = 1416 /\ Opps[3][1] = 1608 /\ Opps[4][1] = 1800
      /\ Opps[5][1] = 1992
      /\ Opps[1][2] = 825000 /\ Opps[2][2] = 900000 /\ Opps[3][2] = 975000
      /\ Opps[4][2] = 1050000 /\ Opps[5][2] = 1150000
  BY DEF Opps
<1>2. CpuVoltageHzToUVol(mhz) = IF fit = {} THEN 0 ELSE Opps[Min(fit)][2]
  BY DEF CpuVoltageHzToUVol, Unsupported
<1>3. \A i \in 1..5 : i \in fit <=> mhz <= Opps[i][1]
  BY <1>1
<1>4. fit # {} => Min(fit) \in fit /\ \A i \in fit : Min(fit) <= i
  BY <1>1, MinOfNaturals
<1>5. fit \subseteq 1..5
  BY <1>1
<1> HIDE DEF fit
<1>6. fit = {} <=> mhz > 1992
  BY <1>1, <1>3, <1>5
<1>7. fit # {} => Min(fit) \in {1, 2, 3, 4, 5}
  <2>1. 1..5 = {1, 2, 3, 4, 5}
    OBVIOUS
  <2> QED BY <1>4, <1>5, <2>1
<1> QED BY <1>1, <1>2, <1>3, <1>4, <1>6, <1>7

\* A slower clock needs no more, where the faster one's voltage is known.
LEMMA VoltageMonotone ==
  ASSUME NEW slow \in Nat, NEW fast \in Nat, slow <= fast,
         CpuVoltageHzToUVol(fast) # Unsupported
  PROVE  CpuVoltageHzToUVol(slow) <= CpuVoltageHzToUVol(fast)
BY VoltageOf DEF Unsupported

\* The voltages are numbers, and those of the table are on the regulator's grid.
LEMMA VoltageNatural ==
  ASSUME NEW mhz \in Nat
  PROVE  CpuVoltageHzToUVol(mhz) \in Nat
BY VoltageOf

\* A voltage that is supported is one of the table.
LEMMA OnTheGrid ==
  ASSUME NEW mhz \in Nat, CpuVoltageHzToUVol(mhz) # Unsupported
  PROVE  \E i \in DOMAIN Opps : CpuVoltageHzToUVol(mhz) = Opps[i][2]
<1>1. /\ {1, 2, 3, 4, 5} \subseteq DOMAIN Opps
      /\ Opps[1][2] = 825000 /\ Opps[2][2] = 900000 /\ Opps[3][2] = 975000
      /\ Opps[4][2] = 1050000 /\ Opps[5][2] = 1150000
  BY DEF Opps
<1> QED BY <1>1, VoltageOf DEF Unsupported

\* What the selector of a voltage of the table gives back.
LEMMA SelectorExact ==
  ASSUME NEW reg \in Regulators, NEW i \in DOMAIN Opps
  PROVE  /\ Selector(reg, Opps[i][2]) \in Nat
         /\ Selector(reg, Opps[i][2]) * reg.step + reg.base = Opps[i][2]
<1>1. Opps[i][2] \in Nat
  BY DEF Opps
<1>2. /\ reg.base \in Nat /\ reg.step \in Nat \ {0} /\ reg.base <= Opps[i][2]
      /\ (Opps[i][2] - reg.base) % reg.step = 0
  BY RatesAssumption, RegulatorAssumption
<1>3. ASSUME NEW a \in Nat, NEW b \in Nat \ {0}, a % b = 0
      PROVE  a \div b \in Nat /\ (a \div b) * b = a
  BY <1>3
<1>4. Opps[i][2] - reg.base \in Nat
  BY <1>1, <1>2
<1>5. /\ (Opps[i][2] - reg.base) \div reg.step \in Nat
      /\ ((Opps[i][2] - reg.base) \div reg.step) * reg.step = Opps[i][2] - reg.base
  BY <1>2, <1>3, <1>4
<1> QED BY <1>1, <1>2, <1>5 DEF Selector

\* What is written where the selector fits its field.
LEMMA WithSelectorSupplies ==
  ASSUME NEW reg \in Regulators, NEW i \in DOMAIN Opps, NEW old \in Vsels,
         Selector(reg, Opps[i][2]) <= VSEL_NSEL_MASK
  PROVE  UVol(reg, WithSelector(old, Selector(reg, Opps[i][2]))) = Opps[i][2]
<1>1. ASSUME NEW n \in Nat, n <= 63 PROVE n % 64 = n
  BY <1>1
<1>2. Selector(reg, Opps[i][2]) % 64 = Selector(reg, Opps[i][2])
  BY <1>1, SelectorExact DEF VSEL_NSEL_MASK
<1> QED BY <1>2, SelectorExact DEF UVol, WithSelector, VSEL_NSEL_MASK

\* Writing the selector leaves the other bits of the register.
LEMMA WithSelectorTyped ==
  ASSUME NEW old \in Vsels, NEW n \in Int
  PROVE  WithSelector(old, n) \in Vsels
BY DEF WithSelector, Vsels, VSEL_NSEL_MASK

\* A speed that is asked for, and a rate the service then takes.
LEMMA SpeedsNatural == Speeds \subseteq Nat
<1>1. PICK top \in Nat : \A x \in Rates : x <= top
  BY RatesAssumption, FiniteSetBounded
<1>2. Min(Rates) \in Rates /\ Max(Rates) \in Rates
  BY <1>1, RatesAssumption, MinOfNaturals, MaxOfNaturals
<1>3. ASSUME NEW x \in Speeds PROVE x = 0 \/ x = Min(Rates) \/ x = Max(Rates) \/ x \in Customs
  BY DEF Speeds, GetMinMaxCpuSpeed
<1>4. Customs \subseteq Nat /\ Min(Rates) \in Nat /\ Max(Rates) \in Nat
  BY <1>2, RatesAssumption
<1>5. ASSUME NEW x \in Speeds PROVE x \in Nat
  <2>1. x = 0 \/ x \in Nat
    BY <1>3, <1>4, Zenon
  <2> QED BY <2>1
<1> QED BY <1>5

\* The rate the service takes is one of its own, and no more than was asked for.
LEMMA RateTaken ==
  ASSUME NEW mhz \in Nat, RatesUpTo(mhz) # {}
  PROVE  Max(RatesUpTo(mhz)) \in Rates /\ Max(RatesUpTo(mhz)) <= mhz
<1>1. RatesUpTo(mhz) \subseteq Nat /\ \A x \in RatesUpTo(mhz) : x <= mhz
  BY RatesAssumption DEF RatesUpTo
<1>2. Max(RatesUpTo(mhz)) \in RatesUpTo(mhz)
  BY <1>1, MaxOfNaturals
<1> QED BY <1>2 DEF RatesUpTo

-----------------------------------------------------------------------------

\* The board boots with a voltage that is enough for its clock.
LEMMA CpuInitInv == CpuInit => CpuInv
<1> SUFFICES ASSUME CpuInit PROVE CpuInv
  OBVIOUS
<1>1. PICK reg \in Regulators, mhz \in Rates, i \in DOMAIN Opps, high \in {{}, {7}} :
        /\ CpuVoltageHzToUVol(mhz) \in 1..Opps[i][2]
        /\ Selector(reg, Opps[i][2]) <= VSEL_NSEL_MASK
        /\ cpu = [mhz |-> mhz, reg |-> reg,
                  vsel |-> [high |-> high, nsel |-> Selector(reg, Opps[i][2])]]
  BY DEF CpuInit
<1>2. /\ setting = [pc |-> "setup", speed |-> 0, cur |-> 0, old |-> cpu.vsel, failed |-> FALSE]
      /\ setup \in [created : SUBSET VariableNames, pages : {FALSE}]
  BY DEF CpuInit
<1>3. cpu.vsel \in Vsels
  BY <1>1, SelectorExact DEF Vsels, VSEL_NSEL_MASK
<1>4. CpuTypeOK
  BY <1>1, <1>2, <1>3 DEF CpuTypeOK, CpuPcs
<1>5. Supplied = Opps[i][2]
  BY <1>1, SelectorExact DEF Supplied, UVol
<1>6. Opps[i][2] \in Nat
  BY DEF Opps
<1>7. Enough /\ CpuVoltageHzToUVol(cpu.mhz) # Unsupported
  BY <1>1, <1>5, <1>6 DEF Enough, Unsupported
<1> QED BY <1>2, <1>4, <1>7 DEF CpuInv, BootsSupplied, ClockRead, VselRead, SuppliedFirst,
           LoweredLast, VoltageSuffices, Enough, Supplied, Before

-----------------------------------------------------------------------------
(* One lemma for each step of ApplyVariables.                                *)

\* What the invariant says, with the voltages as numbers.
LEMMA Numbers ==
  ASSUME CpuTypeOK
  PROVE  /\ cpu.mhz \in Nat /\ setting.cur \in Nat /\ setting.speed \in Nat
         /\ Needed \in Nat /\ CpuVoltageHzToUVol(cpu.mhz) \in Nat /\ Supplied \in Nat
<1>1. /\ cpu.mhz \in Nat /\ setting.cur \in Nat /\ setting.speed \in Nat
      /\ cpu.reg.base \in Nat /\ cpu.reg.step \in Nat /\ cpu.vsel.nsel \in Nat
  <2>1. Rates \subseteq Nat /\ \A reg \in Regulators : reg.base \in Nat /\ reg.step \in Nat
    BY RatesAssumption
  <2>2. cpu.mhz \in Rates /\ cpu.reg \in Regulators /\ cpu.vsel.nsel \in 0..63
    BY DEF CpuTypeOK, Vsels, VSEL_NSEL_MASK
  <2>3. setting.cur \in Nat /\ setting.speed \in Nat
    BY DEF CpuTypeOK
  <2>4. cpu.mhz \in Nat
    BY <2>1, <2>2
  <2>5. cpu.vsel.nsel \in Nat
    BY <2>2
  <2>6. cpu.reg.base \in Nat /\ cpu.reg.step \in Nat
    BY <2>1, <2>2
  <2> QED BY <2>3, <2>4, <2>6, <2>5
<1>2. Supplied \in Nat
  <2>1. \A a, b, c \in Nat : a * b + c \in Nat
    OBVIOUS
  <2> QED BY <1>1, <2>1 DEF Supplied, UVol
<1> QED BY <1>1, <1>2, VoltageNatural DEF Needed

LEMMA SetupKeeps == CpuInv /\ SetupVariables => CpuInv'
BY DEF CpuInv, CpuTypeOK, CpuPcs, SetupVariables, CpuGoto, BootsSupplied, ClockRead, VselRead,
       SuppliedFirst, LoweredLast, VoltageSuffices, Enough, Supplied, Before, Needed, Watched

LEMMA ApplyKeeps == CpuInv /\ ApplyVariables => CpuInv'
<1> SUFFICES ASSUME CpuInv, ApplyVariables PROVE CpuInv'
  OBVIOUS
<1>1. PICK speed \in Speeds : setting' = [setting EXCEPT !.pc = "get", !.speed = speed]
  BY DEF ApplyVariables
<1>2. speed \in Nat
  BY SpeedsNatural
<1>3. cpu' = cpu /\ setup' = setup /\ setting.pc = "choose"
  BY DEF ApplyVariables
<1>4. CpuTypeOK'
  BY <1>1, <1>2, <1>3 DEF CpuInv, CpuTypeOK, CpuPcs
<1>5. Enough' /\ CpuVoltageHzToUVol(cpu'.mhz) # Unsupported
  BY <1>3 DEF CpuInv, BootsSupplied, Before, Enough, Supplied
<1>6. setting'.pc = "get"
  BY <1>1 DEF CpuInv, CpuTypeOK
<1> QED BY <1>4, <1>5, <1>6 DEF CpuInv, BootsSupplied, ClockRead, VselRead,
           SuppliedFirst, LoweredLast, VoltageSuffices, Enough, Supplied, Before

\* From the clock that was read follows what comes first.
LEMMA ReadKeeps == CpuInv /\ GetCpuSpeed => CpuInv'
<1> SUFFICES ASSUME CpuInv, GetCpuSpeed PROVE CpuInv'
  OBVIOUS
<1> DEFINE next == IF setting.speed = 0 THEN "pages"
                   ELSE IF cpu.mhz < setting.speed THEN "raise" ELSE "speed"
<1>1. /\ setting' = [setting EXCEPT !.cur = cpu.mhz, !.pc = next]
      /\ setting.pc = "get" /\ cpu' = cpu /\ setup' = setup
  BY DEF GetCpuSpeed
<1>2. CpuTypeOK /\ CpuTypeOK'
  BY <1>1, Numbers DEF CpuInv, CpuTypeOK, CpuPcs
<1>3. /\ setting'.pc = next /\ setting'.cur = cpu'.mhz /\ setting'.speed = setting.speed
      /\ setting'.failed = setting.failed
  BY <1>1, <1>2 DEF CpuTypeOK
<1>4. /\ Enough /\ CpuVoltageHzToUVol(cpu.mhz) # Unsupported
      /\ Supplied' = Supplied /\ Needed' = Needed
  BY <1>1, <1>3 DEF CpuInv, BootsSupplied, Before, Supplied, Needed
<1>5. Enough'
  BY <1>1, <1>4 DEF Enough
<1>6. cpu.mhz >= setting.speed => Supplied >= Needed
  BY <1>2, <1>4, Numbers, VoltageMonotone DEF Enough, Needed
<1>7. cpu'.mhz = cpu.mhz /\ next = "raise" => cpu.mhz < setting.speed
  BY <1>1
<1>8. next = "speed" => cpu.mhz >= setting.speed
  BY <1>2, Numbers
<1>9. next \in {"pages", "raise", "speed"}
  OBVIOUS
<1> HIDE DEF next
<1>10. BootsSupplied' /\ ClockRead' /\ VselRead' /\ LoweredLast' /\ VoltageSuffices'
  BY <1>1, <1>3, <1>4, <1>5, <1>7, <1>9
     DEF BootsSupplied, ClockRead, VselRead, LoweredLast, VoltageSuffices, Enough, Supplied,
           Before
<1>11. SuppliedFirst'
  BY <1>3, <1>4, <1>6, <1>8, <1>9 DEF SuppliedFirst
<1> QED BY <1>2, <1>10, <1>11 DEF CpuInv

\* A call that fails changes nothing but where ApplyVariables is.
LEMMA FaultKeeps ==
  ASSUME NEW from, NEW to \in {"pages", "lower"}, CpuInv, Fault(from, to)
  PROVE  CpuInv'
<1>1. PICK stop \in {"stopped", "pages", "lower"} :
        setting' = [setting EXCEPT !.pc = stop, !.failed = TRUE]
  BY DEF Fault
<1>2. cpu' = cpu /\ setup' = setup
  BY DEF Fault
<1>3. CpuTypeOK'
  BY <1>1, <1>2 DEF CpuInv, CpuTypeOK, CpuPcs
<1>4. setting'.pc = stop /\ setting'.failed
  BY <1>1 DEF CpuInv, CpuTypeOK
<1> QED BY <1>3, <1>4 DEF CpuInv, BootsSupplied, ClockRead, VselRead, SuppliedFirst, Watched,
           LoweredLast, VoltageSuffices, Before

\* On to a later step of a CpuVoltageSet that left the register alone.
LEMMA VoltageGoesOn ==
  ASSUME CpuInv, setting.pc \in VoltagePcs, cpu' = cpu, setup' = setup, CpuTypeOK',
         setting'.speed = setting.speed, setting'.cur = setting.cur,
         setting'.pc \in {Writing(setting.pc), AfterVoltage(setting.pc)},
         ~ setting'.failed => ~ setting.failed,
         setting'.pc = Writing(setting.pc) => setting'.failed \/ setting'.old = cpu.vsel,
         setting'.pc = "speed" => Needed = Unsupported \/ Supplied = Needed \/ setting'.failed
  PROVE  CpuInv'
<1>1. /\ Supplied' = Supplied /\ Enough' = Enough /\ Needed' = Needed /\ cpu'.mhz = cpu.mhz
      /\ cpu'.reg = cpu.reg
  BY DEF Supplied, Enough, Needed
<1>2. setting.pc = "raise" => setting'.pc \in {"raising", "speed"}
  BY DEF Writing, AfterVoltage
<1>3. setting.pc = "lower" => setting'.pc \in {"lowering", "pages"}
  BY DEF Writing, AfterVoltage
<1>4. setting.pc \in {"raise", "lower"}
  BY DEF VoltagePcs
<1>5. CpuTypeOK /\ Needed \in Nat /\ Supplied \in Nat
  BY Numbers DEF CpuInv
<1>6. BootsSupplied' /\ ClockRead'
  BY <1>1, <1>2, <1>3, <1>4 DEF CpuInv, BootsSupplied, ClockRead, Before
<1>7. VselRead'
  BY <1>2, <1>3, <1>4 DEF VselRead, Writing
<1>8. LoweredLast'
  BY <1>1, <1>2, <1>3, <1>4 DEF CpuInv, LoweredLast, Watched
<1>9. VoltageSuffices'
  BY <1>1 DEF CpuInv, VoltageSuffices, Enough, Supplied, Needed
<1>10. SuppliedFirst'
  BY <1>1, <1>5 DEF SuppliedFirst, Watched
<1> QED BY <1>6, <1>7, <1>8, <1>9, <1>10 DEF CpuInv

LEMMA UnsupportedKeeps == CpuInv /\ CpuVoltageUnsupported => CpuInv'
<1> SUFFICES ASSUME CpuInv, CpuVoltageUnsupported PROVE CpuInv'
  OBVIOUS
<1>1. /\ setting.pc \in VoltagePcs /\ Needed = Unsupported /\ cpu' = cpu /\ setup' = setup
      /\ setting' = [setting EXCEPT !.pc = AfterVoltage(setting.pc)]
  BY DEF CpuVoltageUnsupported, CpuGoto
<1>2. AfterVoltage(setting.pc) \in {"speed", "pages"}
  BY DEF AfterVoltage
<1>3. CpuTypeOK /\ CpuTypeOK'
  BY <1>1, <1>2 DEF CpuInv, CpuTypeOK, CpuPcs
<1>4. /\ setting'.pc = AfterVoltage(setting.pc) /\ setting'.speed = setting.speed
      /\ setting'.cur = setting.cur /\ setting'.failed = setting.failed
  BY <1>1, <1>3 DEF CpuTypeOK
<1>5. setting'.pc # Writing(setting.pc)
  BY <1>2, <1>4 DEF Writing
<1> QED BY <1>1, <1>3, <1>4, <1>5, VoltageGoesOn

\* Where the register is found to be set already, the write is left out.
LEMMA ReadVoltageKeeps == CpuInv /\ CpuVoltageRead => CpuInv'
<1> SUFFICES ASSUME CpuInv, CpuVoltageRead PROVE CpuInv'
  OBVIOUS
<1> DEFINE next(old) == IF UVol(cpu.reg, old) = Needed THEN AfterVoltage(setting.pc)
                        ELSE Writing(setting.pc)
           Olds == {cpu.vsel, [high |-> {6, 7}, nsel |-> 63], [high |-> {}, nsel |-> 0]}
<1>1. setting.pc \in VoltagePcs /\ cpu' = cpu /\ setup' = setup
  BY DEF CpuVoltageRead
<1>2. \/ setting' = [setting EXCEPT !.old = cpu.vsel, !.pc = next(cpu.vsel)]
      \/ setting' = [setting EXCEPT !.failed = TRUE, !.pc = "stopped"]
      \/ \E old \in Olds : setting' = [setting EXCEPT !.failed = TRUE, !.old = old,
           !.pc = next(old)]
  BY DEF CpuVoltageRead
<1>3. CpuTypeOK /\ Needed \in Nat /\ Supplied \in Nat
  BY Numbers DEF CpuInv
<1>4. \A old : next(old) \in {"raising", "speed", "lowering", "pages"}
  BY DEF Writing, AfterVoltage
<1>5. \A old \in Olds : old \in Vsels
  BY <1>3 DEF CpuTypeOK, Vsels, VSEL_NSEL_MASK
<1>6. \A old : next(old) \in {Writing(setting.pc), AfterVoltage(setting.pc)}
  OBVIOUS
<1>7. next(cpu.vsel) = "speed" => Supplied = Needed
  BY DEF Writing, Supplied
<1> HIDE DEF next, Olds
<1>8. CASE setting' = [setting EXCEPT !.old = cpu.vsel, !.pc = next(cpu.vsel)]
  <2>1. CpuTypeOK'
    BY <1>1, <1>3, <1>4, <1>8 DEF CpuTypeOK, CpuPcs
  <2>2. /\ setting'.pc = next(cpu.vsel) /\ setting'.speed = setting.speed
        /\ setting'.cur = setting.cur /\ setting'.failed = setting.failed
        /\ setting'.old = cpu.vsel
    BY <1>3, <1>8 DEF CpuTypeOK
  <2> QED BY <1>1, <1>6, <1>7, <2>1, <2>2, VoltageGoesOn
<1>9. CASE setting' = [setting EXCEPT !.failed = TRUE, !.pc = "stopped"]
  <2>1. CpuTypeOK'
    BY <1>1, <1>3, <1>9 DEF CpuTypeOK, CpuPcs
  <2>2. setting'.pc = "stopped" /\ setting'.failed
    BY <1>3, <1>9 DEF CpuTypeOK
  <2> QED BY <2>1, <2>2 DEF CpuInv, BootsSupplied, ClockRead, VselRead, SuppliedFirst,
             Watched, LoweredLast, VoltageSuffices, Before
<1>10. CASE \E old \in Olds : setting' = [setting EXCEPT !.failed = TRUE, !.old = old,
              !.pc = next(old)]
  <2>1. PICK old \in Olds : setting' = [setting EXCEPT !.failed = TRUE, !.old = old,
               !.pc = next(old)]
    BY <1>10
  <2>2. CpuTypeOK'
    BY <1>1, <1>3, <1>4, <1>5, <2>1 DEF CpuTypeOK, CpuPcs
  <2>3. /\ setting'.pc = next(old) /\ setting'.speed = setting.speed
        /\ setting'.cur = setting.cur /\ setting'.failed
    BY <1>3, <2>1 DEF CpuTypeOK
  <2> QED BY <1>1, <1>6, <2>2, <2>3, VoltageGoesOn
<1> QED BY <1>2, <1>8, <1>9, <1>10

\* The write: the voltage that was asked for, unless it did not get there.
LEMMA WriteVoltageKeeps == CpuInv /\ CpuVoltageWrite => CpuInv'
<1> SUFFICES ASSUME CpuInv, CpuVoltageWrite PROVE CpuInv'
  OBVIOUS
<1>1. PICK from \in VoltagePcs, t \in I2cWrite :
        /\ setting.pc = Writing(from)
        /\ setting' = [setting EXCEPT !.pc = AfterVoltage(from), !.failed = @ \/ ~I2cOk(t)]
        /\ cpu' = IF t.written
                  THEN [cpu EXCEPT !.vsel = WithSelector(setting.old, Selector(cpu.reg, Needed))]
                  ELSE cpu
        /\ UNCHANGED setup
  BY DEF CpuVoltageWrite
<1>2. I2cOk(t) => t.written
  BY DEF I2cOk, I2cWrite, Fails, I2cWait, I2cStart, I2cStop
<1>3. I2cOk(t) \in BOOLEAN
  BY DEF I2cOk
<1>4. CpuTypeOK /\ Needed \in Nat /\ Supplied \in Nat /\ cpu.mhz \in Nat /\ setting.speed \in Nat
  BY Numbers DEF CpuInv
<1>5. \/ from = "raise" /\ setting.pc = "raising" /\ AfterVoltage(from) = "speed"
      \/ from = "lower" /\ setting.pc = "lowering" /\ AfterVoltage(from) = "pages"
  BY <1>1 DEF VoltagePcs, Writing, AfterVoltage
<1>6. Selector(cpu.reg, Needed) \in Int
  <2>1. \A a, b \in Nat : \A c \in Nat \ {0} : (a - b) \div c \in Int
    OBVIOUS
  <2>2. cpu.reg.base \in Nat /\ cpu.reg.step \in Nat \ {0}
    <3>1. \A reg \in Regulators : reg.base \in Nat /\ reg.step \in Nat \ {0}
      BY RatesAssumption
    <3>2. cpu.reg \in Regulators
      BY <1>4 DEF CpuTypeOK
    <3> QED BY <3>1, <3>2
  <2> QED BY <1>4, <2>1, <2>2 DEF Selector
<1>7. CpuTypeOK'
  <2>1. WithSelector(setting.old, Selector(cpu.reg, Needed)) \in Vsels
    BY <1>4, <1>6, WithSelectorTyped DEF CpuTypeOK
  <2>2. cpu' \in [mhz : Rates, reg : Regulators, vsel : Vsels]
    BY <1>1, <1>4, <2>1 DEF CpuTypeOK
  <2>3. setting' \in [pc : CpuPcs, speed : Nat, cur : Nat, old : Vsels, failed : BOOLEAN]
    BY <1>1, <1>3, <1>4, <1>5 DEF CpuTypeOK, CpuPcs
  <2> QED BY <1>1, <1>4, <2>2, <2>3 DEF CpuTypeOK
<1>8. /\ setting'.speed = setting.speed /\ setting'.cur = setting.cur
      /\ setting'.pc = AfterVoltage(from) /\ Needed' = Needed
      /\ setting'.failed = (setting.failed \/ ~I2cOk(t))
      /\ cpu'.mhz = cpu.mhz /\ cpu'.reg = cpu.reg
  BY <1>1, <1>4 DEF CpuTypeOK, Needed
<1>9. Watched' => Watched /\ Supplied' = Needed
  <2> SUFFICES ASSUME Watched' PROVE Watched /\ Supplied' = Needed
    OBVIOUS
  <2>1. Watched /\ I2cOk(t)
    BY <1>8 DEF Watched
  <2>2. cpu'.vsel = WithSelector(setting.old, Selector(cpu.reg, Needed))
    BY <1>1, <1>2, <1>4, <2>1 DEF CpuTypeOK
  <2>3. PICK i \in DOMAIN Opps : Needed = Opps[i][2]
    BY <1>4, <2>1, OnTheGrid DEF Watched, Needed
  <2>4. cpu.reg \in Regulators /\ setting.old \in Vsels
    BY <1>4 DEF CpuTypeOK
  <2>5. UVol(cpu.reg, WithSelector(setting.old, Selector(cpu.reg, Needed))) = Needed
    BY <2>1, <2>3, <2>4, WithSelectorSupplies DEF Watched
  <2> QED BY <1>8, <2>1, <2>2, <2>5 DEF Supplied
<1>10. Watched => CpuVoltageHzToUVol(cpu.mhz) <= Needed
  <2>1. Watched => cpu.mhz <= setting.speed
    BY <1>4, <1>5, Numbers DEF CpuInv, ClockRead, LoweredLast
  <2> QED BY <1>4, <2>1, VoltageMonotone DEF Watched, Needed
<1>11. BootsSupplied' /\ ClockRead' /\ VselRead'
  BY <1>5, <1>8 DEF CpuInv, BootsSupplied, ClockRead, VselRead, Before
<1>12. SuppliedFirst' /\ LoweredLast'
  BY <1>4, <1>5, <1>8, <1>9 DEF SuppliedFirst, LoweredLast
<1>13. VoltageSuffices'
  <2>1. Watched' => Enough'
    BY <1>4, <1>8, <1>9, <1>10, Numbers DEF Enough
  <2> QED BY <2>1 DEF VoltageSuffices, Watched, Enough, Supplied, Needed
<1> QED BY <1>7, <1>11, <1>12, <1>13 DEF CpuInv

\* The clock is set when the voltage for it is there.
LEMMA SpeedKeeps == CpuInv /\ SetCpuSpeed => CpuInv'
<1> SUFFICES ASSUME CpuInv, SetCpuSpeed PROVE CpuInv'
  OBVIOUS
<1>1. /\ RatesUpTo(setting.speed) # {} /\ setting.pc = "speed"
      /\ setting' = [setting EXCEPT !.pc = AfterSpeed]
      /\ cpu' = [cpu EXCEPT !.mhz = Max(RatesUpTo(setting.speed))] /\ setup' = setup
  BY DEF SetCpuSpeed, CpuGoto
<1>2. CpuTypeOK /\ Needed \in Nat /\ Supplied \in Nat /\ setting.speed \in Nat
  BY Numbers DEF CpuInv
<1>3. Max(RatesUpTo(setting.speed)) \in Rates /\ Max(RatesUpTo(setting.speed)) <= setting.speed
  BY <1>1, <1>2, RateTaken
<1>4. AfterSpeed \in {"lower", "pages"}
  BY DEF AfterSpeed
<1>5. CpuTypeOK'
  BY <1>1, <1>2, <1>3, <1>4 DEF CpuTypeOK, CpuPcs
<1>6. /\ setting'.pc \in {"lower", "pages"} /\ setting'.speed = setting.speed
      /\ setting'.failed = setting.failed /\ Needed' = Needed
      /\ cpu'.reg = cpu.reg /\ cpu'.vsel = cpu.vsel /\ Supplied' = Supplied
      /\ cpu'.mhz \in Nat /\ cpu'.mhz <= setting.speed
  <2>1. cpu'.mhz = Max(RatesUpTo(setting.speed)) /\ \A r \in Rates : r \in Nat
    BY <1>1, <1>2, RatesAssumption DEF CpuTypeOK
  <2> QED BY <1>1, <1>2, <1>3, <1>4, <2>1 DEF CpuTypeOK, Needed, Supplied
<1>7. Watched' => Watched /\ Supplied >= Needed
  BY <1>1, <1>6 DEF CpuInv, SuppliedFirst, Watched
<1>8. Watched' => Enough'
  <2>1. Watched' => CpuVoltageHzToUVol(cpu'.mhz) <= Needed
    BY <1>2, <1>6, <1>7, VoltageMonotone DEF Watched, Needed
  <2> QED BY <1>2, <1>6, <1>7, <2>1, VoltageNatural DEF Enough
<1>9. VoltageSuffices'
  BY <1>8 DEF VoltageSuffices, Watched, Enough, Supplied, Needed
<1>10. BootsSupplied' /\ ClockRead' /\ VselRead' /\ SuppliedFirst' /\ LoweredLast'
  <2>1. setting'.pc \in {"lower", "pages"} => VselRead'
    BY DEF VselRead
  <2> QED BY <1>6, <2>1 DEF BootsSupplied, ClockRead, SuppliedFirst, LoweredLast, Before
<1> QED BY <1>5, <1>9, <1>10 DEF CpuInv

LEMMA PagesKeep == CpuInv /\ InstallHiiPages => CpuInv'
<1> SUFFICES ASSUME CpuInv, InstallHiiPages PROVE CpuInv'
  OBVIOUS
<1>1. PICK installed \in BOOLEAN : setup' = [setup EXCEPT !.pages = installed]
  BY DEF InstallHiiPages
<1>2. setting' = [setting EXCEPT !.pc = "done"] /\ cpu' = cpu
  BY DEF InstallHiiPages, CpuGoto
<1>3. CpuTypeOK'
  BY <1>1, <1>2 DEF CpuInv, CpuTypeOK, CpuPcs
<1>4. setting'.pc = "done" /\ setting'.speed = setting.speed /\ setting'.failed = setting.failed
  BY <1>2 DEF CpuInv, CpuTypeOK
<1>5. VoltageSuffices'
  BY <1>2, <1>4 DEF CpuInv, VoltageSuffices
<1> QED BY <1>3, <1>4, <1>5 DEF CpuInv, BootsSupplied, ClockRead, VselRead, SuppliedFirst,
           LoweredLast, Before

\* Every step of ApplyVariables, or none, keeps the invariant.
LEMMA CpuStepInv == CpuInv /\ [CpuNext]_cpuVars => CpuInv'
<1> SUFFICES ASSUME CpuInv, [CpuNext]_cpuVars PROVE CpuInv'
  OBVIOUS
<1>1. CASE SetupVariables
  BY <1>1, SetupKeeps
<1>2. CASE ApplyVariables
  BY <1>2, ApplyKeeps
<1>3. CASE GetCpuSpeed
  BY <1>3, ReadKeeps
<1>4. CASE GetCpuSpeedFails
  BY <1>4, FaultKeeps DEF GetCpuSpeedFails
<1>5. CASE CpuVoltageUnsupported
  BY <1>5, UnsupportedKeeps
<1>6. CASE CpuVoltageRead
  BY <1>6, ReadVoltageKeeps
<1>7. CASE CpuVoltageWrite
  BY <1>7, WriteVoltageKeeps
<1>8. CASE SetCpuSpeed
  BY <1>8, SpeedKeeps
<1>9. CASE SetCpuSpeedFails
  <2>1. AfterSpeed \in {"pages", "lower"}
    BY DEF AfterSpeed
  <2> QED BY <1>9, <2>1, FaultKeeps DEF SetCpuSpeedFails
<1>10. CASE InstallHiiPages
  BY <1>10, PagesKeep
<1>11. CASE UNCHANGED cpuVars
  BY <1>11 DEF cpuVars, CpuInv, CpuTypeOK, BootsSupplied, ClockRead, VselRead, SuppliedFirst,
     LoweredLast, VoltageSuffices, Enough, Supplied, Needed, Watched
<1> QED BY <1>1, <1>2, <1>3, <1>4, <1>5, <1>6, <1>7, <1>8, <1>9, <1>10, <1>11 DEF CpuNext

(* The invariant holds of the CPU clock, whatever the rates, the speed      *)
(* asked for, the regulator and the call that fails.                        *)
THEOREM CpuInvariant == CpuSpec => []CpuInv
BY CpuInitInv, CpuStepInv, PTL DEF CpuSpec

(* At every step of ApplyVariables the voltage is enough for the clock, for *)
(* any set of rates and any regulator that has the voltages of the table,   *)
(* unless a call has failed, the table has no voltage for the speed asked   *)
(* for, or its selector has more than six bits.                             *)
THEOREM VoltageAlwaysSuffices == CpuSpec => []VoltageSuffices
<1>1. CpuInv => VoltageSuffices
  BY DEF CpuInv
<1> QED BY <1>1, CpuInvariant, PTL
-----------------------------------------------------------------------------
(***************************************************************************)
(* The clock and reset unit, and what the boards do to it.                 *)
(***************************************************************************)
Plls == [FbDiv : Nat, PostDiv1 : Nat, RefDiv : Nat, PostDiv2 : Nat,
         bypass : BOOLEAN, normal : BOOLEAN, locked : BOOLEAN]

\* The unit: its fields, and the values of those that are numbers.
CruOk(c) ==
  /\ c = [pll |-> c.pll, div |-> c.div, sel |-> c.sel, gates |-> c.gates,
          resets |-> c.resets, sdmmc |-> c.sdmmc]
  /\ c.pll \in Plls /\ c.div \in [0..2 -> Nat] /\ c.sel \in [0..2 -> {0, 1}]
  /\ c.sdmmc \in [0..2 -> 0..5]

-----------------------------------------------------------------------------
(***************************************************************************)
(* The clocks of the cards.                                                *)
(***************************************************************************)
SdPcs == {"off", "installed", "setup", "idle", "divider", "disabled", "divide", "divided",
          "enable", "enabled", "stopped"}

SdStates ==
  [pc : SdPcs, ena : BOOLEAN, div : 0..Dividers - 1, liveEna : BOOLEAN, liveDiv : 0..Dividers - 1,
   freq : Frequencies, after : {"setup", "idle"}, asked : Frequencies, ctype : {0, 1, 4, 8},
   ddr : BOOLEAN, busy : BOOLEAN, failed : BOOLEAN]
EmmcStates ==
  [pc : {"off", "registered", "ready", "dll"}, source : 0..5, dll : {"on", "off", "starting"},
   sdclk : BOOLEAN, power : BOOLEAN, mode : Modes \cup {"none"}, forced : BOOLEAN,
   modes : SUBSET Modes, polls : Nat, lock : BOOLEAN]
CardTypeOK == sd \in SdStates /\ emmc \in EmmcStates

\* The source is the driver's own, from its start to the end.
SourceSet == IF sd.pc = "off" THEN sd.asked = 0 ELSE cru.sdmmc[0] = 3

\* The frequency of the running call.
FreqAsked ==
  /\ sd.pc \in {"divider", "disabled", "divide", "divided", "enable", "enabled"} =>
       sd.freq \in {100, 400, 26000, 50000}
  /\ sd.pc \in {"disabled", "divide", "divided", "enable", "enabled"} => sd.freq # 100
  /\ sd.pc = "divider" /\ sd.after = "setup" => sd.freq = 400

\* A divider slow enough for a frequency.
Slows(div, freq) == IF div = 0 THEN Rate <= freq ELSE Rate <= freq * 2 * div

\* Between the stop and the start of the clock: it stands still, and what it
\* will run on is in the registers.
ClockStopped ==
  /\ sd.pc = "disabled" => ~sd.ena
  /\ ~sd.failed /\ sd.pc \in {"divide", "divided", "enable", "enabled"} => ~sd.liveEna
  /\ sd.pc \in {"divide", "divided", "enable"} => ~sd.ena
  /\ sd.pc \in {"divided", "enable", "enabled"} => Slows(sd.div, sd.freq)
  /\ ~sd.failed /\ sd.pc \in {"enable", "enabled"} => sd.liveDiv = sd.div
  /\ sd.pc = "stopped" => sd.failed

\* At rest the clock runs on the divider that is in the register.
Settled ==
  ~sd.failed /\ sd.liveEna
    /\ (sd.pc \in {"setup", "idle"} \/ (sd.pc = "divider" /\ sd.after = "idle"))
  => sd.liveDiv = sd.div

SlowEnough == ~sd.failed /\ sd.liveEna /\ sd.asked # 0 => Slows(sd.liveDiv, sd.asked)

\* The eMMC's source and DLL are those of its mode.
Fast(mode) == mode \in {"hs400", "hs200"}
EmmcFollows ==
  /\ emmc.pc # "off" /\ emmc.mode = "none" => emmc.source = 5 /\ emmc.dll = "off"
  /\ emmc.pc \in {"off", "registered"} => emmc.mode = "none"
  /\ emmc.pc \in {"ready", "dll"} /\ emmc.mode # "none" =>
       emmc.source = EmmcSel(EmmcMaxClockFreq(emmc.mode))
  /\ emmc.pc = "ready" /\ emmc.mode # "none" => (emmc.dll = "on") = Fast(emmc.mode)
  /\ emmc.pc = "dll" => Fast(emmc.mode)
  /\ emmc.forced => emmc.modes \cap {"hs400", "hs200", "hsDdr"} = {} /\ ~Fast(emmc.mode)

CardInv ==
  /\ CardTypeOK /\ SourceSet /\ FreqAsked /\ ClockStopped /\ Settled /\ SlowEnough
  /\ EmmcFollows
-----------------------------------------------------------------------------
(***************************************************************************)
(* The boards coming up.                                                   *)
(***************************************************************************)
PhyModes == {"usb3", "sata", "pcie"}
PcieCall == [call |-> "phy", n |-> 2, mode |-> "pcie", then |-> "clocks"]
SataCall(n) == [call |-> "sata", n |-> n]
BoardCalls == {Call(name) : name \in {"pmic", "gmac", "wifi"}}
                \cup {Phy(n, mode) : n \in 0..2, mode \in PhyModes}
AllCalls == BoardCalls \cup {Call("pci"), PcieCall} \cup {SataCall(n) : n \in 0..2}

\* What is left to do: the root complex comes after the board, and the SATA
\* controllers after it; the MACs are set up once.
CallsOk(s) ==
  /\ s \in Seq(AllCalls)
  /\ \A i \in 1..Len(s) : s[i] = PcieCall => i = 1 /\ Len(s) > 1 /\ s[2] = Call("pci")
  /\ \A i, j \in 1..Len(s) : i < j /\ s[i].call \in {"pci", "sata"} => s[j].call = "sata"
  /\ \A i, j \in 1..Len(s) : i < j /\ s[i].call = "gmac" => s[j].call # "gmac"

PhyPcs == {"lock", "locked", "mode"}
PciPcs == {"pcie30phy", "sram", "clocks", "rc", "dbi", "atu", "perst", "ltssm", "release",
  "linkup"}
HostPcs == {"next", "halted", "rails", "gmac", "hr"} \cup PhyPcs \cup PciPcs

\* The call a step belongs to.
CallOf(pc1) ==
  CASE pc1 = "rails" -> "pmic" [] pc1 = "gmac" -> "gmac" [] pc1 = "hr" -> "sata"
    [] pc1 \in PhyPcs -> "phy" [] OTHER -> "pci"
RunsCall == hostPc \notin {"next", "halted"} => calls # <<>> /\ Running.call = CallOf(hostPc)

Voltages == {"default", "none", "0.9V", "1.8V", "2.8V", "3.3V"}
RailWrites == [reg : {"vsel", "power_en"}, rails : SUBSET (1..9), v : Voltages \ {"default"}]
GmacStepNames == {"assert", "configure", "phyreset", "release", "address", "phyinit"}
PciStates == [powered : BOOLEAN, phyReady : BOOLEAN, rc : BOOLEAN, roWr : BOOLEAN,
  bridge : BOOLEAN,
              atu : SUBSET (1..3), speed : Nat, lanes : Nat, perst : {"floating", "low", "high"},
              ltssm : BOOLEAN, link : BOOLEAN, bridges : {0, 1}]

HostTypeOK ==
  /\ board \in Boards /\ CallsOk(calls) /\ hostPc \in HostPcs /\ polls \in Nat
  /\ gaveUp \in BOOLEAN /\ CruOk(cru)
  /\ phy \in [0..2 -> [mode : PhyModes \cup {"none"}, clk : Nat]]
  /\ pmic \in [todo : Seq(RailWrites), vsel : [1..9 -> Voltages], on : SUBSET (1..9),
       faults : Nat]
  /\ gmac \in [todo : Seq(GmacStepNames), configured : SUBSET {0, 1},
               address : [{0, 1} -> {"none", "even", "odd", "otp"}]]
  /\ pci \in PciStates
  /\ ahci \in [0..2 -> {"off", "reset", "idle", "enabled"}]

-----------------------------------------------------------------------------
(* One PLL for all the PHYs: every PHY that was set up has its reference     *)
(* from it, and every call programs it to the same rate.                     *)
PllIs200MHz ==
  /\ cru.pll.RefDiv = 1 /\ cru.pll.FbDiv = 100 /\ cru.pll.PostDiv1 = 3 /\ cru.pll.PostDiv2 = 4
  /\ ~cru.pll.bypass
FromPll(n) == cru.sel[n] = 1 /\ cru.div[n] = 0

PhysClocked ==
  /\ hostPc \in PhyPcs => PllIs200MHz
  /\ hostPc = "mode" => FromPll(Running.n)
  /\ \A n \in 0..2 : phy[n].mode # "none" => PllIs200MHz /\ FromPll(n) /\ phy[n].clk = 100000

\* Once the wait for it is over the PLL is locked, and then selected.
PllReady ==
  gaveUp \/ /\ hostPc # "lock" => cru.pll.locked
            /\ hostPc \notin {"lock", "locked"} => cru.pll.normal

-----------------------------------------------------------------------------
(* The rails: a board's voltages are written before it turns a rail on.      *)
RangeOf(s) == {s[i] : i \in 1..Len(s)}
VoltagesFirst(s) ==
  \A i, j \in 1..Len(s) : i < j /\ s[i].reg = "power_en" => s[j].reg = "power_en"
RailsWritten ==
  /\ RangeOf(pmic.todo) \subseteq RangeOf(board.rails) /\ VoltagesFirst(pmic.todo)
  /\ pmic.faults = 0 =>
       \A w \in RangeOf(board.rails) : w.reg = "vsel" =>
         /\ hostPc = "rails" => w \in RangeOf(pmic.todo)
              \/ \A r \in w.rails : pmic.vsel[r] # "default"
         /\ pmic.on # {} => \A r \in w.rails : pmic.vsel[r] # "default"

-----------------------------------------------------------------------------
(* The MACs: what is left of BoardInitGmac tells what has been done.         *)
Left(step) == \E i \in 1..Len(gmac.todo) : gmac.todo[i] = step
GmacOrder(s) ==
  \A i, j \in 1..Len(s) : i < j =>
    /\ s[i] = "address" => s[j] \notin {"assert", "configure", "release"}
    /\ s[j] # "assert"
MacsStepped ==
  /\ (\A n \in {0, 1} : gmac.address[n] = "none")
       \/ ((hostPc # "gmac" \/ ~Left("assert"))
            /\ (\A i \in 1..Len(calls) : calls[i].call = "gmac" => i = 1 /\ hostPc = "gmac"))
  /\ hostPc = "gmac" => GmacOrder(gmac.todo)
  /\ hostPc = "gmac" /\ Left("assert") => Left("configure") /\ Left("release")
  /\ hostPc = "gmac" /\ ~Left("assert") =>
       /\ Left("configure") \/ board.macs \subseteq gmac.configured
       /\ Left("release") \/ \A n \in board.macs : GmacReset(n) \notin cru.resets
  /\ \A n \in {0, 1} : gmac.address[n] # "none" =>
       n \in board.macs /\ n \in gmac.configured /\ GmacReset(n) \notin cru.resets
         /\ gmac.address[n] = MacAddress(n)

-----------------------------------------------------------------------------
(* The root complex: where InitializePciHost is tells what it has done, and  *)
(* once it has begun only SATA controllers are left to bring up.             *)
PhyUp == IF Segment = 0 THEN phy[2].mode = "pcie" /\ PhyReset(2) \notin cru.resets
         ELSE pci.phyReady
Clocked == PcieGates(Segment) \subseteq cru.gates /\ PowerupReset(Segment) \notin cru.resets
Untouched == ~pci.bridge /\ pci.atu = {} /\ pci.speed = 0 /\ ~pci.ltssm /\ pci.perst = "floating"
Configured ==
  /\ pci.atu = 1..3 /\ pci.bridge /\ ~pci.roWr
  /\ pci.speed = board.pcie.speed /\ pci.lanes = board.pcie.lanes

AfterPci == \A i \in 1..Len(calls) : calls[i].call = "sata" \/ (i = 1 /\ hostPc \in PciPcs)

\* The PHY is the segment's own.
RightSegment ==
  /\ hostPc \in {"pcie30phy", "sram"} => Segment # 0
  /\ \A i \in 1..Len(calls) : calls[i] = PcieCall => Segment = 0
PciUp ==
  /\ hostPc \in PciPcs \ {"pcie30phy", "sram"} => PhyUp
  /\ hostPc \in PciPcs \ {"pcie30phy", "sram", "clocks"} => Clocked
  /\ hostPc \in PciPcs \ {"pcie30phy", "sram", "clocks", "rc"} => pci.rc
TouchedLast == ~Untouched => AfterPci /\ pci.rc /\ Clocked /\ PhyUp
PciAt ==
  /\ hostPc \in {"pcie30phy", "sram", "clocks", "rc", "dbi"} => Untouched
  /\ hostPc = "atu" => pci.bridge
  /\ hostPc \in {"perst", "ltssm", "release", "linkup"} => Configured
  /\ hostPc \in {"atu", "perst"} => ~pci.ltssm /\ pci.perst = "floating"
  /\ hostPc = "ltssm" => ~pci.ltssm /\ pci.perst = "low"
  /\ hostPc = "release" => pci.ltssm /\ pci.perst = "low"
  /\ hostPc = "linkup" => pci.ltssm
  /\ pci.atu \in {{}, {1}, {1, 2}, 1..3}
\* What has been done once stays so, when the host has returned as well.
Linked ==
  /\ pci.ltssm => Configured /\ pci.perst # "floating"
  /\ pci.perst = "high" => pci.ltssm
  /\ pci.bridges = 1 => pci.link

PciStepped == RightSegment /\ PciUp /\ TouchedLast /\ PciAt /\ Linked

-----------------------------------------------------------------------------
(* The SATA controllers: the PHY of one that is left to bring up is set up,  *)
(* or its call is left as well; once one was begun only they are left.       *)
PhyDone(n) == phy[n].mode # "none" /\ PhyReset(n) \notin cru.resets
PhyIn(s, n) == \E j \in 1..Len(s) : s[j].call = "phy" /\ s[j].n = n
SatasHavePhys(s) == \A i \in 1..Len(s) : s[i].call = "sata" => PhyIn(s, s[i].n)
OnlySata == \A i \in 1..Len(calls) : calls[i].call = "sata"
SataStepped ==
  /\ \A i \in 1..Len(calls) :
       calls[i].call = "sata" => PhyDone(calls[i].n) \/ PhyIn(calls, calls[i].n)
  /\ \A n \in 0..2 : ahci[n] # "off" => OnlySata /\ PhyDone(n)
-----------------------------------------------------------------------------
(* What each function of the library leaves of the unit: the register it     *)
(* writes, and the others as they were.                                      *)
LEMMA UnitPll ==
  ASSUME NEW c, CruOk(c), NEW v \in Plls
  PROVE  LET e == [c EXCEPT !.pll = v] IN
         /\ CruOk(e) /\ e.pll = v
         /\ e.div = c.div /\ e.sel = c.sel /\ e.gates = c.gates /\ e.resets = c.resets
              /\ e.sdmmc = c.sdmmc
<1> DEFINE e == [c EXCEPT !.pll = v]
<1>1. e = [pll |-> v, div |-> c.div, sel |-> c.sel, gates |-> c.gates, resets |-> c.resets,
        sdmmc |-> c.sdmmc]
  BY DEF CruOk
<1> HIDE DEF e
<1> QED BY <1>1 DEF CruOk, e

LEMMA UnitDiv ==
  ASSUME NEW c, CruOk(c), NEW v \in [0..2 -> Nat]
  PROVE  LET e == [c EXCEPT !.div = v] IN
         /\ CruOk(e) /\ e.div = v
         /\ e.pll = c.pll /\ e.sel = c.sel /\ e.gates = c.gates /\ e.resets = c.resets
              /\ e.sdmmc = c.sdmmc
<1> DEFINE e == [c EXCEPT !.div = v]
<1>1. e = [pll |-> c.pll, div |-> v, sel |-> c.sel, gates |-> c.gates, resets |-> c.resets,
        sdmmc |-> c.sdmmc]
  BY DEF CruOk
<1> HIDE DEF e
<1> QED BY <1>1 DEF CruOk, e

LEMMA UnitSel ==
  ASSUME NEW c, CruOk(c), NEW v \in [0..2 -> {0, 1}]
  PROVE  LET e == [c EXCEPT !.sel = v] IN
         /\ CruOk(e) /\ e.sel = v
         /\ e.pll = c.pll /\ e.div = c.div /\ e.gates = c.gates /\ e.resets = c.resets
              /\ e.sdmmc = c.sdmmc
<1> DEFINE e == [c EXCEPT !.sel = v]
<1>1. e = [pll |-> c.pll, div |-> c.div, sel |-> v, gates |-> c.gates, resets |-> c.resets,
        sdmmc |-> c.sdmmc]
  BY DEF CruOk
<1> HIDE DEF e
<1> QED BY <1>1 DEF CruOk, e

LEMMA UnitGates ==
  ASSUME NEW c, CruOk(c), NEW v
  PROVE  LET e == [c EXCEPT !.gates = v] IN
         /\ CruOk(e) /\ e.gates = v
         /\ e.pll = c.pll /\ e.div = c.div /\ e.sel = c.sel /\ e.resets = c.resets
              /\ e.sdmmc = c.sdmmc
<1> DEFINE e == [c EXCEPT !.gates = v]
<1>1. e = [pll |-> c.pll, div |-> c.div, sel |-> c.sel, gates |-> v, resets |-> c.resets,
        sdmmc |-> c.sdmmc]
  BY DEF CruOk
<1> HIDE DEF e
<1> QED BY <1>1 DEF CruOk, e

LEMMA UnitResets ==
  ASSUME NEW c, CruOk(c), NEW v
  PROVE  LET e == [c EXCEPT !.resets = v] IN
         /\ CruOk(e) /\ e.resets = v
         /\ e.pll = c.pll /\ e.div = c.div /\ e.sel = c.sel /\ e.gates = c.gates
              /\ e.sdmmc = c.sdmmc
<1> DEFINE e == [c EXCEPT !.resets = v]
<1>1. e = [pll |-> c.pll, div |-> c.div, sel |-> c.sel, gates |-> c.gates, resets |-> v,
        sdmmc |-> c.sdmmc]
  BY DEF CruOk
<1> HIDE DEF e
<1> QED BY <1>1 DEF CruOk, e

LEMMA UnitSdmmc ==
  ASSUME NEW c, CruOk(c), NEW v \in [0..2 -> 0..5]
  PROVE  LET e == [c EXCEPT !.sdmmc = v] IN
         /\ CruOk(e) /\ e.sdmmc = v
         /\ e.pll = c.pll /\ e.div = c.div /\ e.sel = c.sel /\ e.gates = c.gates
              /\ e.resets = c.resets
<1> DEFINE e == [c EXCEPT !.sdmmc = v]
<1>1. e = [pll |-> c.pll, div |-> c.div, sel |-> c.sel, gates |-> c.gates,
        resets |-> c.resets, sdmmc |-> v]
  BY DEF CruOk
<1> HIDE DEF e
<1> QED BY <1>1 DEF CruOk, e

\* The PLL is programmed: its dividers, in slow mode and not locked.
LEMMA PllSet ==
  ASSUME NEW c, CruOk(c), NEW r \in CruPllRates
  PROVE  LET e == WriteCon1(WriteCon0(SlowMode(c), r), r) IN
         /\ CruOk(e)
         /\ e.div = c.div /\ e.sel = c.sel /\ e.gates = c.gates /\ e.resets = c.resets
              /\ e.sdmmc = c.sdmmc
         /\ e.pll.RefDiv = r.RefDiv /\ e.pll.FbDiv = r.FbDiv /\ e.pll.PostDiv1 = r.PostDiv1
         /\ e.pll.PostDiv2 = r.PostDiv2 /\ ~e.pll.bypass
<1>1. r.FbDiv \in Nat /\ r.PostDiv1 \in Nat /\ r.RefDiv \in Nat /\ r.PostDiv2 \in Nat
  BY DEF CruPllRates
<1>2. PICK c1 : c1 = SlowMode(c)
  OBVIOUS
<1>3. [c.pll EXCEPT !.normal = FALSE] \in Plls
  BY DEF CruOk, Plls
<1>4. /\ CruOk(c1) /\ c1.div = c.div /\ c1.sel = c.sel /\ c1.gates = c.gates
      /\ c1.resets = c.resets /\ c1.sdmmc = c.sdmmc
  BY <1>2, <1>3, UnitPll DEF SlowMode
<1>5. PICK p : p = [c1.pll EXCEPT !.FbDiv = r.FbDiv, !.PostDiv1 = r.PostDiv1,
                                  !.bypass = FALSE, !.locked = FALSE]
  OBVIOUS
<1>6. p \in Plls /\ p.FbDiv = r.FbDiv /\ p.PostDiv1 = r.PostDiv1 /\ ~p.bypass
  BY <1>1, <1>4, <1>5 DEF CruOk, Plls
<1>7. PICK c2 : c2 = WriteCon0(c1, r)
  OBVIOUS
<1>8. /\ CruOk(c2) /\ c2.div = c.div /\ c2.sel = c.sel /\ c2.gates = c.gates
      /\ c2.resets = c.resets /\ c2.sdmmc = c.sdmmc /\ c2.pll = p
  BY <1>4, <1>5, <1>6, <1>7, UnitPll DEF WriteCon0
<1>9. PICK q : q = [c2.pll EXCEPT !.RefDiv = r.RefDiv, !.PostDiv2 = r.PostDiv2, !.locked = FALSE]
  OBVIOUS
<1>10. /\ q \in Plls /\ q.FbDiv = r.FbDiv /\ q.PostDiv1 = r.PostDiv1 /\ ~q.bypass
       /\ q.RefDiv = r.RefDiv /\ q.PostDiv2 = r.PostDiv2
  BY <1>1, <1>6, <1>8, <1>9 DEF Plls
<1>11. PICK e : e = WriteCon1(c2, r)
  OBVIOUS
<1>12. /\ CruOk(e) /\ e.div = c.div /\ e.sel = c.sel /\ e.gates = c.gates
       /\ e.resets = c.resets /\ e.sdmmc = c.sdmmc /\ e.pll = q
  BY <1>8, <1>9, <1>10, <1>11, UnitPll DEF WriteCon1
<1> QED BY <1>2, <1>7, <1>10, <1>11, <1>12

\* A PHY is put on the PLL, undivided, and its reset asserted.
LEMMA PhyClockSet ==
  ASSUME NEW c, CruOk(c), NEW n \in 0..2, NEW x
  PROVE  LET e == CruAssertSoftReset(CruSetPciePhyClockRate(c, n), x) IN
         /\ CruOk(e) /\ e.gates = c.gates /\ e.sdmmc = c.sdmmc /\ e.resets = c.resets \cup x
         /\ e.div[n] = 0 /\ e.sel[n] = 1
         /\ \A k \in 0..2 : k # n => e.div[k] = c.div[k] /\ e.sel[k] = c.sel[k]
         /\ e.pll.RefDiv = c.pll.RefDiv /\ e.pll.FbDiv = c.pll.FbDiv
              /\ e.pll.PostDiv1 = c.pll.PostDiv1
         /\ e.pll.PostDiv2 = c.pll.PostDiv2 /\ e.pll.bypass = c.pll.bypass
         /\ e.pll.normal /\ e.pll.locked = c.pll.locked
<1>1. PICK p : p = [c.pll EXCEPT !.normal = TRUE]
  OBVIOUS
<1>2. /\ p \in Plls /\ p.RefDiv = c.pll.RefDiv /\ p.FbDiv = c.pll.FbDiv
      /\ p.PostDiv1 = c.pll.PostDiv1 /\ p.PostDiv2 = c.pll.PostDiv2 /\ p.bypass = c.pll.bypass
      /\ p.normal /\ p.locked = c.pll.locked
  BY <1>1 DEF CruOk, Plls
<1>3. PICK c1 : c1 = NormalMode(c)
  OBVIOUS
<1>4. /\ CruOk(c1) /\ c1.pll = p /\ c1.div = c.div /\ c1.sel = c.sel /\ c1.gates = c.gates
      /\ c1.resets = c.resets /\ c1.sdmmc = c.sdmmc
  <2>1. c1 = [c EXCEPT !.pll = p]
    BY <1>1, <1>3 DEF NormalMode
  <2> QED BY <1>2, <2>1, UnitPll
<1>5. PICK c2 : c2 = SetPciePhyDiv(c1, n)
  OBVIOUS
<1>6. [c1.div EXCEPT ![n] = 0] \in [0..2 -> Nat]
  BY <1>4 DEF CruOk
<1>7. /\ CruOk(c2) /\ c2.pll = p /\ c2.div = [c.div EXCEPT ![n] = 0] /\ c2.sel = c.sel
      /\ c2.gates = c.gates /\ c2.resets = c.resets /\ c2.sdmmc = c.sdmmc
  <2>1. PICK v : v = [c1.div EXCEPT ![n] = 0]
    OBVIOUS
  <2>2. c2 = [c1 EXCEPT !.div = v]
    BY <1>5, <2>1 DEF SetPciePhyDiv
  <2> QED BY <1>4, <1>6, <2>1, <2>2, UnitDiv
<1>8. PICK c3 : c3 = CruSetPciePhySource(c2, n, 1)
  OBVIOUS
<1>9. [c2.sel EXCEPT ![n] = 1] \in [0..2 -> {0, 1}]
  BY <1>7 DEF CruOk
<1>10. /\ CruOk(c3) /\ c3.pll = p /\ c3.div = c2.div /\ c3.sel = [c.sel EXCEPT ![n] = 1]
       /\ c3.gates = c.gates /\ c3.resets = c.resets /\ c3.sdmmc = c.sdmmc
  <2>1. PICK v : v = [c2.sel EXCEPT ![n] = 1]
    OBVIOUS
  <2>2. c3 = [c2 EXCEPT !.sel = v]
    BY <1>8, <2>1 DEF CruSetPciePhySource
  <2> QED BY <1>7, <1>9, <2>1, <2>2, UnitSel
<1>11. PICK e : e = CruAssertSoftReset(c3, x)
  OBVIOUS
<1>12. /\ CruOk(e) /\ e.pll = p /\ e.div = c2.div /\ e.sel = c3.sel
       /\ e.gates = c.gates /\ e.resets = c.resets \cup x /\ e.sdmmc = c.sdmmc
  BY <1>10, <1>11, UnitResets DEF CruAssertSoftReset
<1>13. e.div[n] = 0 /\ e.sel[n] = 1
       /\ \A k \in 0..2 : k # n => e.div[k] = c.div[k] /\ e.sel[k] = c.sel[k]
  BY <1>7, <1>10, <1>12 DEF CruOk
<1> QED BY <1>2, <1>3, <1>5, <1>8, <1>11, <1>12, <1>13 DEF CruSetPciePhyClockRate
-----------------------------------------------------------------------------
(* Arithmetic of the divider.                                                *)
LEMMA Products ==
  ASSUME NEW a \in Nat, NEW b \in Nat, NEW c \in Nat, NEW d \in Nat, a <= c, b <= d
  PROVE  a * b <= c * d
<1>1. a * b <= c * b
  OBVIOUS
<1>2. c * b <= c * d
  OBVIOUS
<1> QED BY <1>1, <1>2, SMTT(30)

\* What a quotient is at most, the dividend is at most so many divisors more.
LEMMA Quotients ==
  ASSUME NEW m \in Nat \ {0}, NEW f \in Nat, 100000 \div m <= f
  PROVE  100000 < m * (f + 1)
<1>1. PICK q \in Nat : q = 100000 \div m
  OBVIOUS
<1>2. 100000 < m * (q + 1)
  BY <1>1, SMTT(30)
<1>3. m * (q + 1) <= m * (f + 1)
  <2>1. q + 1 \in Nat /\ f + 1 \in Nat /\ q + 1 <= f + 1 /\ m <= m
    BY <1>1
  <2> QED BY <2>1, Products
<1> QED BY <1>2, <1>3, <1>1

\* With the 100 MHz source, the dividers the driver asks for are the even ones it needs.
LEMMA LowEnoughIs ==
  ASSUME Rate = 100000, NEW d \in 1..255
  PROVE  /\ d \notin LowEnough(100)
         /\ d \in LowEnough(400) => d >= 125
         /\ d \in LowEnough(26000) => d >= 2
<1>1. \A f \in Nat : d \in LowEnough(f) => 100000 < (2 * d) * (f + 1)
  <2> SUFFICES ASSUME NEW f \in Nat, d \in LowEnough(f) PROVE 100000 < (2 * d) * (f + 1)
    OBVIOUS
  <2>1. PICK m \in Nat \ {0} : m = 2 * d
    OBVIOUS
  <2>2. 100000 \div m <= f
    BY <2>1 DEF LowEnough
  <2> QED BY <2>1, <2>2, Quotients
<1>2. d \in LowEnough(100) => 100000 < (2 * d) * 101
  BY <1>1
<1>3. d \in LowEnough(400) => 100000 < (2 * d) * 401
  BY <1>1
<1>4. d \in LowEnough(26000) => 100000 < (2 * d) * 26001
  BY <1>1
<1> QED BY <1>2, <1>3, <1>4

\* And such a divider fits the register and slows the source enough.
LEMMA DividerFits ==
  ASSUME Rate = 100000, NEW freq \in {400, 26000, 50000}
  PROVE  Divider(freq) \in 0..Dividers - 1 /\ Slows(Divider(freq), freq) /\ Found(freq)
<1>1. 125 \in LowEnough(400) /\ 2 \in LowEnough(26000) /\ 1 \in LowEnough(50000)
  <2>1. /\ 2 * 125 = 250 /\ 100000 \div 250 = 400 /\ 2 * 2 = 4 /\ 100000 \div 4 = 25000
        /\ 2 * 1 = 2 /\ 100000 \div 2 = 50000
    OBVIOUS
  <2> QED BY <2>1 DEF LowEnough, Dividers
<1>2. LowEnough(freq) \subseteq 1..255
  BY DEF LowEnough, Dividers
<1>3. \E d \in LowEnough(freq) : \A e \in LowEnough(freq) : d <= e
  <2>1. \A e \in LowEnough(400) : 125 <= e
    BY LowEnoughIs DEF LowEnough, Dividers
  <2>2. \A e \in LowEnough(26000) : 2 <= e
    BY LowEnoughIs DEF LowEnough, Dividers
  <2>3. \A e \in LowEnough(50000) : 1 <= e
    BY DEF LowEnough, Dividers
  <2> QED BY <1>1, <2>1, <2>2, <2>3
<1>4. PICK d : d = Divider(freq)
  OBVIOUS
<1>5. d \in LowEnough(freq)
  BY <1>3, <1>4 DEF Divider
<1>6. d \in 1..255 /\ (freq = 400 => d >= 125) /\ (freq = 26000 => d >= 2)
  BY <1>2, <1>5, LowEnoughIs
<1>7. 100000 <= freq * 2 * d
  BY <1>6
<1> QED BY <1>4, <1>5, <1>6, <1>7 DEF Slows, Found, Dividers

\* The one frequency the loop of dividers never reaches.
LEMMA HundredNotFound == ASSUME Rate = 100000 PROVE ~Found(100)
BY LowEnoughIs DEF Found, LowEnough, Dividers

\* The driver chose the 100 MHz source.
LEMMA RateOfDriver ==
  ASSUME CruOk(cru), cru.sdmmc[0] = 3
  PROVE  Rate = 100000
BY DEF Rate, CruGetSdmmcClockRate, SdmmcSource
-----------------------------------------------------------------------------
(* What does not touch a card, or the source of its clock, keeps all of it.  *)
LEMMA RateStays ==
  ASSUME cru'.sdmmc[0] = cru.sdmmc[0]
  PROVE  /\ Rate' = Rate /\ \A d, f : Slows(d, f)' <=> Slows(d, f)
<1>1. Rate' = Rate
  BY DEF Rate, CruGetSdmmcClockRate
<1> QED BY <1>1 DEF Slows

LEMMA CardsStay ==
  ASSUME CardInv, sd' = sd, emmc' = emmc, cru'.sdmmc[0] = cru.sdmmc[0]
  PROVE  CardInv'
<1>1. \A d, f : Slows(d, f)' <=> Slows(d, f)
  BY RateStays
<1>2. CardTypeOK' /\ SourceSet' /\ FreqAsked' /\ Settled' /\ EmmcFollows'
  BY DEF CardInv, CardTypeOK, SourceSet, FreqAsked, Settled, EmmcFollows
<1>3. ClockStopped'
  BY <1>1 DEF CardInv, ClockStopped
<1>4. SlowEnough'
  BY <1>1 DEF CardInv, SlowEnough
<1> QED BY <1>2, <1>3, <1>4 DEF CardInv

\* A step of the driver in terms of the record's fields.
SdKeeps ==
  /\ sd' \in SdStates /\ SourceSet' /\ FreqAsked' /\ ClockStopped' /\ Settled' /\ SlowEnough'

\* A step of the SD driver keeps the invariant when it keeps the part about the SD card.
LEMMA SdStepsKeep ==
  ASSUME CardInv, SdKeeps, emmc' = emmc
  PROVE  CardInv'
<1>1. EmmcFollows' /\ (emmc \in EmmcStates)'
  BY DEF CardInv, CardTypeOK, EmmcFollows
<1> QED BY <1>1 DEF CardInv, SdKeeps, CardTypeOK

LEMMA MshcNotifyStateKeeps ==
  ASSUME CardInv, CruOk(cru), MshcNotifyState
  PROVE  CardInv'
<1>1. sd \in SdStates
  BY DEF CardInv, CardTypeOK
<1>2. sd.pc \in {"installed", "idle"} /\ cru' = cru /\ emmc' = emmc
  BY <1>1 DEF MshcNotifyState, SdStep, SdStates, hostVars, SetsClock
<1>3. sd' = [sd EXCEPT !.pc = "divider", !.freq = 400, !.after = "setup"]
  BY <1>2 DEF MshcNotifyState, SdStep, SetsClock
<1>4. 400 \in Frequencies
  BY DEF Frequencies
<1>5. PICK e : e = [sd EXCEPT !.pc = "divider", !.freq = 400]
  OBVIOUS
<1>6. e \in SdStates
  <2>1. "divider" \in SdPcs
    BY DEF SdPcs
  <2>2. PICK d : d = [sd EXCEPT !.pc = "divider"]
    OBVIOUS
  <2>3. d \in SdStates /\ e = [d EXCEPT !.freq = 400]
    BY <1>1, <1>5, <2>1, <2>2 DEF SdStates
  <2> QED BY <1>4, <2>3 DEF SdStates
<1>7. sd' = [e EXCEPT !.after = "setup"]
  BY <1>1, <1>3, <1>5
<1>8. /\ sd'.pc = "divider" /\ sd'.ena = sd.ena /\ sd'.div = sd.div
      /\ sd'.liveEna = sd.liveEna /\ sd'.liveDiv = sd.liveDiv /\ sd'.freq = 400
      /\ sd'.after = "setup" /\ sd'.asked = sd.asked /\ sd'.ctype = sd.ctype
      /\ sd'.ddr = sd.ddr /\ sd'.busy = sd.busy /\ sd'.failed = sd.failed
  BY <1>1, <1>3 DEF SdStates
<1>9. sd' \in SdStates
  BY <1>1, <1>3, <1>6, <1>7 DEF SdStates, SdPcs
<1>10. \A d, f : Slows(d, f)' <=> Slows(d, f)
  BY <1>2, RateStays
<1>11. SourceSet'
  BY <1>1, <1>2, <1>8, <1>10, <1>6, <1>7 DEF CardInv, SdStates, SourceSet, FreqAsked,
       ClockStopped, Settled, SlowEnough
<1>12. FreqAsked'
  BY <1>1, <1>2, <1>8, <1>10, <1>6, <1>7 DEF CardInv, SdStates, SourceSet, FreqAsked,
       ClockStopped, Settled, SlowEnough
<1>13. ClockStopped'
  BY <1>1, <1>2, <1>8, <1>10, <1>6, <1>7 DEF CardInv, SdStates, SourceSet, FreqAsked,
       ClockStopped, Settled, SlowEnough
<1>14. Settled'
  BY <1>1, <1>2, <1>8, <1>10, <1>6, <1>7 DEF CardInv, SdStates, SourceSet, FreqAsked,
       ClockStopped, Settled, SlowEnough
<1>15. SlowEnough'
  BY <1>1, <1>2, <1>8, <1>10, <1>6, <1>7 DEF CardInv, SdStates, SourceSet, FreqAsked,
       ClockStopped, Settled, SlowEnough
<1> QED BY <1>2, <1>9, <1>11, <1>12, <1>13, <1>14, <1>15, SdStepsKeep DEF SdKeeps

LEMMA MshcNotifyStateEndsKeeps ==
  ASSUME CardInv, CruOk(cru), MshcNotifyStateEnds
  PROVE  CardInv'
<1>1. sd \in SdStates
  BY DEF CardInv, CardTypeOK
<1>2. sd.pc = "setup" /\ cru' = cru /\ emmc' = emmc
  BY <1>1 DEF MshcNotifyStateEnds, SdStep, SdStates, hostVars
<1>3. sd' = [sd EXCEPT !.pc = "idle", !.ctype = 0]
  BY <1>2 DEF MshcNotifyStateEnds, SdStep
<1>4. /\ sd'.pc = "idle" /\ sd'.ena = sd.ena /\ sd'.div = sd.div
      /\ sd'.liveEna = sd.liveEna /\ sd'.liveDiv = sd.liveDiv /\ sd'.freq = sd.freq
      /\ sd'.after = sd.after /\ sd'.asked = sd.asked /\ sd'.ctype = 0 /\ sd'.ddr = sd.ddr
      /\ sd'.busy = sd.busy /\ sd'.failed = sd.failed
  BY <1>1, <1>3 DEF SdStates
<1>5. sd' \in SdStates
  BY <1>1, <1>3 DEF SdStates, SdPcs
<1>6. \A d, f : Slows(d, f)' <=> Slows(d, f)
  BY <1>2, RateStays
<1>7. SourceSet'
  BY <1>1, <1>2, <1>4, <1>6 DEF CardInv, SdStates, SourceSet, FreqAsked, ClockStopped,
       Settled, SlowEnough
<1>8. FreqAsked'
  BY <1>1, <1>2, <1>4, <1>6 DEF CardInv, SdStates, SourceSet, FreqAsked, ClockStopped,
       Settled, SlowEnough
<1>9. ClockStopped'
  BY <1>1, <1>2, <1>4, <1>6 DEF CardInv, SdStates, SourceSet, FreqAsked, ClockStopped,
       Settled, SlowEnough
<1>10. Settled'
  BY <1>1, <1>2, <1>4, <1>6 DEF CardInv, SdStates, SourceSet, FreqAsked, ClockStopped,
       Settled, SlowEnough
<1>11. SlowEnough'
  BY <1>1, <1>2, <1>4, <1>6 DEF CardInv, SdStates, SourceSet, FreqAsked, ClockStopped,
       Settled, SlowEnough
<1> QED BY <1>2, <1>5, <1>7, <1>8, <1>9, <1>10, <1>11, SdStepsKeep DEF SdKeeps

LEMMA MshcDividerNotFoundKeeps ==
  ASSUME CardInv, CruOk(cru), MshcDividerNotFound
  PROVE  CardInv'
<1>1. sd \in SdStates
  BY DEF CardInv, CardTypeOK
<1>2. sd.pc = "divider" /\ ~Found(sd.freq) /\ cru' = cru /\ emmc' = emmc
  BY <1>1 DEF MshcDividerNotFound, SdStep, SdStates, hostVars
<1>3. sd' = [sd EXCEPT !.pc = sd.after]
  BY <1>2 DEF MshcDividerNotFound, SdStep
<1>4. sd.after = "idle"
  <2>1. sd.freq # 400
    BY <1>2, DividerFits, RateOfDriver DEF CardInv, SourceSet
  <2> QED BY <1>1, <1>2, <2>1 DEF CardInv, FreqAsked, SdStates
<1>5. /\ sd'.pc = sd.after /\ sd'.ena = sd.ena /\ sd'.div = sd.div
      /\ sd'.liveEna = sd.liveEna /\ sd'.liveDiv = sd.liveDiv /\ sd'.freq = sd.freq
      /\ sd'.after = sd.after /\ sd'.asked = sd.asked /\ sd'.ctype = sd.ctype
      /\ sd'.ddr = sd.ddr /\ sd'.busy = sd.busy /\ sd'.failed = sd.failed
  BY <1>1, <1>3 DEF SdStates
<1>6. sd' \in SdStates
  BY <1>1, <1>3, <1>4 DEF SdStates, SdPcs
<1>7. \A d, f : Slows(d, f)' <=> Slows(d, f)
  BY <1>2, RateStays
<1>8. SourceSet'
  BY <1>1, <1>2, <1>5, <1>7, <1>4 DEF CardInv, SdStates, SourceSet, FreqAsked, ClockStopped,
       Settled, SlowEnough
<1>9. FreqAsked'
  BY <1>1, <1>2, <1>5, <1>7, <1>4 DEF CardInv, SdStates, SourceSet, FreqAsked, ClockStopped,
       Settled, SlowEnough
<1>10. ClockStopped'
  BY <1>1, <1>2, <1>5, <1>7, <1>4 DEF CardInv, SdStates, SourceSet, FreqAsked, ClockStopped,
       Settled, SlowEnough
<1>11. Settled'
  BY <1>1, <1>2, <1>5, <1>7, <1>4 DEF CardInv, SdStates, SourceSet, FreqAsked, ClockStopped,
       Settled, SlowEnough
<1>12. SlowEnough'
  BY <1>1, <1>2, <1>5, <1>7, <1>4 DEF CardInv, SdStates, SourceSet, FreqAsked, ClockStopped,
       Settled, SlowEnough
<1> QED BY <1>2, <1>6, <1>8, <1>9, <1>10, <1>11, <1>12, SdStepsKeep DEF SdKeeps

LEMMA MshcCardIdleKeeps ==
  ASSUME CardInv, CruOk(cru), MshcCardIdle
  PROVE  CardInv'
<1>1. sd \in SdStates
  BY DEF CardInv, CardTypeOK
<1>2. sd.busy /\ cru' = cru /\ emmc' = emmc
  BY <1>1 DEF MshcCardIdle, SdStep, SdStates, hostVars
<1>3. sd' = [sd EXCEPT !.busy = FALSE]
  BY <1>2 DEF MshcCardIdle, SdStep
<1>4. /\ sd'.pc = sd.pc /\ sd'.ena = sd.ena /\ sd'.div = sd.div /\ sd'.liveEna = sd.liveEna
      /\ sd'.liveDiv = sd.liveDiv /\ sd'.freq = sd.freq /\ sd'.after = sd.after
      /\ sd'.asked = sd.asked /\ sd'.ctype = sd.ctype /\ sd'.ddr = sd.ddr
      /\ sd'.busy = FALSE /\ sd'.failed = sd.failed
  BY <1>1, <1>3 DEF SdStates
<1>5. sd' \in SdStates
  BY <1>1, <1>3 DEF SdStates, SdPcs
<1>6. \A d, f : Slows(d, f)' <=> Slows(d, f)
  BY <1>2, RateStays
<1>7. SourceSet'
  BY <1>1, <1>2, <1>4, <1>6 DEF CardInv, SdStates, SourceSet, FreqAsked, ClockStopped,
       Settled, SlowEnough
<1>8. FreqAsked'
  BY <1>1, <1>2, <1>4, <1>6 DEF CardInv, SdStates, SourceSet, FreqAsked, ClockStopped,
       Settled, SlowEnough
<1>9. ClockStopped'
  BY <1>1, <1>2, <1>4, <1>6 DEF CardInv, SdStates, SourceSet, FreqAsked, ClockStopped,
       Settled, SlowEnough
<1>10. Settled'
  BY <1>1, <1>2, <1>4, <1>6 DEF CardInv, SdStates, SourceSet, FreqAsked, ClockStopped,
       Settled, SlowEnough
<1>11. SlowEnough'
  BY <1>1, <1>2, <1>4, <1>6 DEF CardInv, SdStates, SourceSet, FreqAsked, ClockStopped,
       Settled, SlowEnough
<1> QED BY <1>2, <1>5, <1>7, <1>8, <1>9, <1>10, <1>11, SdStepsKeep DEF SdKeeps

LEMMA MshcDisableClockKeeps ==
  ASSUME CardInv, CruOk(cru), MshcDisableClock
  PROVE  CardInv'
<1>1. sd \in SdStates
  BY DEF CardInv, CardTypeOK
<1>2. sd.pc = "divider" /\ Found(sd.freq) /\ cru' = cru /\ emmc' = emmc
  BY <1>1 DEF MshcDisableClock, SdStep, SdStates, hostVars
<1>3. sd' = [sd EXCEPT !.ena = FALSE, !.pc = "disabled"]
  BY <1>2 DEF MshcDisableClock, SdStep
<1>4. sd.freq # 100
  BY <1>2, HundredNotFound, RateOfDriver DEF CardInv, SourceSet
<1>5. /\ sd'.pc = "disabled" /\ sd'.ena = FALSE /\ sd'.div = sd.div
      /\ sd'.liveEna = sd.liveEna /\ sd'.liveDiv = sd.liveDiv /\ sd'.freq = sd.freq
      /\ sd'.after = sd.after /\ sd'.asked = sd.asked /\ sd'.ctype = sd.ctype
      /\ sd'.ddr = sd.ddr /\ sd'.busy = sd.busy /\ sd'.failed = sd.failed
  BY <1>1, <1>3 DEF SdStates
<1>6. sd' \in SdStates
  BY <1>1, <1>3, <1>4 DEF SdStates, SdPcs
<1>7. \A d, f : Slows(d, f)' <=> Slows(d, f)
  BY <1>2, RateStays
<1>8. SourceSet'
  BY <1>1, <1>2, <1>5, <1>7, <1>4 DEF CardInv, SdStates, SourceSet, FreqAsked, ClockStopped,
       Settled, SlowEnough
<1>9. FreqAsked'
  BY <1>1, <1>2, <1>5, <1>7, <1>4 DEF CardInv, SdStates, SourceSet, FreqAsked, ClockStopped,
       Settled, SlowEnough
<1>10. ClockStopped'
  BY <1>1, <1>2, <1>5, <1>7, <1>4 DEF CardInv, SdStates, SourceSet, FreqAsked, ClockStopped,
       Settled, SlowEnough
<1>11. Settled'
  BY <1>1, <1>2, <1>5, <1>7, <1>4 DEF CardInv, SdStates, SourceSet, FreqAsked, ClockStopped,
       Settled, SlowEnough
<1>12. SlowEnough'
  BY <1>1, <1>2, <1>5, <1>7, <1>4 DEF CardInv, SdStates, SourceSet, FreqAsked, ClockStopped,
       Settled, SlowEnough
<1> QED BY <1>2, <1>6, <1>8, <1>9, <1>10, <1>11, <1>12, SdStepsKeep DEF SdKeeps

LEMMA MshcWriteDividerKeeps ==
  ASSUME CardInv, CruOk(cru), MshcWriteDivider
  PROVE  CardInv'
<1>1. sd \in SdStates
  BY DEF CardInv, CardTypeOK
<1>2. sd.pc = "divide" /\ cru' = cru /\ emmc' = emmc
  BY <1>1 DEF MshcWriteDivider, SdStep, SdStates, hostVars
<1>3. sd' = [sd EXCEPT !.div = Divider(sd.freq), !.pc = "divided"]
  BY <1>2 DEF MshcWriteDivider, SdStep
<1>4. Divider(sd.freq) \in 0..Dividers - 1 /\ Slows(Divider(sd.freq), sd.freq)
  <2>1. sd.freq \in {400, 26000, 50000}
    BY <1>1, <1>2 DEF CardInv, FreqAsked, SdStates, Frequencies
  <2> QED BY <1>2, <2>1, DividerFits, RateOfDriver DEF CardInv, SourceSet
<1>5. /\ sd'.pc = "divided" /\ sd'.ena = sd.ena /\ sd'.div = Divider(sd.freq)
      /\ sd'.liveEna = sd.liveEna /\ sd'.liveDiv = sd.liveDiv /\ sd'.freq = sd.freq
      /\ sd'.after = sd.after /\ sd'.asked = sd.asked /\ sd'.ctype = sd.ctype
      /\ sd'.ddr = sd.ddr /\ sd'.busy = sd.busy /\ sd'.failed = sd.failed
  BY <1>1, <1>3 DEF SdStates
<1>6. sd' \in SdStates
  BY <1>1, <1>3, <1>4 DEF SdStates, SdPcs
<1>7. \A d, f : Slows(d, f)' <=> Slows(d, f)
  BY <1>2, RateStays
<1>8. SourceSet'
  BY <1>1, <1>2, <1>5, <1>7, <1>4 DEF CardInv, SdStates, SourceSet, FreqAsked, ClockStopped,
       Settled, SlowEnough
<1>9. FreqAsked'
  BY <1>1, <1>2, <1>5, <1>7, <1>4 DEF CardInv, SdStates, SourceSet, FreqAsked, ClockStopped,
       Settled, SlowEnough
<1>10. ClockStopped'
  BY <1>1, <1>2, <1>5, <1>7, <1>4 DEF CardInv, SdStates, SourceSet, FreqAsked, ClockStopped,
       Settled, SlowEnough
<1>11. Settled'
  BY <1>1, <1>2, <1>5, <1>7, <1>4 DEF CardInv, SdStates, SourceSet, FreqAsked, ClockStopped,
       Settled, SlowEnough
<1>12. SlowEnough'
  BY <1>1, <1>2, <1>5, <1>7, <1>4 DEF CardInv, SdStates, SourceSet, FreqAsked, ClockStopped,
       Settled, SlowEnough
<1> QED BY <1>2, <1>6, <1>8, <1>9, <1>10, <1>11, <1>12, SdStepsKeep DEF SdKeeps

LEMMA MshcEnableClockKeeps ==
  ASSUME CardInv, CruOk(cru), MshcEnableClock
  PROVE  CardInv'
<1>1. sd \in SdStates
  BY DEF CardInv, CardTypeOK
<1>2. sd.pc = "enable" /\ cru' = cru /\ emmc' = emmc
  BY <1>1 DEF MshcEnableClock, SdStep, SdStates, hostVars
<1>3. sd' = [sd EXCEPT !.ena = TRUE, !.pc = "enabled"]
  BY <1>2 DEF MshcEnableClock, SdStep
<1>4. /\ sd'.pc = "enabled" /\ sd'.ena = TRUE /\ sd'.div = sd.div
      /\ sd'.liveEna = sd.liveEna /\ sd'.liveDiv = sd.liveDiv /\ sd'.freq = sd.freq
      /\ sd'.after = sd.after /\ sd'.asked = sd.asked /\ sd'.ctype = sd.ctype
      /\ sd'.ddr = sd.ddr /\ sd'.busy = sd.busy /\ sd'.failed = sd.failed
  BY <1>1, <1>3 DEF SdStates
<1>5. sd' \in SdStates
  BY <1>1, <1>3 DEF SdStates, SdPcs
<1>6. \A d, f : Slows(d, f)' <=> Slows(d, f)
  BY <1>2, RateStays
<1>7. SourceSet'
  BY <1>1, <1>2, <1>4, <1>6 DEF CardInv, SdStates, SourceSet, FreqAsked, ClockStopped,
       Settled, SlowEnough
<1>8. FreqAsked'
  BY <1>1, <1>2, <1>4, <1>6 DEF CardInv, SdStates, SourceSet, FreqAsked, ClockStopped,
       Settled, SlowEnough
<1>9. ClockStopped'
  BY <1>1, <1>2, <1>4, <1>6 DEF CardInv, SdStates, SourceSet, FreqAsked, ClockStopped,
       Settled, SlowEnough
<1>10. Settled'
  BY <1>1, <1>2, <1>4, <1>6 DEF CardInv, SdStates, SourceSet, FreqAsked, ClockStopped,
       Settled, SlowEnough
<1>11. SlowEnough'
  BY <1>1, <1>2, <1>4, <1>6 DEF CardInv, SdStates, SourceSet, FreqAsked, ClockStopped,
       Settled, SlowEnough
<1> QED BY <1>2, <1>5, <1>7, <1>8, <1>9, <1>10, <1>11, SdStepsKeep DEF SdKeeps

\* What the controller does with a clock command that it takes.
LEMMA UpdatedIs ==
  ASSUME NEW s \in SdStates, sd \in SdStates, sd.pc \in {"disabled", "divided", "enabled"}
  PROVE  LET e == Updated(s) IN
         /\ e \in SdStates
         /\ sd.pc = "disabled" => e.pc = "divide" /\ e.asked = s.asked
         /\ sd.pc = "divided" => e.pc = "enable" /\ e.asked = s.asked
         /\ sd.pc = "enabled" => e.pc = sd.after /\ e.asked = sd.freq
         /\ e.ena = s.ena /\ e.div = s.div /\ e.liveEna = s.liveEna /\ e.liveDiv = s.liveDiv
         /\ e.freq = s.freq /\ e.after = s.after /\ e.failed = s.failed
<1>1. PICK p : p = AfterUpdate[sd.pc]
  OBVIOUS
<1>2. /\ sd.pc = "disabled" => p = "divide"
      /\ sd.pc = "divided" => p = "enable"
      /\ sd.pc = "enabled" => p = sd.after
  BY <1>1 DEF AfterUpdate
<1>3. p \in SdPcs
  BY <1>2 DEF SdStates, SdPcs
<1>4. PICK f : f = IF sd.pc = "enabled" THEN sd.freq ELSE s.asked
  OBVIOUS
<1>5. f \in Frequencies
  BY <1>4 DEF SdStates
<1>6. Updated(s) = [s EXCEPT !.pc = p, !.asked = f]
  BY <1>1, <1>4 DEF Updated
<1>7. PICK e : e = [s EXCEPT !.pc = p, !.asked = f]
  OBVIOUS
<1>8. e \in SdStates
  BY <1>3, <1>5, <1>7 DEF SdStates
<1>9. /\ e.pc = p /\ e.asked = f /\ e.ena = s.ena /\ e.div = s.div /\ e.liveEna = s.liveEna
      /\ e.liveDiv = s.liveDiv /\ e.freq = s.freq /\ e.after = s.after /\ e.failed = s.failed
  BY <1>7 DEF SdStates
<1> QED BY <1>2, <1>4, <1>6, <1>7, <1>8, <1>9

LEMMA MshcUpdateClockKeeps ==
  ASSUME CardInv, CruOk(cru), MshcUpdateClock
  PROVE  CardInv'
<1>1. sd \in SdStates
  BY DEF CardInv, CardTypeOK
<1>2. /\ sd.pc \in {"disabled", "divided", "enabled"} /\ cru' = cru /\ emmc' = emmc
      /\ sd' = Updated([sd EXCEPT !.liveEna = sd.ena, !.liveDiv = sd.div])
  BY DEF MshcUpdateClock, SdStep, hostVars, AfterUpdate
<1>3. PICK s : s = [sd EXCEPT !.liveEna = sd.ena, !.liveDiv = sd.div]
  OBVIOUS
<1>4. s \in SdStates
  BY <1>1, <1>3 DEF SdStates
<1>5. /\ s.liveEna = sd.ena /\ s.liveDiv = sd.div /\ s.asked = sd.asked /\ s.ena = sd.ena
      /\ s.div = sd.div /\ s.freq = sd.freq /\ s.after = sd.after /\ s.failed = sd.failed
  BY <1>1, <1>3 DEF SdStates
<1>6. /\ sd' \in SdStates
      /\ sd.pc = "disabled" => sd'.pc = "divide" /\ sd'.asked = sd.asked
      /\ sd.pc = "divided" => sd'.pc = "enable" /\ sd'.asked = sd.asked
      /\ sd.pc = "enabled" => sd'.pc = sd.after /\ sd'.asked = sd.freq
      /\ sd'.ena = sd.ena /\ sd'.div = sd.div /\ sd'.liveEna = sd.ena /\ sd'.liveDiv = sd.div
      /\ sd'.freq = sd.freq /\ sd'.after = sd.after /\ sd'.failed = sd.failed
  BY <1>1, <1>2, <1>3, <1>4, <1>5, UpdatedIs
<1>7. \A d, f : Slows(d, f)' <=> Slows(d, f)
  BY <1>2, RateStays
<1>8. sd.after \in {"setup", "idle"}
  BY <1>1 DEF SdStates
<1>9. SourceSet' /\ FreqAsked'
  BY <1>2, <1>6, <1>8 DEF CardInv, SourceSet, FreqAsked
<1>10. ClockStopped'
  BY <1>2, <1>6, <1>7, <1>8 DEF CardInv, ClockStopped
<1>11. Settled'
  BY <1>2, <1>6, <1>8 DEF CardInv, Settled
<1>12. SlowEnough'
  BY <1>2, <1>6, <1>7 DEF CardInv, SlowEnough, ClockStopped
<1> QED BY <1>2, <1>6, <1>9, <1>10, <1>11, <1>12, SdStepsKeep DEF SdKeeps

LEMMA MshcUpdateFailsKeeps ==
  ASSUME CardInv, CruOk(cru), MshcUpdateFails
  PROVE  CardInv'
<1>1. sd \in SdStates
  BY DEF CardInv, CardTypeOK
<1>2. /\ sd.pc \in {"disabled", "divided", "enabled"} /\ cru' = cru /\ emmc' = emmc
      /\ \E s \in {[sd EXCEPT !.pc = "stopped"], Updated(sd)} : sd' = [s EXCEPT !.failed = TRUE]
  BY DEF MshcUpdateFails, SdStep, hostVars, AfterUpdate
<1>3. PICK s : s \in {[sd EXCEPT !.pc = "stopped"], Updated(sd)}
             /\ sd' = [s EXCEPT !.failed = TRUE]
  BY <1>2
<1>4. /\ s \in SdStates
      /\ sd.pc = "disabled" => s.pc \in {"stopped", "divide"}
      /\ sd.pc = "divided" => s.pc \in {"stopped", "enable"}
      /\ sd.pc = "enabled" => s.pc \in {"stopped", sd.after}
      /\ s.ena = sd.ena /\ s.div = sd.div /\ s.freq = sd.freq /\ s.after = sd.after
  <2>1. CASE s = [sd EXCEPT !.pc = "stopped"]
    <3>1. s \in SdStates
      BY <1>1, <2>1 DEF SdStates, SdPcs
    <3> QED BY <1>1, <2>1, <3>1 DEF SdStates
  <2>2. CASE s = Updated(sd)
    BY <1>1, <1>2, <2>2, UpdatedIs
  <2> QED BY <1>3, <2>1, <2>2
<1>5. sd' \in SdStates
  BY <1>3, <1>4 DEF SdStates
<1>6. /\ sd'.pc = s.pc /\ sd'.ena = s.ena /\ sd'.div = s.div /\ sd'.freq = s.freq
      /\ sd'.after = s.after /\ sd'.failed
  BY <1>3, <1>4 DEF SdStates
<1>7. \A d, f : Slows(d, f)' <=> Slows(d, f)
  BY <1>2, RateStays
<1>8. sd.after \in {"setup", "idle"}
  BY <1>1 DEF SdStates
<1>9. SourceSet' /\ FreqAsked'
  BY <1>2, <1>4, <1>6, <1>8 DEF CardInv, SourceSet, FreqAsked
<1>10. ClockStopped'
  BY <1>2, <1>4, <1>6, <1>7, <1>8 DEF CardInv, ClockStopped
<1>11. Settled' /\ SlowEnough'
  BY <1>6 DEF Settled, SlowEnough
<1> QED BY <1>2, <1>5, <1>9, <1>10, <1>11, SdStepsKeep DEF SdKeeps

\* What MshcSetIos writes before the clock: the mode and the width.
LEMMA ModeWritten ==
  ASSUME NEW s \in SdStates, NEW ddr \in BOOLEAN
  PROVE  LET e == [s EXCEPT !.ddr = ddr] IN
         /\ e \in SdStates /\ e.pc = s.pc /\ e.ena = s.ena /\ e.div = s.div
         /\ e.liveEna = s.liveEna /\ e.liveDiv = s.liveDiv /\ e.freq = s.freq
         /\ e.after = s.after /\ e.asked = s.asked /\ e.failed = s.failed
<1>1. [s EXCEPT !.ddr = ddr] \in SdStates
  BY DEF SdStates
<1> QED BY <1>1 DEF SdStates

\* The bus width is apart from the clock.
LEMMA WidthWritten ==
  ASSUME NEW s \in SdStates, NEW width \in {0, 1, 4, 8}
  PROVE  LET e == [s EXCEPT !.ctype = width] IN
         /\ e \in SdStates /\ e.pc = s.pc /\ e.ena = s.ena /\ e.div = s.div
         /\ e.liveEna = s.liveEna /\ e.liveDiv = s.liveDiv /\ e.freq = s.freq
         /\ e.after = s.after /\ e.asked = s.asked /\ e.failed = s.failed
<1>1. [s EXCEPT !.ctype = width] \in SdStates
  BY DEF SdStates
<1> QED BY <1>1 DEF SdStates

SameClock(s) ==
  /\ s \in SdStates
  /\ s.pc = sd.pc /\ s.ena = sd.ena /\ s.div = sd.div /\ s.liveEna = sd.liveEna
  /\ s.liveDiv = sd.liveDiv /\ s.freq = sd.freq /\ s.after = sd.after
  /\ s.asked = sd.asked /\ s.failed = sd.failed

LEMMA MshcSetIosKeeps ==
  ASSUME CardInv, CruOk(cru), MshcSetIos
  PROVE  CardInv'
<1>1. sd \in SdStates
  BY DEF CardInv, CardTypeOK
<1>2. PICK freq \in Frequencies, width \in {1, 3, 4, 8}, timing \in {"backward", "sdr",
             "ddr", "other"} :
        LET timed == CASE timing = "ddr" -> [sd EXCEPT !.ddr = TRUE]
                       [] timing = "sdr" -> [sd EXCEPT !.ddr = FALSE]
                       [] OTHER -> sd
            wide == [timed EXCEPT !.ctype = width] IN
        SdStep("idle", IF freq > MaxClockFreq \/ timing = "other" THEN sd
                       ELSE IF width = 3 THEN timed
                       ELSE IF freq = 0 THEN wide
                       ELSE [wide EXCEPT !.pc = "divider", !.freq = freq, !.after = "idle"])
  BY DEF MshcSetIos
<1>3. PICK t : t = CASE timing = "ddr" -> [sd EXCEPT !.ddr = TRUE]
                     [] timing = "sdr" -> [sd EXCEPT !.ddr = FALSE]
                     [] OTHER -> sd
  OBVIOUS
<1>4. PICK w : w = [t EXCEPT !.ctype = width]
  OBVIOUS
<1>5. /\ sd.pc = "idle" /\ cru' = cru /\ emmc' = emmc
      /\ \/ sd' = sd \/ sd' = t \/ (width # 3 /\ sd' = w)
         \/ /\ width # 3 /\ freq # 0 /\ freq <= MaxClockFreq
            /\ sd' = [w EXCEPT !.pc = "divider", !.freq = freq, !.after = "idle"]
  BY <1>2, <1>3, <1>4 DEF SdStep, hostVars, Frequencies, MaxClockFreq
<1>6. SameClock(sd) /\ SameClock(t)
  BY <1>1, <1>3, ModeWritten DEF SameClock
<1>7. width # 3 => SameClock(w)
  <2>1. width # 3 => width \in {0, 1, 4, 8}
    OBVIOUS
  <2> QED BY <1>4, <1>6, <2>1, WidthWritten DEF SameClock
<1>8. \A d, f : Slows(d, f)' <=> Slows(d, f)
  BY <1>5, RateStays
<1>9. CASE SameClock(sd')
  <2>1. SourceSet' /\ FreqAsked' /\ ClockStopped' /\ Settled' /\ SlowEnough'
    BY <1>5, <1>8, <1>9
    DEF CardInv, SameClock, SourceSet, FreqAsked, ClockStopped, Settled, SlowEnough
  <2> QED BY <1>5, <1>9, <2>1, SdStepsKeep DEF SdKeeps, SameClock
<1>10. CASE /\ width # 3 /\ freq # 0 /\ freq <= MaxClockFreq
            /\ sd' = [w EXCEPT !.pc = "divider", !.freq = freq, !.after = "idle"]
  <2>1. freq \in {100, 400, 26000, 50000}
    BY <1>10 DEF Frequencies, MaxClockFreq
  <2>2. PICK e : e = [w EXCEPT !.pc = "divider", !.freq = freq]
    OBVIOUS
  <2>3. e \in SdStates /\ sd' = [e EXCEPT !.after = "idle"]
    BY <1>7, <1>10, <2>2 DEF SameClock, SdStates, SdPcs
  <2>4. sd' \in SdStates
    BY <2>3 DEF SdStates
  <2>5. /\ sd'.pc = "divider" /\ sd'.freq = freq /\ sd'.after = "idle" /\ sd'.ena = w.ena
        /\ sd'.div = w.div /\ sd'.liveEna = w.liveEna /\ sd'.liveDiv = w.liveDiv
        /\ sd'.asked = w.asked /\ sd'.failed = w.failed
    BY <1>7, <1>10 DEF SameClock, SdStates
  <2>6. SourceSet' /\ FreqAsked' /\ ClockStopped' /\ Settled' /\ SlowEnough'
    BY <1>5, <1>7, <1>8, <1>10, <2>1, <2>5
    DEF CardInv, SameClock, SourceSet, FreqAsked, ClockStopped, Settled, SlowEnough
  <2> QED BY <1>5, <2>4, <2>6, SdStepsKeep DEF SdKeeps
<1> QED BY <1>5, <1>6, <1>7, <1>9, <1>10

\* The fixed 100 MHz source is the fourth of the mux.
LEMMA Source100MHz == SdmmcSel(100000) = 3
<1>1. \A rate \in Int : rate = 100000 => SdmmcSel(rate) = 3
  BY SMTT(30) DEF SdmmcSel
<1>2. 100000 \in Int
  OBVIOUS
<1> QED BY <1>1, <1>2

LEMMA MshcDxeInitializeKeeps ==
  ASSUME CardInv, CruOk(cru), MshcDxeInitialize
  PROVE  CardInv' /\ CruOk(cru')
<1>1. sd \in SdStates
  BY DEF CardInv, CardTypeOK
<1>2. /\ sd.pc = "off" /\ sd' = [sd EXCEPT !.pc = "installed"] /\ emmc' = emmc
      /\ cru' = [cru EXCEPT !.sdmmc = CruSetSdmmcClockRate(cru.sdmmc, 0, 100000)]
  BY DEF MshcDxeInitialize
<1>3. PICK m : m = CruSetSdmmcClockRate(cru.sdmmc, 0, 100000)
  OBVIOUS
<1>4. m \in [0..2 -> 0..5] /\ m[0] = 3
  <2>1. cru.sdmmc \in [0..2 -> 0..5]
    BY DEF CruOk
  <2>2. SdmmcSel(100000) = 3
    BY Source100MHz
  <2> QED BY <1>3, <2>1, <2>2 DEF CruSetSdmmcClockRate
<1>5. cru' = [cru EXCEPT !.sdmmc = m]
  BY <1>2, <1>3
<1>6. CruOk(cru') /\ cru'.sdmmc = m
  BY <1>4, <1>5, UnitSdmmc
<1>7. sd' \in SdStates
  BY <1>1, <1>2 DEF SdStates, SdPcs
<1>8. /\ sd'.pc = "installed" /\ sd'.asked = sd.asked
  BY <1>1, <1>2 DEF SdStates
<1>9. sd.asked = 0
  BY <1>2 DEF CardInv, SourceSet
<1>10. SourceSet' /\ FreqAsked' /\ ClockStopped' /\ Settled' /\ SlowEnough'
  BY <1>4, <1>6, <1>8, <1>9 DEF SourceSet, FreqAsked, ClockStopped, Settled, SlowEnough
<1> QED BY <1>2, <1>6, <1>7, <1>10, SdStepsKeep DEF SdKeeps

\* Every step of the SD card's driver and controller.
LEMMA SdNextKeeps ==
  ASSUME CardInv, CruOk(cru), SdNext
  PROVE  CardInv'
<1>1. MshcSetIos => CardInv'
  BY MshcSetIosKeeps
<1>2. MshcUpdateClock \/ MshcUpdateFails => CardInv'
  BY MshcUpdateClockKeeps, MshcUpdateFailsKeeps
<1>3. MshcDxeInitialize \/ MshcNotifyState \/ MshcNotifyStateEnds => CardInv'
  BY MshcDxeInitializeKeeps, MshcNotifyStateKeeps, MshcNotifyStateEndsKeeps
<1>4. MshcDividerNotFound \/ MshcCardIdle \/ MshcDisableClock => CardInv'
  BY MshcDividerNotFoundKeeps, MshcCardIdleKeeps, MshcDisableClockKeeps
<1>5. MshcWriteDivider \/ MshcEnableClock => CardInv'
  BY MshcWriteDividerKeeps, MshcEnableClockKeeps
<1> QED BY <1>1, <1>2, <1>3, <1>4, <1>5 DEF SdNext

-----------------------------------------------------------------------------
(* The eMMC.                                                                 *)
LEMMA EmmcSelIs ==
  /\ EmmcSel(200000) = 1 /\ EmmcSel(52000) = 4 /\ EmmcSel(26000) = 0 /\ EmmcSel(375) = 5
<1>1. EmmcSel(200000) = 1
  BY SMT DEF EmmcSel
<1>2. EmmcSel(52000) = 4
  BY SMT DEF EmmcSel
<1>3. EmmcSel(26000) = 0
  BY SMT DEF EmmcSel
<1>4. EmmcSel(375) = 5
  BY SMT DEF EmmcSel
<1> QED BY <1>1, <1>2, <1>3, <1>4

EmmcKeeps == emmc' \in EmmcStates /\ EmmcFollows'

\* A step of the eMMC override keeps the invariant when it keeps the part about the eMMC.
LEMMA EmmcStepsKeep ==
  ASSUME CardInv, EmmcKeeps, sd' = sd, cru' = cru
  PROVE  CardInv'
<1>1. \A d, f : Slows(d, f)' <=> Slows(d, f)
  BY RateStays
<1>2. (sd \in SdStates)' /\ SourceSet' /\ FreqAsked' /\ Settled'
  BY DEF CardInv, CardTypeOK, SourceSet, FreqAsked, Settled
<1>3. ClockStopped'
  BY <1>1 DEF CardInv, ClockStopped
<1>4. SlowEnough'
  BY <1>1 DEF CardInv, SlowEnough
<1> QED BY <1>2, <1>3, <1>4 DEF CardInv, CardTypeOK, EmmcKeeps

LEMMA EmmcNextKeeps ==
  ASSUME CardInv, EmmcNext
  PROVE  CardInv'
<1>1. emmc \in EmmcStates /\ EmmcFollows
  BY DEF CardInv, CardTypeOK
<1>2. sd' = sd /\ cru' = cru
  <2>1. \A from, emmc1 : EmmcStep(from, emmc1) => sd' = sd /\ cru' = cru
    BY DEF EmmcStep, hostVars
  <2>2. EmmcDxeInitialize => sd' = sd /\ cru' = cru
    BY <2>1 DEF EmmcDxeInitialize
  <2>3. EmmcSdMmcCapability => sd' = sd /\ cru' = cru
    BY <2>1 DEF EmmcSdMmcCapability
  <2>4. EmmcInitHostPost => sd' = sd /\ cru' = cru
    BY <2>1 DEF EmmcInitHostPost
  <2>5. EmmcSwitchClockFreqPost => sd' = sd /\ cru' = cru
    BY <2>1 DEF EmmcSwitchClockFreqPost
  <2>6. EmmcDllLocks => sd' = sd /\ cru' = cru
    BY <2>1 DEF EmmcDllLocks
  <2>7. EmmcDllPoll => sd' = sd /\ cru' = cru
    BY <2>1 DEF EmmcDllPoll
  <2>8. EmmcDllEnabled => sd' = sd /\ cru' = cru
    BY <2>1 DEF EmmcDllEnabled
  <2> QED BY <2>2, <2>3, <2>4, <2>5, <2>6, <2>7, <2>8 DEF EmmcNext
<1>3. MaxPolls \in Nat
  BY HostAssumption
<1>4. CASE EmmcDxeInitialize
  <2>1. PICK s : s = CruSetEmmcClockRate(375)
    OBVIOUS
  <2>2. s = 5 /\ s \in 0..5
    BY <2>1, EmmcSelIs DEF CruSetEmmcClockRate
  <2>3. emmc.pc = "off" /\ emmc' = [emmc EXCEPT !.pc = "registered", !.source = s, !.dll = "off"]
    BY <1>4, <2>1 DEF EmmcDxeInitialize, EmmcStep
  <2>4. PICK e : e = [emmc EXCEPT !.pc = "registered", !.source = s]
    OBVIOUS
  <2>5. e \in EmmcStates
    BY <1>1, <2>2, <2>4, Zenon DEF EmmcStates
  <2>6. emmc' = [e EXCEPT !.dll = "off"]
    BY <1>1, <2>3, <2>4
  <2>7. emmc' \in EmmcStates
    BY <2>5, <2>6, Zenon DEF EmmcStates
  <2>8. /\ emmc'.pc = "registered" /\ emmc'.source = s /\ emmc'.dll = "off"
        /\ emmc'.mode = emmc.mode /\ emmc'.forced = emmc.forced /\ emmc'.modes = emmc.modes
    BY <1>1, <2>3 DEF EmmcStates
  <2>9. EmmcFollows'
    BY <1>1, <2>2, <2>3, <2>8 DEF EmmcFollows, Fast
  <2> QED BY <1>2, <2>7, <2>9, EmmcStepsKeep DEF EmmcKeeps
<1>5. CASE EmmcSdMmcCapability
  <2>1. PICK m : m = IF emmc.forced THEN {"hsSdr", "legacy"} ELSE Modes
    OBVIOUS
  <2>2. m \in SUBSET Modes
    BY <2>1 DEF Modes
  <2>3. emmc.pc = "registered" /\ emmc' = [emmc EXCEPT !.pc = "ready", !.modes = m]
    BY <1>5, <2>1 DEF EmmcSdMmcCapability, EmmcStep
  <2>4. emmc' \in EmmcStates
    BY <1>1, <2>2, <2>3, Zenon DEF EmmcStates
  <2>5. /\ emmc'.pc = "ready" /\ emmc'.modes = m /\ emmc'.source = emmc.source
        /\ emmc'.dll = emmc.dll /\ emmc'.mode = emmc.mode /\ emmc'.forced = emmc.forced
    BY <1>1, <2>3 DEF EmmcStates
  <2>6. EmmcFollows'
    BY <1>1, <2>1, <2>3, <2>5 DEF EmmcFollows
  <2> QED BY <1>2, <2>4, <2>6, EmmcStepsKeep DEF EmmcKeeps
<1>6. CASE EmmcInitHostPost
  <2>1. emmc.pc = "ready" /\ emmc' = [emmc EXCEPT !.sdclk = TRUE, !.power = TRUE]
    BY <1>6 DEF EmmcInitHostPost, EmmcStep
  <2>2. emmc' \in EmmcStates
    BY <1>1, <2>1, Zenon DEF EmmcStates
  <2>3. /\ emmc'.pc = emmc.pc /\ emmc'.modes = emmc.modes /\ emmc'.source = emmc.source
        /\ emmc'.dll = emmc.dll /\ emmc'.mode = emmc.mode /\ emmc'.forced = emmc.forced
    BY <1>1, <2>1 DEF EmmcStates
  <2> QED BY <1>1, <1>2, <2>2, <2>3, EmmcStepsKeep DEF EmmcKeeps, EmmcFollows
<1>7. CASE EmmcSwitchClockFreqPost
  <2>1. PICK mode \in emmc.modes :
          EmmcStep("ready", IF EmmcMaxClockFreq(mode) <= 52000 THEN DllOff(Switched(mode))
                            ELSE DllStarts(Switched(mode)))
    BY <1>7 DEF EmmcSwitchClockFreqPost
  <2>2. mode \in Modes /\ emmc.pc = "ready"
    BY <1>1, <2>1 DEF EmmcStates, EmmcStep
  <2>3. PICK s : s = EmmcSel(EmmcMaxClockFreq(mode))
    OBVIOUS
  <2>4. s \in 0..5 /\ (EmmcMaxClockFreq(mode) <= 52000 <=> ~Fast(mode))
        /\ mode # "none" /\ mode \in Modes \cup {"none"}
    BY <2>2, <2>3, EmmcSelIs DEF EmmcMaxClockFreq, Modes, Fast
  <2>5. PICK w : w = [emmc EXCEPT !.mode = mode, !.source = s]
    OBVIOUS
  <2>6. w \in EmmcStates
    <3>1. s \in 0..5 /\ mode \in Modes \cup {"none"}
      BY <2>4
    <3> QED BY <1>1, <2>5, <3>1, Zenon DEF EmmcStates
  <2>7. /\ w.pc = "ready" /\ w.modes = emmc.modes /\ w.source = s /\ w.mode = mode
        /\ w.forced = emmc.forced
    BY <1>1, <2>2, <2>5 DEF EmmcStates
  <2>8. emmc' = IF ~Fast(mode) THEN [w EXCEPT !.dll = "off"]
                ELSE [w EXCEPT !.pc = "dll", !.dll = "starting", !.polls = 0, !.lock = FALSE]
    <3>1. w = Switched(mode)
      BY <2>3, <2>5 DEF Switched, CruSetEmmcClockRate
    <3>2. emmc' = IF ~Fast(mode) THEN DllOff(w) ELSE DllStarts(w)
      BY <2>1, <2>4, <3>1 DEF EmmcStep
    <3> QED BY <3>2 DEF DllOff, DllStarts
  <2>9. emmc.forced => ~Fast(mode) /\ emmc.modes \cap {"hs400", "hs200", "hsDdr"} = {}
    BY <1>1, <2>1 DEF EmmcFollows, Fast
  <2>10. CASE ~Fast(mode)
    <3>1. emmc' = [w EXCEPT !.dll = "off"]
      BY <2>8, <2>10
    <3>2. emmc' \in EmmcStates
      BY <2>6, <3>1, Zenon DEF EmmcStates
    <3>3. /\ emmc'.pc = "ready" /\ emmc'.modes = emmc.modes /\ emmc'.source = s
          /\ emmc'.dll = "off" /\ emmc'.mode = mode /\ emmc'.forced = emmc.forced
      BY <2>6, <2>7, <3>1 DEF EmmcStates
    <3>4. EmmcFollows'
      BY <2>3, <2>4, <2>9, <2>10, <3>3 DEF EmmcFollows, Fast
    <3> QED BY <1>2, <3>2, <3>4, EmmcStepsKeep DEF EmmcKeeps
  <2>11. CASE Fast(mode)
    <3>1. PICK e : e = [w EXCEPT !.pc = "dll", !.dll = "starting"]
      OBVIOUS
    <3>2. e \in EmmcStates
      BY <2>6, <3>1, Zenon DEF EmmcStates
    <3>3. /\ e.pc = "dll" /\ e.modes = emmc.modes /\ e.source = s /\ e.mode = mode
          /\ e.forced = emmc.forced
      BY <2>6, <2>7, <3>1 DEF EmmcStates
    <3>4. emmc' = [e EXCEPT !.polls = 0, !.lock = FALSE]
      BY <2>6, <2>8, <2>11, <3>1 DEF EmmcStates
    <3>5. emmc' \in EmmcStates
      BY <3>2, <3>4, Zenon DEF EmmcStates
    <3>6. /\ emmc'.pc = "dll" /\ emmc'.modes = emmc.modes /\ emmc'.source = s
          /\ emmc'.mode = mode /\ emmc'.forced = emmc.forced
      BY <3>2, <3>3, <3>4 DEF EmmcStates
    <3>7. EmmcFollows'
      BY <2>3, <2>4, <2>9, <2>11, <3>6 DEF EmmcFollows
    <3> QED BY <1>2, <3>5, <3>7, EmmcStepsKeep DEF EmmcKeeps
  <2> QED BY <2>10, <2>11
<1>8. CASE EmmcDllLocks \/ EmmcDllPoll
  <2>1. emmc' = [emmc EXCEPT !.lock = TRUE] \/ emmc' = [emmc EXCEPT !.polls = emmc.polls + 1]
    BY <1>8 DEF EmmcDllLocks, EmmcDllPoll, EmmcStep
  <2>2. emmc.polls + 1 \in Nat
    BY <1>1 DEF EmmcStates
  <2>3. emmc' \in EmmcStates
    BY <1>1, <2>1, <2>2, Zenon DEF EmmcStates
  <2>4. /\ emmc'.pc = emmc.pc /\ emmc'.modes = emmc.modes /\ emmc'.source = emmc.source
        /\ emmc'.dll = emmc.dll /\ emmc'.mode = emmc.mode /\ emmc'.forced = emmc.forced
    BY <1>1, <2>1 DEF EmmcStates
  <2> QED BY <1>1, <1>2, <2>3, <2>4, EmmcStepsKeep DEF EmmcKeeps, EmmcFollows
<1>9. CASE EmmcDllEnabled
  <2>1. emmc.pc = "dll" /\ emmc' = [emmc EXCEPT !.pc = "ready", !.dll = "on"]
    BY <1>9 DEF EmmcDllEnabled, EmmcStep
  <2>2. emmc' \in EmmcStates
    BY <1>1, <2>1, Zenon DEF EmmcStates
  <2>3. /\ emmc'.pc = "ready" /\ emmc'.modes = emmc.modes /\ emmc'.source = emmc.source
        /\ emmc'.dll = "on" /\ emmc'.mode = emmc.mode /\ emmc'.forced = emmc.forced
    BY <1>1, <2>1 DEF EmmcStates
  <2>4. EmmcFollows'
    BY <1>1, <2>1, <2>3 DEF EmmcFollows, Fast
  <2> QED BY <1>2, <2>2, <2>4, EmmcStepsKeep DEF EmmcKeeps
<1> QED BY <1>4, <1>5, <1>6, <1>7, <1>8, <1>9 DEF EmmcNext

-----------------------------------------------------------------------------

\* Where the cards begin.
LEMMA CardsBegin ==
  ASSUME SdInit, EmmcInit
  PROVE  CardInv
<1>1. 0 \in 0..Dividers - 1 /\ 1 \in 0..Dividers - 1 /\ 0 \in Frequencies
  BY DEF Dividers, Frequencies
<1>2. sd \in SdStates
  BY <1>1, Zenon DEF SdInit, SdStates, SdPcs
<1>3. sd.pc = "off" /\ sd.asked = 0
  BY DEF SdInit
<1>4. emmc \in EmmcStates
  <2>1. 0 \in Nat
    OBVIOUS
  <2> QED BY <2>1, Zenon DEF EmmcInit, EmmcStates
<1>5. emmc.pc = "off" /\ emmc.modes = {} /\ emmc.mode = "none"
  BY DEF EmmcInit
<1> QED BY <1>2, <1>3, <1>4, <1>5 DEF CardInv, CardTypeOK, SourceSet, FreqAsked,
             ClockStopped, Settled,
                          SlowEnough, EmmcFollows, Fast

\* The invariant says that the clocks are within.
LEMMA CardsWithin ==
  ASSUME CardInv
  PROVE  CardClockWithin
<1>1. sd \in SdStates /\ emmc \in EmmcStates
  BY DEF CardInv, CardTypeOK
<1>2. ~sd.failed /\ sd.liveEna /\ sd.asked # 0 =>
        IF sd.liveDiv = 0 THEN Rate <= sd.asked ELSE Rate <= sd.asked * 2 * sd.liveDiv
  BY DEF CardInv, SlowEnough, Slows
<1>3. ~sd.failed /\ sd.pc \notin {"off", "installed", "divider", "disabled"}
        /\ sd.liveDiv # sd.div
        => ~sd.liveEna
  BY <1>1 DEF CardInv, ClockStopped, Settled, SdStates, SdPcs
<1>4. emmc.source = 5 => EmmcRate = 375
  BY DEF EmmcRate, EmmcSource
<1>5. emmc.pc # "off" /\ emmc.mode = "none" => EmmcRate <= 400 /\ emmc.dll = "off"
  BY <1>4 DEF CardInv, EmmcFollows
<1>6. emmc.pc = "ready" /\ emmc.mode # "none" =>
        IF Fast(emmc.mode) THEN EmmcMaxClockFreq(emmc.mode) = 200000 /\ EmmcRate = 200000
        ELSE EmmcRate <= EmmcMaxClockFreq(emmc.mode) /\ EmmcRate <= 50000
  <2> SUFFICES ASSUME emmc.pc = "ready", emmc.mode # "none"
               PROVE  IF Fast(emmc.mode)
                      THEN EmmcMaxClockFreq(emmc.mode) = 200000 /\ EmmcRate = 200000
                      ELSE EmmcRate <= EmmcMaxClockFreq(emmc.mode) /\ EmmcRate <= 50000
    OBVIOUS
  <2>1. emmc.mode \in Modes /\ emmc.source = EmmcSel(EmmcMaxClockFreq(emmc.mode))
    BY <1>1 DEF EmmcStates, CardInv, EmmcFollows
  <2>2. CASE Fast(emmc.mode)
    <3>1. EmmcMaxClockFreq(emmc.mode) = 200000
      BY <2>2 DEF EmmcMaxClockFreq, Fast
    <3>2. emmc.source = 1
      BY <2>1, <3>1, EmmcSelIs
    <3> QED BY <2>2, <3>1, <3>2 DEF EmmcRate, EmmcSource
  <2>3. CASE emmc.mode \in {"hsSdr", "hsDdr"}
    <3>1. EmmcMaxClockFreq(emmc.mode) = 52000
      BY <2>3 DEF EmmcMaxClockFreq
    <3>2. emmc.source = 4
      BY <2>1, <3>1, EmmcSelIs
    <3> QED BY <2>3, <3>1, <3>2 DEF EmmcRate, EmmcSource, Fast
  <2>4. CASE emmc.mode = "legacy"
    <3>1. EmmcMaxClockFreq(emmc.mode) = 26000
      BY <2>4 DEF EmmcMaxClockFreq
    <3>2. emmc.source = 0
      BY <2>1, <3>1, EmmcSelIs
    <3> QED BY <2>4, <3>1, <3>2 DEF EmmcRate, EmmcSource, Fast
  <2> QED BY <2>1, <2>2, <2>3, <2>4 DEF Modes, Fast
<1>7. emmc.pc = "ready" /\ emmc.mode # "none" =>
        EmmcRate <= EmmcMaxClockFreq(emmc.mode) /\ (emmc.dll = "on") = (EmmcRate > 52000)
  <2>1. emmc.pc = "ready" /\ emmc.mode # "none" => (emmc.dll = "on") = Fast(emmc.mode)
    BY DEF CardInv, EmmcFollows
  <2>2. EmmcRate \in Nat
    BY <1>1 DEF EmmcRate, EmmcSource, EmmcStates
  <2>3. EmmcMaxClockFreq(emmc.mode) \in Nat
    BY DEF EmmcMaxClockFreq
  <2>4. emmc.pc = "ready" /\ emmc.mode # "none" => (Fast(emmc.mode) <=> EmmcRate > 52000)
    BY <1>6, <2>2
  <2> QED BY <1>6, <2>1, <2>2, <2>3, <2>4 DEF Fast
<1>8. emmc.pc = "ready" /\ emmc.forced => EmmcRate <= 52000
  <2>1. emmc.pc = "ready" /\ emmc.forced => ~Fast(emmc.mode)
    BY DEF CardInv, EmmcFollows
  <2>2. EmmcRate \in Nat
    BY <1>1 DEF EmmcRate, EmmcSource, EmmcStates
  <2> QED BY <1>4, <1>5, <1>6, <2>1, <2>2
<1> QED BY <1>2, <1>3, <1>5, <1>7, <1>8 DEF CardClockWithin
-----------------------------------------------------------------------------
(* The boards.                                                               *)
BoardOk(b) ==
  /\ b.calls \in Seq(BoardCalls)
  /\ \A i, j \in 1..Len(b.calls) : i < j /\ b.calls[i].call = "gmac" => b.calls[j].call # "gmac"
  /\ b.rails \in Seq(RailWrites) /\ VoltagesFirst(b.rails)
  /\ b.macs \subseteq {0, 1} /\ b.gmac \in Seq(GmacStepNames) /\ GmacOrder(b.gmac)
  /\ \/ b.macs = {} /\ b.gmac = <<>>
     \/ {"assert", "configure", "release"} \subseteq RangeOf(b.gmac)
  /\ b.sdmmc \subseteq {1, 2} /\ b.sata \in Seq({1, 2})
  /\ b.pcie \in [segment : {0, 2}, powered : BOOLEAN, speed : Nat \ {0}, lanes : Nat]

\* What the tables of the nine boards say, one lemma for each part of a board.
LEMMA BoardCallsOk ==
  ASSUME NEW b \in Boards
  PROVE  /\ b.calls \in Seq(BoardCalls)
         /\ \A i, j \in 1..Len(b.calls) : i < j /\ b.calls[i].call = "gmac"
              => b.calls[j].call # "gmac"
<1>1. CASE b = Quartz64("usb3")
  BY <1>1 DEF Quartz64, BoardCalls, Call, Phy, PhyModes, Usb3Phys
<1>2. CASE b = Quartz64("sata")
  BY <1>2 DEF Quartz64, BoardCalls, Call, Phy, PhyModes, Usb3Phys
<1>3. CASE b = SOQuartz
  BY <1>3 DEF SOQuartz, BoardCalls, Call, Phy, PhyModes, Usb3Phys
<1>4. CASE b = PineTab2
  BY <1>4 DEF PineTab2, BoardCalls, Call, Phy, PhyModes, Usb3Phys
<1>5. CASE b = OrangePi3B
  BY <1>5 DEF OrangePi3B, BoardCalls, Call, Phy, PhyModes, Usb3Phys
<1>6. CASE b = RocRk3566Pc
  BY <1>6 DEF RocRk3566Pc, BoardCalls, Call, Phy, PhyModes, Usb3Phys
<1>7. CASE b = RocRk3568Pc
  BY <1>7 DEF RocRk3568Pc, BoardCalls, Call, Phy, PhyModes, Usb3Phys
<1>8. CASE b = OdroidM1S
  BY <1>8 DEF OdroidM1S, BoardCalls, Call, Phy, PhyModes, Usb3Phys
<1>9. CASE b = RadxaCM3
  BY <1>9 DEF RadxaCM3, BoardCalls, Call, Phy, PhyModes, Usb3Phys
<1>10. CASE b = RadxaZero3W
  BY <1>10 DEF RadxaZero3W, BoardCalls, Call, Phy, PhyModes, Usb3Phys
<1> QED BY <1>1, <1>2, <1>3, <1>4, <1>5, <1>6, <1>7, <1>8, <1>9, <1>10 DEF Boards

\* A board with a MAC asserts, configures and releases it, in that order.
LEMMA BoardMacsOk ==
  ASSUME NEW b \in Boards
  PROVE  /\ b.macs \subseteq {0, 1} /\ b.gmac \in Seq(GmacStepNames) /\ GmacOrder(b.gmac)
         /\ \/ b.macs = {} /\ b.gmac = <<>>
            \/ {"assert", "configure", "release"} \subseteq RangeOf(b.gmac)
<1>1. CASE b = Quartz64("usb3")
  BY <1>1 DEF Quartz64, GmacStepNames, GmacOrder, RangeOf, GmacSteps, GmacNoInit, GmacM1S
<1>2. CASE b = Quartz64("sata")
  BY <1>2 DEF Quartz64, GmacStepNames, GmacOrder, RangeOf, GmacSteps, GmacNoInit, GmacM1S
<1>3. CASE b = SOQuartz
  BY <1>3 DEF SOQuartz, GmacStepNames, GmacOrder, RangeOf, GmacSteps, GmacNoInit, GmacM1S
<1>4. CASE b = PineTab2
  BY <1>4 DEF PineTab2, GmacStepNames, GmacOrder, RangeOf, GmacSteps, GmacNoInit, GmacM1S
<1>5. CASE b = OrangePi3B
  BY <1>5 DEF OrangePi3B, GmacStepNames, GmacOrder, RangeOf, GmacSteps, GmacNoInit, GmacM1S
<1>6. CASE b = RocRk3566Pc
  BY <1>6 DEF RocRk3566Pc, GmacStepNames, GmacOrder, RangeOf, GmacSteps, GmacNoInit, GmacM1S
<1>7. CASE b = RocRk3568Pc
  BY <1>7 DEF RocRk3568Pc, GmacStepNames, GmacOrder, RangeOf, GmacSteps, GmacNoInit, GmacM1S
<1>8. CASE b = OdroidM1S
  BY <1>8 DEF OdroidM1S, GmacStepNames, GmacOrder, RangeOf, GmacSteps, GmacNoInit, GmacM1S
<1>9. CASE b = RadxaCM3
  BY <1>9 DEF RadxaCM3, GmacStepNames, GmacOrder, RangeOf, GmacSteps, GmacNoInit, GmacM1S
<1>10. CASE b = RadxaZero3W
  BY <1>10 DEF RadxaZero3W, GmacStepNames, GmacOrder, RangeOf, GmacSteps, GmacNoInit, GmacM1S
<1> QED BY <1>1, <1>2, <1>3, <1>4, <1>5, <1>6, <1>7, <1>8, <1>9, <1>10 DEF Boards

\* The controllers a board has, and its slot.
LEMMA BoardSettingsOk ==
  ASSUME NEW b \in Boards
  PROVE  /\ b.sdmmc \subseteq {1, 2} /\ b.sata \in Seq({1, 2})
         /\ b.pcie \in [segment : {0, 2}, powered : BOOLEAN, speed : Nat \ {0}, lanes : Nat]
<1>1. CASE b = Quartz64("usb3")
  BY <1>1 DEF Quartz64, Pcie20, Pcie30x2
<1>2. CASE b = Quartz64("sata")
  BY <1>2 DEF Quartz64, Pcie20, Pcie30x2
<1>3. CASE b = SOQuartz
  BY <1>3 DEF SOQuartz, Pcie20, Pcie30x2
<1>4. CASE b = PineTab2
  BY <1>4 DEF PineTab2, Pcie20, Pcie30x2
<1>5. CASE b = OrangePi3B
  BY <1>5 DEF OrangePi3B, Pcie20, Pcie30x2
<1>6. CASE b = RocRk3566Pc
  BY <1>6 DEF RocRk3566Pc, Pcie20, Pcie30x2
<1>7. CASE b = RocRk3568Pc
  BY <1>7 DEF RocRk3568Pc, Pcie20, Pcie30x2
<1>8. CASE b = OdroidM1S
  BY <1>8 DEF OdroidM1S, Pcie20, Pcie30x2
<1>9. CASE b = RadxaCM3
  BY <1>9 DEF RadxaCM3, Pcie20, Pcie30x2
<1>10. CASE b = RadxaZero3W
  BY <1>10 DEF RadxaZero3W, Pcie20, Pcie30x2
<1> QED BY <1>1, <1>2, <1>3, <1>4, <1>5, <1>6, <1>7, <1>8, <1>9, <1>10 DEF Boards

\* A board writes the voltages of its rails before it turns one on.
LEMMA BoardRailsOk ==
  ASSUME NEW b \in Boards
  PROVE  b.rails \in Seq(RailWrites) /\ VoltagesFirst(b.rails)
<1>1. CASE b = Quartz64("usb3")
  BY <1>1 DEF Quartz64, RailWrites, Voltages, VoltagesFirst, Rails809, Rails817, PowerOn,
       Vsel, PowerEn
<1>2. CASE b = Quartz64("sata")
  BY <1>2 DEF Quartz64, RailWrites, Voltages, VoltagesFirst, Rails809, Rails817, PowerOn,
       Vsel, PowerEn
<1>3. CASE b = SOQuartz
  BY <1>3 DEF SOQuartz, RailWrites, Voltages, VoltagesFirst, Rails809, Rails817, PowerOn,
       Vsel, PowerEn
<1>4. CASE b = PineTab2
  BY <1>4 DEF PineTab2, RailWrites, Voltages, VoltagesFirst, Rails809, Rails817, PowerOn,
       Vsel, PowerEn
<1>5. CASE b = OrangePi3B
  BY <1>5 DEF OrangePi3B, RailWrites, Voltages, VoltagesFirst, Rails809, Rails817, PowerOn,
       Vsel, PowerEn
<1>6. CASE b = RocRk3566Pc
  BY <1>6 DEF RocRk3566Pc, RailWrites, Voltages, VoltagesFirst, Rails809, Rails817, PowerOn,
       Vsel, PowerEn
<1>7. CASE b = RocRk3568Pc
  BY SMTT(30), <1>7 DEF RocRk3568Pc, RailWrites, Voltages, VoltagesFirst, Rails809, Rails817,
       PowerOn, Vsel, PowerEn
<1>8. CASE b = OdroidM1S
  BY <1>8 DEF OdroidM1S, RailWrites, Voltages, VoltagesFirst, Rails809, Rails817, PowerOn,
       Vsel, PowerEn
<1>9. CASE b = RadxaCM3
  BY <1>9 DEF RadxaCM3, RailWrites, Voltages, VoltagesFirst, Rails809, Rails817, PowerOn,
       Vsel, PowerEn
<1>10. CASE b = RadxaZero3W
  BY <1>10 DEF RadxaZero3W, RailWrites, Voltages, VoltagesFirst, Rails809, Rails817, PowerOn,
       Vsel, PowerEn
<1> QED BY <1>1, <1>2, <1>3, <1>4, <1>5, <1>6, <1>7, <1>8, <1>9, <1>10 DEF Boards

\* All of it, of every board.
LEMMA BoardsOk == \A b \in Boards : BoardOk(b)
BY BoardCallsOk, BoardMacsOk, BoardSettingsOk, BoardRailsOk DEF BoardOk
\* The PHY of every SATA controller of a board is one it sets up.
LEMMA BoardSataOk ==
  ASSUME NEW b \in Boards, NEW i \in 1..Len(b.sata)
  PROVE  PhyIn(b.calls, b.sata[i])
<1>1. CASE b = Quartz64("usb3")
  <2>1. Len(b.sata) = 1 /\ b.sata[1] = 1
    BY <1>1 DEF Quartz64
  <2>2. Len(b.calls) >= 3 /\ Len(b.calls) \in Nat /\ b.calls[3].call = "phy" /\ b.calls[3].n = 1
    BY <1>1 DEF Quartz64, Call, Phy, Usb3Phys
  <2> QED BY <2>1, <2>2 DEF PhyIn
<1>2. CASE b = Quartz64("sata")
  <2>1. Len(b.sata) = 1 /\ b.sata[1] = 1
    BY <1>2 DEF Quartz64
  <2>2. Len(b.calls) >= 3 /\ Len(b.calls) \in Nat /\ b.calls[3].call = "phy" /\ b.calls[3].n = 1
    BY <1>2 DEF Quartz64, Call, Phy, Usb3Phys
  <2> QED BY <2>1, <2>2 DEF PhyIn
<1>3. CASE b = SOQuartz
  BY <1>3 DEF SOQuartz
<1>4. CASE b = PineTab2
  <2>1. Len(b.sata) = 1 /\ b.sata[1] = 1
    BY <1>4 DEF PineTab2
  <2>2. Len(b.calls) >= 3 /\ Len(b.calls) \in Nat /\ b.calls[3].call = "phy" /\ b.calls[3].n = 1
    BY <1>4 DEF PineTab2, Call, Phy, Usb3Phys
  <2> QED BY <2>1, <2>2 DEF PhyIn
<1>5. CASE b = OrangePi3B
  BY <1>5 DEF OrangePi3B
<1>6. CASE b = RocRk3566Pc
  BY <1>6 DEF RocRk3566Pc
<1>7. CASE b = RocRk3568Pc
  <2>1. Len(b.sata) = 1 /\ b.sata[1] = 2
    BY <1>7 DEF RocRk3568Pc
  <2>2. Len(b.calls) >= 4 /\ Len(b.calls) \in Nat /\ b.calls[4].call = "phy" /\ b.calls[4].n = 2
    BY <1>7 DEF RocRk3568Pc, Call, Phy, Usb3Phys
  <2> QED BY <2>1, <2>2 DEF PhyIn
<1>8. CASE b = OdroidM1S
  BY <1>8 DEF OdroidM1S
<1>9. CASE b = RadxaCM3
  BY <1>9 DEF RadxaCM3
<1>10. CASE b = RadxaZero3W
  <2>1. Len(b.sata) = 1 /\ b.sata[1] = 1
    BY <1>10 DEF RadxaZero3W
  <2>2. Len(b.calls) >= 3 /\ Len(b.calls) \in Nat /\ b.calls[3].call = "phy" /\ b.calls[3].n = 1
    BY <1>10 DEF RadxaZero3W, Call, Phy, Usb3Phys
  <2> QED BY <2>1, <2>2 DEF PhyIn
<1> QED BY <1>1, <1>2, <1>3, <1>4, <1>5, <1>6, <1>7, <1>8, <1>9, <1>10 DEF Boards
-----------------------------------------------------------------------------
(* The calls that are left.                                                  *)
LEMMA CallShapes ==
  ASSUME NEW c \in AllCalls
  PROVE  /\ c.call \in {"pmic", "gmac", "wifi", "phy", "pci", "sata"}
         /\ c.call = "phy" => c.n \in 0..2 /\ c.mode \in PhyModes
         /\ c.call = "sata" => c.n \in 0..2
         /\ c.call = "pci" => c = Call("pci")
         /\ c.call = "phy" /\ "then" \in DOMAIN c => c = PcieCall
         /\ c = PcieCall => c.call = "phy" /\ "then" \in DOMAIN c /\ c.then = "clocks" /\ c.n = 2
<1>1. CASE \E name \in {"pmic", "gmac", "wifi", "pci"} : c = Call(name)
  BY <1>1 DEF Call, PcieCall
<1>2. CASE \E n \in 0..2, mode \in PhyModes : c = Phy(n, mode)
  BY <1>2 DEF Phy, PcieCall
<1>3. CASE c = PcieCall
  BY <1>3 DEF PcieCall, PhyModes
<1>4. CASE \E n \in 0..2 : c = SataCall(n)
  BY <1>4 DEF SataCall, PcieCall
<1> QED BY <1>1, <1>2, <1>3, <1>4 DEF AllCalls, BoardCalls

\* What is left after a call is in order if what was there is.
LEMMA TailOk ==
  ASSUME NEW s, CallsOk(s), s # <<>>
  PROVE  /\ CallsOk(Tail(s)) /\ Head(s) = s[1] /\ Head(s) \in AllCalls /\ Len(s) \in Nat \ {0}
         /\ Len(Tail(s)) = Len(s) - 1 /\ \A i \in 1..Len(s) - 1 : Tail(s)[i] = s[i + 1]
<1>1. /\ Len(s) \in Nat \ {0} /\ Head(s) = s[1] /\ Head(s) \in AllCalls
      /\ Tail(s) \in Seq(AllCalls) /\ Len(Tail(s)) = Len(s) - 1
      /\ \A i \in 1..Len(s) - 1 : Tail(s)[i] = s[i + 1]
  BY DEF CallsOk
<1>2. ASSUME NEW i \in 1..Len(s) - 1, Tail(s)[i] = PcieCall PROVE FALSE
  BY <1>1, <1>2 DEF CallsOk
<1>3. ASSUME NEW i \in 1..Len(s) - 1, NEW j \in 1..Len(s) - 1, i < j
      PROVE  /\ Tail(s)[i].call \in {"pci", "sata"} => Tail(s)[j].call = "sata"
             /\ Tail(s)[i].call = "gmac" => Tail(s)[j].call # "gmac"
  <2>1. i + 1 \in 1..Len(s) /\ j + 1 \in 1..Len(s) /\ i + 1 < j + 1
    BY <1>1, <1>3
  <2>2. Tail(s)[i] = s[i + 1] /\ Tail(s)[j] = s[j + 1]
    BY <1>1
  <2> QED BY <2>1, <2>2 DEF CallsOk
<1> QED BY <1>1, <1>2, <1>3 DEF CallsOk

\* The root complex has its PHY set up before it goes on.
LEMMA PcieCallBefore ==
  ASSUME NEW s, CallsOk(s), s # <<>>, Head(s) = Call("pci")
  PROVE  LET t == <<PcieCall>> \o s IN
         /\ CallsOk(t) /\ t # <<>> /\ Head(t) = PcieCall
         /\ Len(t) = Len(s) + 1 /\ t[1] = PcieCall /\ \A i \in 1..Len(s) : t[i + 1] = s[i]
<1> DEFINE t == <<PcieCall>> \o s
<1>1. s \in Seq(AllCalls) /\ Len(s) \in Nat \ {0} /\ s[1] = Call("pci") /\ PcieCall \in AllCalls
  BY TailOk DEF CallsOk, AllCalls
<1>2. t \in Seq(AllCalls) /\ Len(t) = Len(s) + 1 /\ t[1] = PcieCall
        /\ \A i \in 1..Len(s) : t[i + 1] = s[i]
  BY <1>1
<1>3. \A i \in 1..Len(t) : i = 1 \/ (i - 1 \in 1..Len(s) /\ t[i] = s[i - 1])
  BY <1>1, <1>2
<1>4. Call("pci").call = "pci" /\ Call("pci") # PcieCall /\ PcieCall.call = "phy"
  BY DEF Call, PcieCall
<1> HIDE DEF t
<1>5. \A i \in 1..Len(s) : s[i] # PcieCall
  <2>1. \A i \in 1..Len(s) : s[i] = PcieCall => i = 1
    BY DEF CallsOk
  <2> QED BY <1>1, <1>4, <2>1
<1>6. \A i \in 1..Len(t) : t[i] = PcieCall => i = 1 /\ Len(t) > 1 /\ t[2] = Call("pci")
  BY <1>1, <1>2, <1>3, <1>5
<1>7. \A i, j \in 1..Len(t) : i < j =>
        /\ t[i].call \in {"pci", "sata"} => t[j].call = "sata"
        /\ t[i].call = "gmac" => t[j].call # "gmac"
  <2> SUFFICES ASSUME NEW i \in 1..Len(t), NEW j \in 1..Len(t), i < j
               PROVE  /\ t[i].call \in {"pci", "sata"} => t[j].call = "sata"
                      /\ t[i].call = "gmac" => t[j].call # "gmac"
    OBVIOUS
  <2>1. CASE i = 1
    BY <1>2, <1>4, <2>1
  <2>2. CASE i # 1
    <3>1. i - 1 \in 1..Len(s) /\ j - 1 \in 1..Len(s) /\ i - 1 < j - 1 /\ t[i] = s[i - 1]
            /\ t[j] = s[j - 1]
      BY <1>1, <1>2, <1>3, <2>2
    <3> QED BY <3>1 DEF CallsOk
  <2> QED BY <2>1, <2>2
<1> QED BY <1>2, <1>6, <1>7 DEF CallsOk, t

LEMMA Concatenated ==
  ASSUME NEW S, NEW s \in Seq(S), NEW t \in Seq(S)
  PROVE  /\ s \o t \in Seq(S) /\ Len(s \o t) = Len(s) + Len(t)
         /\ \A i \in 1..Len(s) + Len(t) : (s \o t)[i] = IF i <= Len(s) THEN s[i] ELSE t[i - Len(s)]
BY ConcatProperties

\* What a board has to do: its calls, the root complex, its SATA controllers.
LEMMA HostCallsOk ==
  ASSUME NEW b \in Boards
  PROVE  /\ CallsOk(HostCalls(b)) /\ SatasHavePhys(HostCalls(b))
         /\ \A i \in 1..Len(HostCalls(b)) : HostCalls(b)[i] # PcieCall
<1> DEFINE p == b.calls
           m == <<Call("pci")>>
           q == [i \in 1..Len(b.sata) |-> [call |-> "sata", n |-> b.sata[i]]]
           h == (p \o m) \o q
<1>1. /\ p \in Seq(BoardCalls) /\ b.sata \in Seq({1, 2})
      /\ \A i, j \in 1..Len(p) : i < j /\ p[i].call = "gmac" => p[j].call # "gmac"
  BY BoardsOk DEF BoardOk
<1>2. \A c \in BoardCalls : c.call \notin {"pci", "sata"} /\ c # PcieCall /\ c \in AllCalls
  BY DEF BoardCalls, AllCalls, Call, Phy, PcieCall
<1>3. p \in Seq(AllCalls) /\ m \in Seq(AllCalls) /\ Len(m) = 1 /\ m[1] = Call("pci")
  <2>1. Call("pci") \in AllCalls
    BY DEF AllCalls
  <2> QED BY <1>1, <1>2, <2>1
<1>4. q \in Seq(AllCalls) /\ Len(q) = Len(b.sata)
        /\ \A i \in 1..Len(q) : q[i].call = "sata" /\ q[i] # PcieCall /\ q[i].n = b.sata[i]
  <2>1. \A i \in 1..Len(b.sata) : q[i] = SataCall(b.sata[i]) /\ b.sata[i] \in 0..2
          /\ q[i].n = b.sata[i]
    BY <1>1 DEF SataCall
  <2>2. \A n \in 0..2 : SataCall(n) \in AllCalls /\ SataCall(n).call = "sata"
          /\ SataCall(n) # PcieCall
    BY DEF AllCalls, SataCall, PcieCall
  <2>3. Len(b.sata) \in Nat /\ DOMAIN q = 1..Len(b.sata)
    BY <1>1
  <2>4. \A i \in 1..Len(b.sata) : q[i] \in AllCalls /\ q[i].call = "sata" /\ q[i] # PcieCall
    BY <2>1, <2>2
  <2>5. q \in [1..Len(b.sata) -> AllCalls]
    BY <2>4
  <2>6. q \in Seq(AllCalls) /\ Len(q) = Len(b.sata)
    <3> HIDE DEF q
    <3> QED BY <2>3, <2>5
  <2> QED BY <2>1, <2>4, <2>6
<1> HIDE DEF p, m, q
<1>5. /\ h \in Seq(AllCalls) /\ Len(h) = Len(p) + 1 + Len(q)
      /\ \A i \in 1..Len(h) : h[i] = IF i <= Len(p) THEN p[i]
                                     ELSE IF i = Len(p) + 1 THEN Call("pci") ELSE q[i - Len(p) - 1]
  <2>1. /\ p \o m \in Seq(AllCalls) /\ Len(p \o m) = Len(p) + 1
        /\ \A i \in 1..Len(p) + 1 : (p \o m)[i] = IF i <= Len(p) THEN p[i] ELSE Call("pci")
    <3>1. /\ p \o m \in Seq(AllCalls) /\ Len(p \o m) = Len(p) + Len(m)
          /\ \A i \in 1..Len(p) + Len(m) : (p \o m)[i] = IF i <= Len(p) THEN p[i] ELSE m[i - Len(p)]
      BY <1>3, Concatenated
    <3>2. Len(p) \in Nat
      BY <1>3
    <3> QED BY <1>3, <3>1, <3>2
  <2>2. /\ h \in Seq(AllCalls) /\ Len(h) = Len(p \o m) + Len(q)
        /\ \A i \in 1..Len(h) : h[i] = IF i <= Len(p \o m) THEN (p \o m)[i] ELSE q[i - Len(p \o m)]
    <3>1. p \o m \in Seq(AllCalls) /\ q \in Seq(AllCalls)
      BY <1>4, <2>1
    <3>2. Len((p \o m) \o q) = Len(p \o m) + Len(q)
      BY <3>1, Concatenated
    <3> QED BY <3>1, <3>2, Concatenated
  <2>3. Len(p) \in Nat /\ Len(q) \in Nat
    BY <1>3, <1>4
  <2> HIDE DEF h
  <2>4. ASSUME NEW i \in 1..Len(h)
        PROVE  h[i] = IF i <= Len(p) THEN p[i]
                      ELSE IF i = Len(p) + 1 THEN Call("pci") ELSE q[i - Len(p) - 1]
    <3>1. CASE i <= Len(p) + 1
      BY <2>1, <2>2, <2>3, <3>1
    <3>2. CASE i > Len(p) + 1
      BY <2>1, <2>2, <2>3, <3>2
    <3> QED BY <2>2, <2>3, <3>1, <3>2
  <2> QED BY <2>1, <2>2, <2>4
<1>6. Call("pci").call = "pci" /\ Call("pci") # PcieCall
  BY DEF Call, PcieCall
<1>7. HostCalls(b) = h
  BY DEF HostCalls, p, m, q
<1> HIDE DEF h
<1>8. Len(p) \in Nat /\ Len(q) \in Nat /\ \A i \in 1..Len(p) : p[i] \in BoardCalls
  BY <1>1, <1>4
<1>9. \A i \in 1..Len(h) :
        \/ i <= Len(p) /\ h[i] = p[i] /\ h[i] \in BoardCalls
        \/ i = Len(p) + 1 /\ h[i] = Call("pci")
        \/ i > Len(p) + 1 /\ h[i].call = "sata" /\ h[i] # PcieCall
  <2> SUFFICES ASSUME NEW i \in 1..Len(h)
               PROVE  \/ i <= Len(p) /\ h[i] = p[i] /\ h[i] \in BoardCalls
                      \/ i = Len(p) + 1 /\ h[i] = Call("pci")
                      \/ i > Len(p) + 1 /\ h[i].call = "sata" /\ h[i] # PcieCall
    OBVIOUS
  <2>1. i > Len(p) + 1 => i - Len(p) - 1 \in 1..Len(q)
    BY <1>5, <1>8
  <2>2. i <= Len(p) => i \in 1..Len(p)
    BY <1>5, <1>8
  <2>3. CASE i <= Len(p)
    BY <1>5, <1>8, <2>2, <2>3
  <2>4. CASE i = Len(p) + 1
    BY <1>5, <1>8, <2>4
  <2>5. CASE i > Len(p) + 1
    <3>1. h[i] = q[i - Len(p) - 1]
      BY <1>5, <1>8, <2>5
    <3> QED BY <1>4, <2>1, <2>5, <3>1
  <2> QED BY <1>5, <1>8, <2>3, <2>4, <2>5
<1>10. \A i \in 1..Len(h) : h[i] # PcieCall
  BY <1>2, <1>6, <1>9
<1>11. ASSUME NEW i \in 1..Len(h), NEW j \in 1..Len(h), i < j
       PROVE  /\ h[i].call \in {"pci", "sata"} => h[j].call = "sata"
              /\ h[i].call = "gmac" => h[j].call # "gmac"
  <2>1. h[i].call \in {"pci", "sata"} => j > Len(p) + 1
    BY <1>2, <1>8, <1>9, <1>11
  <2>2. h[i].call = "gmac" /\ j <= Len(p) => h[j].call # "gmac"
    <3>1. j <= Len(p) => i \in 1..Len(p) /\ j \in 1..Len(p) /\ h[i] = p[i] /\ h[j] = p[j]
      BY <1>5, <1>8, <1>11
    <3> QED BY <1>1, <1>11, <3>1
  <2> QED BY <1>5, <1>6, <1>8, <1>9, <2>1, <2>2
<1>12. SatasHavePhys(h)
  <2> SUFFICES ASSUME NEW i \in 1..Len(h), h[i].call = "sata"
               PROVE  PhyIn(h, h[i].n)
    BY DEF SatasHavePhys
  <2>1. i > Len(p) + 1
    BY <1>2, <1>6, <1>9
  <2>2. PICK k \in 1..Len(q) : k = i - Len(p) - 1
    BY <1>5, <1>8, <2>1
  <2>3. h[i] = q[k] /\ q[k].n = b.sata[k] /\ k \in 1..Len(b.sata)
    <3>1. h[i] = q[i - Len(p) - 1]
      BY <1>5, <1>8, <2>1
    <3> QED BY <1>4, <2>2, <3>1
  <2>4. PICK j \in 1..Len(p) : p[j].call = "phy" /\ p[j].n = b.sata[k]
    BY <2>3, BoardSataOk DEF PhyIn, p
  <2>5. j \in 1..Len(h) /\ h[j] = p[j]
    BY <1>5, <1>8, <2>4
  <2> QED BY <2>3, <2>4, <2>5 DEF PhyIn
<1> QED BY <1>5, <1>7, <1>10, <1>11, <1>12 DEF CallsOk
-----------------------------------------------------------------------------
(* How the boards go from step to step, and from call to call.               *)
Resting1 == {"next", "halted"}
Flow ==
  \/ UNCHANGED <<hostPc, calls>>
  \/ calls' = calls /\ hostPc' = "halted" /\ hostPc \in {"next", "lock"}
  \/ /\ calls # <<>> /\ calls' = calls /\ hostPc = "next"
     /\ hostPc' \in {"rails", "gmac", "lock", "pcie30phy", "hr"} /\ Running.call = CallOf(hostPc')
  \/ /\ calls' = calls /\ hostPc \notin Resting1 /\ hostPc' \in HostPcs \ Resting1
     /\ CallOf(hostPc') = CallOf(hostPc) /\ (hostPc' = "mode" => hostPc = "locked")
  \/ calls # <<>> /\ calls' = Tail(calls) /\ hostPc' = "next"
  \/ /\ hostPc = "next" /\ calls # <<>> /\ Running = Call("pci") /\ Segment = 0
     /\ calls' = <<PcieCall>> \o calls /\ hostPc' = "next"
  \/ hostPc = "mode" /\ calls # <<>> /\ Running = PcieCall /\ calls' = Tail(calls)
       /\ hostPc' = "clocks"

\* Every step of the boards is one of the flow.
LEMMA HostFlow ==
  ASSUME HostTypeOK, RunsCall, HostNext
  PROVE  Flow /\ board' = board /\ polls' \in Nat
<1> USE DEF Running, Resting1, HostPcs, PhyPcs, PciPcs, CallOf, Goto, Return, Begins
<1>1. polls \in Nat /\ (calls # <<>> => Running \in AllCalls)
  BY TailOk DEF HostTypeOK
<1>2. hostPc \notin {"next", "halted"} => calls # <<>> /\ Running.call = CallOf(hostPc)
  BY DEF RunsCall
<1>3. calls # <<>> /\ Running.call = "pci" => Running = Call("pci")
  BY <1>1, CallShapes
<1>4. calls # <<>> /\ Running.call = "phy" /\ "then" \in DOMAIN Running
        => Running = PcieCall /\ Running.then = "clocks"
  BY <1>1, CallShapes
<1>5. CASE PmicIdentify
  BY <1>5, <1>1, <1>2, <1>3, <1>4 DEF PmicIdentify, Flow
<1>6. CASE PmicUnidentified
  BY <1>6, <1>1, <1>2, <1>3, <1>4 DEF PmicUnidentified, Flow
<1>7. CASE PmicUnidentifiedRelease
  BY <1>7, <1>1, <1>2, <1>3, <1>4 DEF PmicUnidentifiedRelease, Flow
<1>8. CASE PmicWrite
  BY <1>8, <1>1, <1>2, <1>3, <1>4 DEF PmicWrite, Flow
<1>9. CASE PmicReturns
  BY <1>9, <1>1, <1>2, <1>3, <1>4 DEF PmicReturns, Flow
<1>10. CASE GmacBegin
  BY <1>10, <1>1, <1>2, <1>3, <1>4 DEF GmacBegin, Flow
<1>11. CASE GmacStep
  BY <1>11, <1>1, <1>2, <1>3, <1>4 DEF GmacStep, Flow
<1>12. CASE GmacReturns
  BY <1>12, <1>1, <1>2, <1>3, <1>4 DEF GmacReturns, Flow
<1>13. CASE BoardInitWiFi
  BY <1>13, <1>1, <1>2, <1>3, <1>4 DEF BoardInitWiFi, Flow
<1>14. CASE PhySetsPll
  BY <1>14, <1>1, <1>2, <1>3, <1>4 DEF PhySetsPll, Flow
<1>15. CASE PllLocks
  BY <1>15, <1>1, <1>2, <1>3, <1>4 DEF PllLocks, Flow
<1>16. CASE PllPoll
  BY <1>16, <1>1, <1>2, <1>3, <1>4 DEF PllPoll, Flow
<1>17. CASE PllGivesUp
  BY <1>17, <1>1, <1>2, <1>3, <1>4 DEF PllGivesUp, Flow
<1>18. CASE PllLockSeen
  BY <1>18, <1>1, <1>2, <1>3, <1>4 DEF PllLockSeen, Flow
<1>19. CASE PhyClocked
  BY <1>19, <1>1, <1>2, <1>3, <1>4 DEF PhyClocked, Flow
<1>20. CASE PhyMode
  BY <1>20, <1>1, <1>2, <1>3, <1>4 DEF PhyMode, Flow
<1>21. CASE PciPower
  BY <1>21, <1>1, <1>2, <1>3, <1>4 DEF PciPower, PcieCall, Flow
<1>22. CASE Pcie30PhyRelease
  BY <1>22, <1>1, <1>2, <1>3, <1>4 DEF Pcie30PhyRelease, Flow
<1>23. CASE SramInitDone
  BY <1>23, <1>1, <1>2, <1>3, <1>4 DEF SramInitDone, Flow
<1>24. CASE Pcie30PhyPoll
  BY <1>24, <1>1, <1>2, <1>3, <1>4 DEF Pcie30PhyPoll, Flow
<1>25. CASE Pcie30PhyInitialized
  BY <1>25, <1>1, <1>2, <1>3, <1>4 DEF Pcie30PhyInitialized, Flow
<1>26. CASE Pcie30PhyTimeout
  BY <1>26, <1>1, <1>2, <1>3, <1>4 DEF Pcie30PhyTimeout, NoRootBridge, Flow
<1>27. CASE PciSetupClocks
  BY <1>27, <1>1, <1>2, <1>3, <1>4 DEF PciSetupClocks, PciSteps, Flow
<1>28. CASE PciSetRcMode
  BY <1>28, <1>1, <1>2, <1>3, <1>4 DEF PciSetRcMode, PciSteps, Flow
<1>29. CASE PciSetupBars
  BY <1>29, <1>1, <1>2, <1>3, <1>4 DEF PciSetupBars, PciSteps, Flow
<1>30. CASE PciSetupAtu
  BY <1>30, <1>1, <1>2, <1>3, <1>4 DEF PciSetupAtu, Flow
<1>31. CASE PciSetupLinkSpeed
  BY <1>31, <1>1, <1>2, <1>3, <1>4 DEF PciSetupLinkSpeed, PciSteps, Flow
<1>32. CASE PciResetLow
  BY <1>32, <1>1, <1>2, <1>3, <1>4 DEF PciResetLow, PciSteps, Flow
<1>33. CASE PciEnableLtssm
  BY <1>33, <1>1, <1>2, <1>3, <1>4 DEF PciEnableLtssm, PciSteps, Flow
<1>34. CASE PciResetHigh
  BY <1>34, <1>1, <1>2, <1>3, <1>4 DEF PciResetHigh, Flow
<1>35. CASE LinkTrains
  BY <1>35, <1>1, <1>2, <1>3, <1>4 DEF LinkTrains, Flow
<1>36. CASE PciPoll
  BY <1>36, <1>1, <1>2, <1>3, <1>4 DEF PciPoll, Flow
<1>37. CASE PciHostBridgeGetRootBridges
  BY <1>37, <1>1, <1>2, <1>3, <1>4 DEF PciHostBridgeGetRootBridges, PciIsLinkUp, Flow
<1>38. CASE LinkUpTimeout
  BY <1>38, <1>1, <1>2, <1>3, <1>4 DEF LinkUpTimeout, NoRootBridge, Flow
<1>39. CASE SataReset
  BY <1>39, <1>1, <1>2, <1>3, <1>4 DEF SataReset, Flow
<1>40. CASE SataResetEnds
  BY <1>40, <1>1, <1>2, <1>3, <1>4 DEF SataResetEnds, Flow
<1>41. CASE SataEnable
  BY <1>41, <1>1, <1>2, <1>3, <1>4 DEF SataEnable, Flow
<1> QED BY <1>5, <1>6, <1>7, <1>8, <1>9, <1>10, <1>11, <1>12, <1>13, <1>14, <1>15, <1>16,
        <1>17, <1>18, <1>19, <1>20, <1>21, <1>22, <1>23, <1>24, <1>25, <1>26, <1>27, <1>28,
        <1>29, <1>30, <1>31, <1>32, <1>33, <1>34, <1>35, <1>36, <1>37, <1>38, <1>39, <1>40,
        <1>41  DEF HostNext

\* The flow keeps the calls in order, and the step in the call that runs.
LEMMA FlowKeeps ==
  ASSUME HostTypeOK, RunsCall, Flow
  PROVE  CallsOk(calls)' /\ hostPc' \in HostPcs /\ RunsCall'
<1> USE DEF Running, Resting1, HostPcs, PhyPcs, PciPcs, CallOf
<1>1. CallsOk(calls) /\ hostPc \in HostPcs
  BY DEF HostTypeOK
<1>2. calls # <<>> => CallsOk(Tail(calls))
  BY <1>1, TailOk
<1>3. calls # <<>> /\ Running = Call("pci") => CallsOk(<<PcieCall>> \o calls)
  BY <1>1, PcieCallBefore
<1>4. CallsOk(calls')
  BY <1>1, <1>2, <1>3 DEF Flow
<1>5. hostPc' \in HostPcs
  BY <1>1 DEF Flow
<1>6. calls # <<>> /\ Running = PcieCall => Tail(calls) # <<>> /\ Head(Tail(calls)) = Call("pci")
  <2> SUFFICES ASSUME calls # <<>>, Running = PcieCall
               PROVE  Tail(calls) # <<>> /\ Head(Tail(calls)) = Call("pci")
    OBVIOUS
  <2>1. calls[1] = PcieCall /\ 1 \in 1..Len(calls) /\ Len(calls) \in Nat
    BY <1>1, TailOk
  <2>2. Len(calls) > 1 /\ calls[2] = Call("pci")
    BY <1>1, <2>1 DEF CallsOk
  <2>3. Len(Tail(calls)) = Len(calls) - 1 /\ Tail(calls)[1] = calls[2]
          /\ Tail(calls) \in Seq(AllCalls)
    BY <1>1, <2>1, <2>2, TailOk DEF CallsOk
  <2> QED BY <2>1, <2>2, <2>3
<1>7. Call("pci").call = "pci"
  BY DEF Call
<1>8. RunsCall'
  BY <1>1, <1>6, <1>7 DEF Flow, RunsCall
<1> QED BY <1>4, <1>5, <1>8
-----------------------------------------------------------------------------
(* What the boards do to the clock and reset unit.                           *)

\* Resets that are different stay apart.
LEMMA ResetsApart ==
  /\ \A n \in 0..2, s \in 0..2 : PhyReset(n) # PowerupReset(s)
  /\ \A n \in 0..2, g \in {0, 1} : PhyReset(n) # GmacReset(g)
  /\ \A s \in 0..2, g \in {0, 1} : PowerupReset(s) # GmacReset(g)
  /\ \A n \in 0..2 : PhyReset(n) # Pcie30PhyReset /\ PowerupReset(n) # Pcie30PhyReset
  /\ \A g \in {0, 1} : GmacReset(g) # Pcie30PhyReset
BY DEF PhyReset, PowerupReset, GmacReset, Pcie30PhyReset

\* A reset that is released stays so, but where its own driver asserts it.
Asserts(step) == hostPc = "gmac" /\ gmac.todo # <<>> /\ Head(gmac.todo) = step
CruFrame ==
  /\ CruOk(cru)' /\ cru'.sdmmc[0] = cru.sdmmc[0] /\ cru.gates \subseteq cru'.gates
  /\ \A s \in 0..2 : PowerupReset(s) \notin cru.resets => PowerupReset(s) \notin cru'.resets
  /\ hostPc # "locked" => \A n \in 0..2 : PhyReset(n) \notin cru.resets
       => PhyReset(n) \notin cru'.resets
  /\ ~Asserts("assert") => \A g \in {0, 1} : GmacReset(g) \notin cru.resets
       => GmacReset(g) \notin cru'.resets
  /\ PllIs200MHz \/ hostPc' = "lock" => PllIs200MHz'
  /\ \A n \in 0..2 : FromPll(n) \/ (hostPc = "locked" /\ hostPc' = "mode"
       /\ n = Running.n) => FromPll(n)'

\* The reference a PHY takes from the PLL is 100 MHz once it was programmed.
LEMMA RateIs100MHz ==
  ASSUME CruOk(cru), PllIs200MHz, NEW n \in 0..2, FromPll(n)
  PROVE  CruGetPciePhyClockRate(cru, n) = 100000
<1>1. PmuCruGetPllRate(cru.pll) = 200000
  <2>1. /\ 24000 \div 1 = 24000 /\ 24000 * 100 = 2400000 /\ 2400000 \div 3 = 800000
        /\ 800000 \div 4 = 200000
    OBVIOUS
  <2> QED BY <2>1 DEF PllIs200MHz, PmuCruGetPllRate, CRU_CLKREF_RATE
<1>2. 200000 \div 2 = 100000 /\ 0 + 1 = 1 /\ 100000 \div 1 = 100000
  OBVIOUS
<1> QED BY <1>1, <1>2 DEF FromPll, CruGetPciePhyClockRate

\* MultiPhySetMode: the PHY ends with the mode and the reference it was called for.
LEMMA PhyModeSets ==
  ASSUME HostTypeOK, RunsCall, PhysClocked, PhyMode
  PROVE  /\ Running.n \in 0..2 /\ Running.mode \in PhyModes /\ FromPll(Running.n) /\ PllIs200MHz
         /\ cru' = CruDeassertSoftReset(cru, {PhyReset(Running.n)})
         /\ phy' = [phy EXCEPT ![Running.n] = PhySetting]
         /\ PhySetting.mode = Running.mode /\ PhySetting.clk = 100000
<1>1. calls # <<>> /\ Running.call = "phy" /\ Running \in AllCalls
  BY TailOk DEF RunsCall, CallOf, PhyMode, PhyPcs, Running, HostTypeOK
<1>2. Running.n \in 0..2 /\ Running.mode \in PhyModes
  BY <1>1, CallShapes
<1>3. FromPll(Running.n) /\ PllIs200MHz /\ CruOk(cru)
  BY DEF PhyMode, PhysClocked, PhyPcs, HostTypeOK
<1>4. CruGetPciePhyClockRate(cru, Running.n) = 100000
  BY <1>2, <1>3, RateIs100MHz
<1>5. 100000 \in References
  BY DEF References
<1>6. Referenced = cru /\ PhyRate = 100000 /\ PhyRate \in References
  BY <1>4, <1>5 DEF FallsBack, Referenced, PhyRate
<1>7. PhySetting.mode = Running.mode /\ PhySetting.clk = 100000
  BY <1>6 DEF PhySetting
<1>8. cru' = CruDeassertSoftReset(cru, {PhyReset(Running.n)})
  BY <1>6 DEF PhyMode
<1>9. phy' = [phy EXCEPT ![Running.n] = PhySetting]
  BY DEF PhyMode
<1> QED BY <1>2, <1>3, <1>7, <1>8, <1>9

\* The steps that leave the unit alone, and set no PLL and no PHY.
LeavesCru ==
  /\ cru' = cru
  /\ (hostPc' = "lock" => hostPc = "lock") /\ (hostPc' = "mode" => hostPc = "mode")

LEMMA OthersLeaveCru ==
  ASSUME HostNext
  PROVE  \/ GmacStep \/ BoardInitWiFi \/ PhySetsPll \/ PllLocks \/ PhyClocked \/ PhyMode
         \/ PciPower \/ Pcie30PhyRelease \/ PciSetupClocks
         \/ LeavesCru
<1> USE DEF Goto, Return, Begins, LeavesCru
<1>1. PmicIdentify => LeavesCru
  BY DEF PmicIdentify
<1>2. PmicUnidentified => LeavesCru
  BY DEF PmicUnidentified
<1>3. PmicUnidentifiedRelease => LeavesCru
  BY DEF PmicUnidentifiedRelease
<1>4. PmicWrite => LeavesCru
  BY DEF PmicWrite
<1>5. PmicReturns => LeavesCru
  BY DEF PmicReturns
<1>6. GmacBegin => LeavesCru
  BY DEF GmacBegin
<1>7. GmacReturns => LeavesCru
  BY DEF GmacReturns
<1>8. PllPoll => LeavesCru
  BY DEF PllPoll
<1>9. PllGivesUp => LeavesCru
  BY DEF PllGivesUp
<1>10. PllLockSeen => LeavesCru
  BY DEF PllLockSeen
<1>11. SramInitDone => LeavesCru
  BY DEF SramInitDone
<1>12. Pcie30PhyPoll => LeavesCru
  BY DEF Pcie30PhyPoll
<1>13. Pcie30PhyInitialized => LeavesCru
  BY DEF Pcie30PhyInitialized
<1>14. Pcie30PhyTimeout => LeavesCru
  BY DEF Pcie30PhyTimeout, NoRootBridge
<1>15. PciSetRcMode => LeavesCru
  BY DEF PciSetRcMode, PciSteps
<1>16. PciSetupBars => LeavesCru
  BY DEF PciSetupBars, PciSteps
<1>17. PciSetupAtu => LeavesCru
  BY DEF PciSetupAtu
<1>18. PciSetupLinkSpeed => LeavesCru
  BY DEF PciSetupLinkSpeed, PciSteps
<1>19. PciResetLow => LeavesCru
  BY DEF PciResetLow, PciSteps
<1>20. PciEnableLtssm => LeavesCru
  BY DEF PciEnableLtssm, PciSteps
<1>21. PciResetHigh => LeavesCru
  BY DEF PciResetHigh
<1>22. LinkTrains => LeavesCru
  BY DEF LinkTrains
<1>23. PciPoll => LeavesCru
  BY DEF PciPoll
<1>24. PciHostBridgeGetRootBridges => LeavesCru
  BY DEF PciHostBridgeGetRootBridges, PciIsLinkUp
<1>25. LinkUpTimeout => LeavesCru
  BY DEF LinkUpTimeout, NoRootBridge
<1>26. SataReset => LeavesCru
  BY DEF SataReset
<1>27. SataResetEnds => LeavesCru
  BY DEF SataResetEnds
<1>28. SataEnable => LeavesCru
  BY DEF SataEnable
<1> QED BY <1>1, <1>2, <1>3, <1>4, <1>5, <1>6, <1>7, <1>8, <1>9, <1>10, <1>11, <1>12, <1>13,
        <1>14, <1>15, <1>16, <1>17, <1>18, <1>19, <1>20, <1>21, <1>22, <1>23, <1>24, <1>25,
        <1>26, <1>27, <1>28  DEF HostNext

\* Every step of the boards keeps the unit well formed, and changes it only so.
LEMMA CruEvolves ==
  ASSUME HostTypeOK, RunsCall, PhysClocked, HostNext
  PROVE  CruFrame
<1>1. CruOk(cru) /\ board \in Boards
  BY DEF HostTypeOK
<1>2. hostPc = "lock" => PllIs200MHz
  BY DEF PhysClocked, PhyPcs
<1> USE DEF Goto, Begins
<1>3. CASE GmacStep
  <2>1. board.macs \subseteq {0, 1}
    BY <1>1, BoardsOk DEF BoardOk
  <2>2. \/ cru' = cru
        \/ Asserts("assert")
             /\ cru' = [cru EXCEPT !.resets = @ \cup {GmacReset(n) : n \in board.macs}]
        \/ cru' = [cru EXCEPT !.resets = @ \ {GmacReset(n) : n \in board.macs}]
    BY <1>3 DEF GmacStep, Asserts, CruAssertSoftReset, CruDeassertSoftReset
  <2>3. hostPc = "gmac" /\ hostPc' = "gmac"
    BY <1>3 DEF GmacStep
  <2>4. CASE cru' = cru
    BY <1>1, <2>3, <2>4 DEF CruFrame, PllIs200MHz, FromPll
  <2>5. CASE Asserts("assert")
               /\ cru' = [cru EXCEPT !.resets = @ \cup {GmacReset(n) : n \in board.macs}]
    <3> DEFINE r == cru.resets \cup {GmacReset(n) : n \in board.macs}
    <3>1. cru' = [cru EXCEPT !.resets = r]
      BY <2>5
    <3>2. /\ CruOk(cru') /\ cru'.resets = r /\ cru'.pll = cru.pll /\ cru'.div = cru.div
          /\ cru'.sel = cru.sel /\ cru'.gates = cru.gates /\ cru'.sdmmc = cru.sdmmc
      <4> HIDE DEF r
      <4> QED BY <1>1, <3>1, UnitResets
    <3>3. \A s \in 0..2 : PowerupReset(s) \notin cru.resets => PowerupReset(s) \notin r
      BY <2>1, ResetsApart
    <3>4. \A n \in 0..2 : PhyReset(n) \notin cru.resets => PhyReset(n) \notin r
      BY <2>1, ResetsApart
    <3> HIDE DEF r
    <3> QED BY <2>3, <2>5, <3>2, <3>3, <3>4 DEF CruFrame, PllIs200MHz, FromPll
  <2>6. CASE cru' = [cru EXCEPT !.resets = @ \ {GmacReset(n) : n \in board.macs}]
    <3> DEFINE r == cru.resets \ {GmacReset(n) : n \in board.macs}
    <3>1. cru' = [cru EXCEPT !.resets = r] /\ r \subseteq cru.resets
      BY <2>6
    <3> HIDE DEF r
    <3>2. /\ CruOk(cru') /\ cru'.resets = r /\ cru'.pll = cru.pll /\ cru'.div = cru.div
          /\ cru'.sel = cru.sel /\ cru'.gates = cru.gates /\ cru'.sdmmc = cru.sdmmc
      BY <1>1, <3>1, UnitResets
    <3> QED BY <2>3, <3>1, <3>2 DEF CruFrame, PllIs200MHz, FromPll
  <2> QED BY <2>2, <2>4, <2>5, <2>6
<1>4. CASE BoardInitWiFi
  <2>1. PICK i \in board.sdmmc : cru' = [cru EXCEPT !.sdmmc = CruSetSdmmcClockRate(@, i, 100000)]
    BY <1>4 DEF BoardInitWiFi
  <2>2. i \in {1, 2}
    BY <1>1, BoardsOk DEF BoardOk
  <2> DEFINE m == CruSetSdmmcClockRate(cru.sdmmc, i, 100000)
  <2>3. m \in [0..2 -> 0..5] /\ m[0] = cru.sdmmc[0]
    <3>1. cru.sdmmc \in [0..2 -> 0..5]
      BY <1>1 DEF CruOk
    <3>2. SdmmcSel(100000) = 3
      BY Source100MHz
    <3> QED BY <2>2, <3>1, <3>2 DEF CruSetSdmmcClockRate
  <2>4. cru' = [cru EXCEPT !.sdmmc = m]
    BY <2>1
  <2> HIDE DEF m
  <2>5. /\ CruOk(cru') /\ cru'.resets = cru.resets /\ cru'.pll = cru.pll /\ cru'.div = cru.div
        /\ cru'.sel = cru.sel /\ cru'.gates = cru.gates /\ cru'.sdmmc = m
    BY <1>1, <2>3, <2>4, UnitSdmmc
  <2> QED BY <1>4, <2>3, <2>5 DEF CruFrame, PllIs200MHz, FromPll, BoardInitWiFi, Return
<1>5. CASE PhySetsPll
  <2>1. PICK r \in CruPllRates : r.rate = 200000 /\ cru' = WriteCon1(WriteCon0(SlowMode(cru),
               r), r)
    <3>1. 2 * 100000 = 200000 /\ \E r \in CruPllRates : r.rate = 200000
      BY DEF CruPllRates
    <3>2. CruFindPllRate(2 * 100000) \in CruPllRates /\ CruFindPllRate(2 * 100000).rate = 200000
      BY <3>1 DEF CruFindPllRate
    <3> QED BY <1>5, <3>2 DEF PhySetsPll
  <2>2. r.RefDiv = 1 /\ r.FbDiv = 100 /\ r.PostDiv1 = 3 /\ r.PostDiv2 = 4
    BY <2>1 DEF CruPllRates
  <2>3. /\ CruOk(cru') /\ cru'.resets = cru.resets /\ cru'.div = cru.div
        /\ cru'.sel = cru.sel /\ cru'.gates = cru.gates /\ cru'.sdmmc = cru.sdmmc
        /\ cru'.pll.RefDiv = 1 /\ cru'.pll.FbDiv = 100 /\ cru'.pll.PostDiv1 = 3
        /\ cru'.pll.PostDiv2 = 4 /\ ~cru'.pll.bypass
    BY <1>1, <2>1, <2>2, PllSet
  <2> QED BY <1>5, <2>3 DEF CruFrame, PllIs200MHz, FromPll, PhySetsPll
<1>6. CASE PllLocks
  <2>1. cru' = [cru EXCEPT !.pll = [cru.pll EXCEPT !.locked = TRUE]]
    BY <1>6 DEF PllLocks
  <2>2. [cru.pll EXCEPT !.locked = TRUE] \in Plls
    BY <1>1 DEF CruOk, Plls
  <2>3. /\ CruOk(cru') /\ cru'.resets = cru.resets /\ cru'.div = cru.div
        /\ cru'.sel = cru.sel /\ cru'.gates = cru.gates /\ cru'.sdmmc = cru.sdmmc
        /\ cru'.pll = [cru.pll EXCEPT !.locked = TRUE]
    BY <1>1, <2>1, <2>2, UnitPll
  <2>4. /\ cru'.pll.RefDiv = cru.pll.RefDiv /\ cru'.pll.FbDiv = cru.pll.FbDiv
        /\ cru'.pll.PostDiv1 = cru.pll.PostDiv1 /\ cru'.pll.PostDiv2 = cru.pll.PostDiv2
        /\ cru'.pll.bypass = cru.pll.bypass
    BY <1>1, <2>3 DEF CruOk, Plls
  <2> QED BY <1>2, <1>6, <2>3, <2>4 DEF CruFrame, PllIs200MHz, FromPll, PllLocks
<1>7. CASE PhyClocked
  <2>1. hostPc = "locked" /\ hostPc' = "mode"
        /\ cru' = CruAssertSoftReset(CruSetPciePhyClockRate(cru, Running.n),
             {PhyReset(Running.n)})
    BY <1>7 DEF PhyClocked
  <2>2. PICK m \in 0..2 : m = Running.n
    <3>1. calls # <<>> /\ Running.call = "phy" /\ Running \in AllCalls
      BY <2>1, TailOk DEF RunsCall, CallOf, PhyPcs, Running, HostTypeOK
    <3> QED BY <3>1, CallShapes
  <2>3. PICK x : x = {PhyReset(m)}
    OBVIOUS
  <2>4. cru' = CruAssertSoftReset(CruSetPciePhyClockRate(cru, m), x)
    BY <2>1, <2>2, <2>3
  <2>5. /\ CruOk(cru') /\ cru'.gates = cru.gates /\ cru'.sdmmc = cru.sdmmc
        /\ cru'.resets = cru.resets \cup x
        /\ cru'.div[m] = 0 /\ cru'.sel[m] = 1
        /\ \A k \in 0..2 : k # m => cru'.div[k] = cru.div[k] /\ cru'.sel[k] = cru.sel[k]
        /\ cru'.pll.RefDiv = cru.pll.RefDiv /\ cru'.pll.FbDiv = cru.pll.FbDiv
        /\ cru'.pll.PostDiv1 = cru.pll.PostDiv1 /\ cru'.pll.PostDiv2 = cru.pll.PostDiv2
        /\ cru'.pll.bypass = cru.pll.bypass
    BY <1>1, <2>4, PhyClockSet
  <2>6. \A n \in 0..2 : FromPll(n) \/ n = m => FromPll(n)'
    BY <1>1, <2>5 DEF FromPll, CruOk
  <2>7. \A s \in 0..2 : PowerupReset(s) \notin cru.resets => PowerupReset(s) \notin cru'.resets
    BY <2>3, <2>5, ResetsApart
  <2>8. \A g \in {0, 1} : GmacReset(g) \notin cru.resets => GmacReset(g) \notin cru'.resets
    BY <2>3, <2>5, ResetsApart
  <2> QED BY <2>1, <2>2, <2>5, <2>6, <2>7, <2>8 DEF CruFrame, PllIs200MHz
<1>8. CASE PhyMode
  <2>1. cru' = [cru EXCEPT !.resets = cru.resets \ {PhyReset(Running.n)}]
    BY <1>8, PhyModeSets DEF CruDeassertSoftReset
  <2>2. /\ CruOk(cru') /\ cru'.resets = cru.resets \ {PhyReset(Running.n)} /\ cru'.pll = cru.pll
        /\ cru'.div = cru.div /\ cru'.sel = cru.sel /\ cru'.gates = cru.gates
        /\ cru'.sdmmc = cru.sdmmc
    BY <1>1, <2>1, UnitResets
  <2>3. hostPc = "mode" /\ hostPc' \notin {"mode", "lock"}
    <3>1. calls # <<>> /\ Running.call = "phy" /\ Running \in AllCalls
      BY <1>8, TailOk DEF RunsCall, CallOf, PhyMode, PhyPcs, Running, HostTypeOK
    <3>2. "then" \in DOMAIN Running => Running.then = "clocks"
      BY <3>1, CallShapes
    <3> QED BY <1>8, <3>2 DEF PhyMode, Return
  <2> QED BY <2>2, <2>3 DEF CruFrame, PllIs200MHz, FromPll
<1>9. CASE PciPower
  <2>1. hostPc' \notin {"lock", "mode"} /\ hostPc = "next"
    BY <1>9 DEF PciPower
  <2>2. \/ cru' = cru
        \/ cru' = [[cru EXCEPT !.gates = @ \cup Pcie30PhyGates]
                   EXCEPT !.resets = @ \cup {Pcie30PhyReset}]
    BY <1>9 DEF PciPower, CruAssertSoftReset, CruEnableClock
  <2>3. CASE cru' = cru
    BY <1>1, <2>1, <2>3 DEF CruFrame, PllIs200MHz, FromPll
  <2>4. CASE cru' = [[cru EXCEPT !.gates = @ \cup Pcie30PhyGates]
                   EXCEPT !.resets = @ \cup {Pcie30PhyReset}]
    <3>1. PICK e : e = [cru EXCEPT !.gates = cru.gates \cup Pcie30PhyGates]
      OBVIOUS
    <3>2. /\ CruOk(e) /\ e.gates = cru.gates \cup Pcie30PhyGates /\ e.pll = cru.pll
          /\ e.div = cru.div /\ e.sel = cru.sel /\ e.resets = cru.resets /\ e.sdmmc = cru.sdmmc
      BY <1>1, <3>1, UnitGates
    <3>3. cru' = [e EXCEPT !.resets = e.resets \cup {Pcie30PhyReset}]
      BY <2>4, <3>1
    <3>4. /\ CruOk(cru') /\ cru'.resets = cru.resets \cup {Pcie30PhyReset} /\ cru'.pll = cru.pll
          /\ cru'.div = cru.div /\ cru'.sel = cru.sel /\ cru'.gates = e.gates
          /\ cru'.sdmmc = cru.sdmmc
      BY <3>2, <3>3, UnitResets
    <3>5. \A s \in 0..2 : PowerupReset(s) \notin cru.resets => PowerupReset(s) \notin cru'.resets
      BY <3>4, ResetsApart
    <3>6. \A n \in 0..2 : PhyReset(n) \notin cru.resets => PhyReset(n) \notin cru'.resets
      BY <3>4, ResetsApart
    <3>7. \A g \in {0, 1} : GmacReset(g) \notin cru.resets => GmacReset(g) \notin cru'.resets
      BY <3>4, ResetsApart
    <3> QED BY <2>1, <3>2, <3>4, <3>5, <3>6, <3>7 DEF CruFrame, PllIs200MHz, FromPll
  <2> QED BY <2>2, <2>3, <2>4
<1>10. CASE Pcie30PhyRelease
  <2>1. cru' = [cru EXCEPT !.resets = cru.resets \ {Pcie30PhyReset}]
    BY <1>10 DEF Pcie30PhyRelease, CruDeassertSoftReset
  <2>2. /\ CruOk(cru') /\ cru'.resets = cru.resets \ {Pcie30PhyReset} /\ cru'.pll = cru.pll
        /\ cru'.div = cru.div /\ cru'.sel = cru.sel /\ cru'.gates = cru.gates
        /\ cru'.sdmmc = cru.sdmmc
    BY <1>1, <2>1, UnitResets
  <2> QED BY <1>10, <2>2 DEF CruFrame, PllIs200MHz, FromPll, Pcie30PhyRelease
<1>11. CASE PciSetupClocks
  <2>1. PICK e : e = [cru EXCEPT !.resets = cru.resets \ {PowerupReset(s) : s \in ClockedSegments}]
    OBVIOUS
  <2>2. /\ CruOk(e) /\ e.resets = cru.resets \ {PowerupReset(s) : s \in ClockedSegments}
        /\ e.pll = cru.pll /\ e.div = cru.div /\ e.sel = cru.sel /\ e.gates = cru.gates
        /\ e.sdmmc = cru.sdmmc
    BY <1>1, <2>1, UnitResets
  <2>3. cru' = [e EXCEPT !.gates = e.gates \cup UNION {PcieGates(s) : s \in ClockedSegments}]
    BY <1>11, <2>1 DEF PciSetupClocks, CruEnableClock, CruDeassertSoftReset
  <2>4. /\ CruOk(cru') /\ cru'.resets = e.resets /\ cru'.pll = cru.pll
        /\ cru'.div = cru.div /\ cru'.sel = cru.sel /\ cru'.sdmmc = cru.sdmmc
        /\ cru'.gates = cru.gates \cup UNION {PcieGates(s) : s \in ClockedSegments}
    BY <2>2, <2>3, UnitGates
  <2>5. cru'.resets \subseteq cru.resets /\ cru.gates \subseteq cru'.gates
    BY <2>2, <2>4
  <2> QED BY <1>11, <2>4, <2>5 DEF CruFrame, PllIs200MHz, FromPll, PciSetupClocks, PciSteps
<1>12. CASE cru' = cru /\ (hostPc' = "lock" => hostPc = "lock") /\ (hostPc' = "mode"
              => hostPc = "mode")
  BY <1>1, <1>2, <1>12 DEF CruFrame, PllIs200MHz, FromPll
<1> QED BY <1>3, <1>4, <1>5, <1>6, <1>7, <1>8, <1>9, <1>10, <1>11, <1>12,
             OthersLeaveCru DEF LeavesCru
-----------------------------------------------------------------------------
(* Who changes what: each part of the state but the clock and reset unit is  *)
(* written by the actions of its own device.                                 *)
PmicKept == pmic' = pmic /\ (hostPc' = "rails" => hostPc = "rails")
GmacKept == gmac' = gmac /\ (hostPc' = "gmac" => hostPc = "gmac")
PciKept == pci' = pci /\ (hostPc' \in PciPcs => hostPc' = hostPc)

LEMMA PhyModeGoes ==
  ASSUME HostTypeOK, RunsCall, PhyMode
  PROVE  hostPc = "mode" /\ (hostPc' = "next" \/ (hostPc' = "clocks" /\ Running = PcieCall))
<1>1. calls # <<>> /\ Running.call = "phy" /\ Running \in AllCalls
  BY TailOk DEF RunsCall, CallOf, PhyMode, PhyPcs, Running, HostTypeOK
<1>2. "then" \in DOMAIN Running => Running = PcieCall /\ Running.then = "clocks"
  BY <1>1, CallShapes
<1> QED BY <1>2 DEF PhyMode, Return

\* Every step changes the devices of one kind only.
LEMMA Owners ==
  ASSUME HostTypeOK, RunsCall, HostNext
  PROVE  /\ PmicKept \/ PmicIdentify \/ PmicUnidentified \/ PmicUnidentifiedRelease \/ PmicWrite
         /\ GmacKept \/ GmacBegin \/ GmacStep
         /\ phy' = phy \/ PhyMode
         /\ \/ PciKept \/ PhyMode \/ PciPower \/ Pcie30PhyRelease \/ SramInitDone
            \/ Pcie30PhyInitialized \/ PciSetupClocks \/ PciSetRcMode \/ PciSetupBars
            \/ PciSetupAtu \/ PciSetupLinkSpeed \/ PciResetLow \/ PciEnableLtssm
            \/ PciResetHigh \/ LinkTrains \/ PciHostBridgeGetRootBridges
         /\ ahci' = ahci \/ SataReset \/ SataResetEnds \/ SataEnable
<1> USE DEF Goto, Return, Begins, PmicKept, GmacKept, PciKept, PciPcs
<1>1. CASE PmicIdentify
  BY <1>1 DEF PmicIdentify
<1>2. CASE PmicUnidentified
  BY <1>2 DEF PmicUnidentified
<1>3. CASE PmicUnidentifiedRelease
  BY <1>3 DEF PmicUnidentifiedRelease
<1>4. CASE PmicWrite
  BY <1>4 DEF PmicWrite
<1>5. CASE PmicReturns
  BY <1>5 DEF PmicReturns
<1>6. CASE GmacBegin
  BY <1>6 DEF GmacBegin
<1>7. CASE GmacStep
  BY <1>7 DEF GmacStep
<1>8. CASE GmacReturns
  BY <1>8 DEF GmacReturns
<1>9. CASE BoardInitWiFi
  BY <1>9 DEF BoardInitWiFi
<1>10. CASE PhySetsPll
  BY <1>10 DEF PhySetsPll
<1>11. CASE PllLocks
  BY <1>11 DEF PllLocks
<1>12. CASE PllPoll
  BY <1>12 DEF PllPoll
<1>13. CASE PllGivesUp
  BY <1>13 DEF PllGivesUp
<1>14. CASE PllLockSeen
  BY <1>14 DEF PllLockSeen
<1>15. CASE PhyClocked
  BY <1>15 DEF PhyClocked
<1>16. CASE PhyMode
  <2>1. hostPc' \in {"next", "clocks"}
    BY <1>16, PhyModeGoes
  <2> QED BY <1>16, <2>1 DEF PhyMode
<1>17. CASE PciPower
  BY <1>17 DEF PciPower
<1>18. CASE Pcie30PhyRelease
  BY <1>18 DEF Pcie30PhyRelease
<1>19. CASE SramInitDone
  BY <1>19 DEF SramInitDone
<1>20. CASE Pcie30PhyPoll
  BY <1>20 DEF Pcie30PhyPoll
<1>21. CASE Pcie30PhyInitialized
  BY <1>21 DEF Pcie30PhyInitialized
<1>22. CASE Pcie30PhyTimeout
  BY <1>22 DEF Pcie30PhyTimeout, NoRootBridge
<1>23. CASE PciSetupClocks
  BY <1>23 DEF PciSetupClocks, PciSteps
<1>24. CASE PciSetRcMode
  BY <1>24 DEF PciSetRcMode, PciSteps
<1>25. CASE PciSetupBars
  BY <1>25 DEF PciSetupBars, PciSteps
<1>26. CASE PciSetupAtu
  BY <1>26 DEF PciSetupAtu
<1>27. CASE PciSetupLinkSpeed
  BY <1>27 DEF PciSetupLinkSpeed, PciSteps
<1>28. CASE PciResetLow
  BY <1>28 DEF PciResetLow, PciSteps
<1>29. CASE PciEnableLtssm
  BY <1>29 DEF PciEnableLtssm, PciSteps
<1>30. CASE PciResetHigh
  BY <1>30 DEF PciResetHigh
<1>31. CASE LinkTrains
  BY <1>31 DEF LinkTrains
<1>32. CASE PciPoll
  BY <1>32 DEF PciPoll
<1>33. CASE PciHostBridgeGetRootBridges
  BY <1>33 DEF PciHostBridgeGetRootBridges, PciIsLinkUp
<1>34. CASE LinkUpTimeout
  BY <1>34 DEF LinkUpTimeout, NoRootBridge
<1>35. CASE SataReset
  BY <1>35 DEF SataReset
<1>36. CASE SataResetEnds
  BY <1>36 DEF SataResetEnds
<1>37. CASE SataEnable
  BY <1>37 DEF SataEnable
<1> QED BY <1>1, <1>2, <1>3, <1>4, <1>5, <1>6, <1>7, <1>8, <1>9, <1>10, <1>11, <1>12, <1>13,
        <1>14, <1>15, <1>16, <1>17, <1>18, <1>19, <1>20, <1>21, <1>22, <1>23, <1>24, <1>25,
        <1>26, <1>27, <1>28, <1>29, <1>30, <1>31, <1>32, <1>33, <1>34, <1>35, <1>36,
          <1>37  DEF HostNext
\* Who goes on from the waits for the PLL, and which step is the last of a call.
PllKept == gaveUp' = gaveUp /\ (hostPc \in {"lock", "locked"} => hostPc' = hostPc)
Returning ==
  \/ PmicReturns \/ GmacReturns \/ BoardInitWiFi \/ PhyMode \/ PciPower
  \/ hostPc \in {"sram", "linkup", "hr"}

LEMMA PllMoves ==
  ASSUME HostNext
  PROVE  /\ PllKept \/ PhySetsPll \/ PllGivesUp \/ PllLockSeen \/ PhyClocked
         /\ calls' = calls \/ Returning
<1> USE DEF Goto, Return, Begins, PllKept, Returning
<1>1. CASE PmicIdentify \/ PmicUnidentified \/ PmicUnidentifiedRelease \/ PmicWrite \/ PmicReturns
  BY <1>1 DEF PmicIdentify, PmicUnidentified, PmicUnidentifiedRelease, PmicWrite, PmicReturns
<1>2. CASE GmacBegin \/ GmacStep \/ GmacReturns \/ BoardInitWiFi
  BY <1>2 DEF GmacBegin, GmacStep, GmacReturns, BoardInitWiFi
<1>3. CASE PhySetsPll \/ PllLocks \/ PllPoll \/ PllGivesUp \/ PllLockSeen \/ PhyClocked
  BY <1>3 DEF PhySetsPll, PllLocks, PllPoll, PllGivesUp, PllLockSeen, PhyClocked
<1>4. CASE PhyMode \/ PciPower
  BY <1>4 DEF PhyMode, PciPower
<1>5. CASE Pcie30PhyRelease \/ SramInitDone \/ Pcie30PhyPoll \/ Pcie30PhyInitialized
        \/ Pcie30PhyTimeout
  BY <1>5 DEF Pcie30PhyRelease, SramInitDone, Pcie30PhyPoll, Pcie30PhyInitialized,
             Pcie30PhyTimeout, NoRootBridge
<1>6. CASE PciSetupClocks \/ PciSetRcMode \/ PciSetupBars \/ PciSetupAtu \/ PciSetupLinkSpeed
  BY <1>6 DEF PciSetupClocks, PciSetRcMode, PciSetupBars, PciSetupAtu, PciSetupLinkSpeed, PciSteps
<1>7. CASE PciResetLow \/ PciEnableLtssm \/ PciResetHigh \/ LinkTrains \/ PciPoll
  BY <1>7 DEF PciResetLow, PciEnableLtssm, PciResetHigh, LinkTrains, PciPoll, PciSteps
<1>8. CASE PciHostBridgeGetRootBridges \/ LinkUpTimeout
  BY <1>8 DEF PciHostBridgeGetRootBridges, PciIsLinkUp, LinkUpTimeout, NoRootBridge
<1>9. CASE SataReset \/ SataResetEnds \/ SataEnable
  BY <1>9 DEF SataReset, SataResetEnds, SataEnable
<1> QED BY <1>1, <1>2, <1>3, <1>4, <1>5, <1>6, <1>7, <1>8, <1>9 DEF HostNext
-----------------------------------------------------------------------------
(* The types are kept.                                                       *)
PmicOk(p) ==
  /\ p = [todo |-> p.todo, vsel |-> p.vsel, on |-> p.on, faults |-> p.faults]
  /\ p.todo \in Seq(RailWrites) /\ p.vsel \in [1..9 -> Voltages] /\ p.on \subseteq 1..9
  /\ p.faults \in Nat

\* The chip at the types of its fields.
LEMMA PmicIsOk ==
  ASSUME HostTypeOK
  PROVE  PmicOk(pmic)
<1>1. pmic \in [todo : Seq(RailWrites), vsel : [1..9 -> Voltages], on : SUBSET (1..9),
        faults : Nat]
  BY DEF HostTypeOK
<1> QED BY <1>1 DEF PmicOk

\* What a board's PMIC is once it is identified, or was not.
LEMMA PmicIdentified ==
  ASSUME HostTypeOK, PmicIdentify \/ PmicUnidentified \/ PmicUnidentifiedRelease
  PROVE  /\ hostPc = "next" /\ pmic'.vsel = pmic.vsel /\ pmic'.on = pmic.on
         /\ pmic'.todo = board.rails \/ (pmic'.todo = pmic.todo /\ hostPc' = "halted")
         /\ pmic'.faults = pmic.faults \/ pmic'.faults = pmic.faults + 1
         /\ PmicOk(pmic')
<1>1. PmicOk(pmic) /\ board.rails \in Seq(RailWrites)
  BY PmicIsOk, BoardsOk DEF HostTypeOK, BoardOk
<1>2. pmic = [todo |-> pmic.todo, vsel |-> pmic.vsel, on |-> pmic.on, faults |-> pmic.faults]
  BY <1>1 DEF PmicOk
<1>3. CASE PmicIdentify
  <2>1. pmic' = [todo |-> board.rails, vsel |-> pmic.vsel, on |-> pmic.on, faults |-> pmic.faults]
    BY <1>2, <1>3 DEF PmicIdentify
  <2> QED BY <1>1, <1>3, <2>1 DEF PmicOk, PmicIdentify, Begins
<1>4. CASE PmicUnidentified
  <2>1. pmic' = [todo |-> pmic.todo, vsel |-> pmic.vsel, on |-> pmic.on,
          faults |-> pmic.faults + 1]
    BY <1>2, <1>4 DEF PmicUnidentified
  <2> QED BY <1>1, <1>4, <2>1 DEF PmicOk, PmicUnidentified, Begins, Goto
<1>5. CASE PmicUnidentifiedRelease
  <2>1. pmic' = [todo |-> board.rails, vsel |-> pmic.vsel, on |-> pmic.on,
          faults |-> pmic.faults + 1]
    BY <1>2, <1>5 DEF PmicUnidentifiedRelease
  <2>2. hostPc = "next"
    BY <1>5 DEF PmicUnidentifiedRelease, Begins
  <2>3. PmicOk(pmic')
    BY <1>1, <2>1 DEF PmicOk
  <2> QED BY <2>1, <2>2, <2>3
<1> QED BY <1>3, <1>4, <1>5

\* A write to the PMIC: it has taken it, or the transfer has failed.
LEMMA PmicWriteDoes ==
  ASSUME HostTypeOK, PmicWrite
  PROVE  LET w == Head(pmic.todo) IN
         /\ hostPc = "rails" /\ hostPc' = "rails" /\ pmic.todo # <<>> /\ w \in RailWrites
         /\ pmic'.todo = Tail(pmic.todo) /\ PmicOk(pmic')
         /\ \/ /\ pmic'.vsel = [r \in 1..9 |-> IF w.reg = "vsel" /\ r \in w.rails THEN w.v
                                                ELSE pmic.vsel[r]]
               /\ pmic'.on = IF w.reg = "power_en" THEN pmic.on \cup w.rails ELSE pmic.on
               /\ pmic'.faults = pmic.faults \/ pmic'.faults = pmic.faults + 1
            \/ pmic'.vsel = pmic.vsel /\ pmic'.on = pmic.on /\ pmic'.faults = pmic.faults + 1
<1> DEFINE w == Head(pmic.todo)
           v == [r \in 1..9 |-> IF w.reg = "vsel" /\ r \in w.rails THEN w.v ELSE pmic.vsel[r]]
           o == IF w.reg = "power_en" THEN pmic.on \cup w.rails ELSE pmic.on
<1>1. PmicOk(pmic) /\ hostPc = "rails" /\ hostPc' = "rails" /\ pmic.todo # <<>>
  BY PmicIsOk DEF PmicWrite
<1>2. w \in RailWrites /\ Tail(pmic.todo) \in Seq(RailWrites)
  BY <1>1 DEF PmicOk
<1>3. v \in [1..9 -> Voltages] /\ o \subseteq 1..9
  <2>1. w.v \in Voltages /\ w.rails \subseteq 1..9
    BY <1>2 DEF RailWrites
  <2> QED BY <1>1, <2>1 DEF PmicOk
<1>4. PICK t \in I2cWrite :
        LET after == IF t.written THEN Taken(w) ELSE pmic IN
        /\ I2cOk(t) \/ pmic.faults < MaxFaults
        /\ pmic' = [after EXCEPT !.todo = Tail(@), !.faults = IF I2cOk(t) THEN @ ELSE @ + 1]
  BY DEF PmicWrite
<1>5. I2cOk(t) => t.written
  BY <1>4 DEF I2cWrite, I2cOk, I2cStart, I2cStop, Fails, I2cWait
<1>6. Taken(w) = [pmic EXCEPT !.vsel = v, !.on = o]
  BY DEF Taken
<1> HIDE DEF w, v, o
<1>7. Taken(w) = [todo |-> pmic.todo, vsel |-> v, on |-> o, faults |-> pmic.faults]
  <2>1. pmic = [todo |-> pmic.todo, vsel |-> pmic.vsel, on |-> pmic.on, faults |-> pmic.faults]
    BY <1>1 DEF PmicOk
  <2> QED BY <1>6, <2>1
<1>8. PICK n \in Nat : n = IF I2cOk(t) THEN pmic.faults ELSE pmic.faults + 1
  BY <1>1 DEF PmicOk
<1>9. CASE t.written
  <2>1. PICK a : a = Taken(w)
    OBVIOUS
  <2>2. pmic' = [a EXCEPT !.todo = Tail(@), !.faults = IF I2cOk(t) THEN @ ELSE @ + 1]
    BY <1>4, <1>9, <2>1
  <2>3. a.todo = pmic.todo /\ a.faults = pmic.faults
    BY <1>7, <2>1
  <2>4. pmic' = [a EXCEPT !.todo = Tail(pmic.todo), !.faults = n]
    BY <1>8, <2>2, <2>3
  <2>5. a = [todo |-> pmic.todo, vsel |-> v, on |-> o, faults |-> pmic.faults]
    BY <1>7, <2>1
  <2>6. pmic' = [todo |-> Tail(pmic.todo), vsel |-> v, on |-> o, faults |-> n]
    BY <2>4, <2>5
  <2> QED BY <1>1, <1>2, <1>3, <1>8, <2>6 DEF PmicOk, w, v, o
<1>10. CASE ~t.written
  <2>1. pmic' = [pmic EXCEPT !.todo = Tail(@), !.faults = IF I2cOk(t) THEN @ ELSE @ + 1]
    BY <1>4, <1>10
  <2>2. pmic = [todo |-> pmic.todo, vsel |-> pmic.vsel, on |-> pmic.on, faults |-> pmic.faults]
    BY <1>1 DEF PmicOk
  <2>3. pmic' = [todo |-> Tail(pmic.todo), vsel |-> pmic.vsel, on |-> pmic.on, faults |-> n]
    BY <1>8, <2>1, <2>2
  <2>4. n = pmic.faults + 1
    BY <1>5, <1>8, <1>10
  <2> QED BY <1>1, <1>2, <2>3, <2>4 DEF PmicOk, w
<1> QED BY <1>9, <1>10

\* A step of BoardInitGmac.
LEMMA GmacStepDoes ==
  ASSUME HostTypeOK, GmacStep
  PROVE  /\ hostPc = "gmac" /\ hostPc' = "gmac" /\ gmac.todo # <<>>
         /\ Head(gmac.todo) \in GmacStepNames /\ gmac'.todo = Tail(gmac.todo)
         /\ gmac'.todo \in Seq(GmacStepNames)
         /\ gmac'.configured = IF Head(gmac.todo) = "configure" THEN board.macs ELSE gmac.configured
         /\ gmac'.address = IF Head(gmac.todo) = "address"
              THEN [n \in {0, 1} |-> IF n \in board.macs THEN MacAddress(n) ELSE "none"]
              ELSE gmac.address
         /\ gmac' \in [todo : Seq(GmacStepNames), configured : SUBSET {0, 1},
                       address : [{0, 1} -> {"none", "even", "odd", "otp"}]]
<1>1. /\ gmac.todo \in Seq(GmacStepNames) /\ gmac.configured \subseteq {0, 1}
      /\ gmac.address \in [{0, 1} -> {"none", "even", "odd", "otp"}]
  BY DEF HostTypeOK
<1>2. board.macs \subseteq {0, 1}
  BY BoardsOk DEF HostTypeOK, BoardOk
<1>3. hostPc = "gmac" /\ hostPc' = "gmac" /\ gmac.todo # <<>>
  BY DEF GmacStep
<1>4. Head(gmac.todo) \in GmacStepNames /\ Tail(gmac.todo) \in Seq(GmacStepNames)
  BY <1>1, <1>3
<1>5. [n \in {0, 1} |-> IF n \in board.macs THEN MacAddress(n) ELSE "none"]
        \in [{0, 1} -> {"none", "even", "odd", "otp"}]
  BY DEF MacAddress
<1>6. gmac' = [todo |-> Tail(gmac.todo),
               configured |-> IF Head(gmac.todo) = "configure" THEN board.macs ELSE gmac.configured,
               address |-> IF Head(gmac.todo) = "address"
                 THEN [n \in {0, 1} |-> IF n \in board.macs THEN MacAddress(n) ELSE "none"]
                 ELSE gmac.address]
  BY DEF GmacStep
<1> QED BY <1>1, <1>2, <1>3, <1>4, <1>5, <1>6

\* BoardInitGmac begins.
LEMMA GmacBeginDoes ==
  ASSUME HostTypeOK, GmacBegin
  PROVE  /\ hostPc = "next" /\ hostPc' = "gmac" /\ calls # <<>> /\ Running.call = "gmac"
         /\ calls' = calls /\ cru' = cru
         /\ gmac'.todo = board.gmac /\ gmac'.configured = gmac.configured
         /\ gmac'.address = gmac.address
         /\ gmac' \in [todo : Seq(GmacStepNames), configured : SUBSET {0, 1},
                       address : [{0, 1} -> {"none", "even", "odd", "otp"}]]
<1>1. gmac \in [todo : Seq(GmacStepNames), configured : SUBSET {0, 1},
                address : [{0, 1} -> {"none", "even", "odd", "otp"}]]
  BY DEF HostTypeOK
<1>2. board.gmac \in Seq(GmacStepNames)
  BY BoardsOk DEF HostTypeOK, BoardOk
<1>3. gmac' = [gmac EXCEPT !.todo = board.gmac]
  BY DEF GmacBegin
<1>4. gmac' = [todo |-> board.gmac, configured |-> gmac.configured, address |-> gmac.address]
  BY <1>1, <1>3
<1> QED BY <1>1, <1>2, <1>4 DEF GmacBegin, Begins, Goto
-----------------------------------------------------------------------------
(* The root complex.                                                         *)
LEMMA SegmentIs ==
  ASSUME HostTypeOK
  PROVE  Segment \in {0, 2} /\ board.pcie.speed \in Nat \ {0} /\ board.pcie.lanes \in Nat
BY BoardsOk DEF HostTypeOK, BoardOk, Segment

\* Only SATA controllers follow the root complex.
LEMMA OnlySataLeft ==
  ASSUME NEW s, CallsOk(s), s # <<>>, Head(s).call = "pci"
  PROVE  \A i \in 1..Len(s) : i = 1 \/ s[i].call = "sata"
<1>1. s[1].call = "pci" /\ 1 \in 1..Len(s) /\ Len(s) \in Nat
  BY TailOk
<1> QED BY <1>1 DEF CallsOk

\* Once the root complex is begun, only SATA controllers are left.
LEMMA AfterPciBegins ==
  ASSUME HostTypeOK, RunsCall, hostPc \in PciPcs
  PROVE  AfterPci
<1>1. calls # <<>> /\ Head(calls).call = "pci"
  BY DEF RunsCall, PciPcs, PhyPcs, CallOf, Running
<1> QED BY <1>1, OnlySataLeft DEF HostTypeOK, AfterPci

\* And so it stays.
LEMMA AfterPciStays ==
  ASSUME HostTypeOK, RunsCall, Flow, AfterPci
  PROVE  AfterPci'
<1> USE DEF Running, Resting1, HostPcs, PhyPcs, PciPcs, CallOf
<1>1. CallsOk(calls)
  BY DEF HostTypeOK
<1>2. calls # <<>> => /\ Head(calls) = calls[1] /\ 1 \in 1..Len(calls) /\ Len(calls) \in Nat
                      /\ Len(Tail(calls)) = Len(calls) - 1
                      /\ \A i \in 1..Len(calls) - 1 : Tail(calls)[i] = calls[i + 1]
  BY <1>1, TailOk
<1>3. \A i \in 1..Len(calls) : calls[i].call = "sata" \/ (i = 1 /\ hostPc \in PciPcs)
  BY DEF AfterPci
<1>4. CASE calls' = calls
  <2>1. hostPc \in PciPcs => hostPc' \in PciPcs
    BY <1>4 DEF Flow
  <2> QED BY <1>3, <1>4, <2>1 DEF AfterPci
<1>5. CASE calls # <<>> /\ calls' = Tail(calls)
  <2>1. \A i \in 1..Len(calls) - 1 : calls'[i] = calls[i + 1] /\ i + 1 \in 1..Len(calls)
          /\ i + 1 # 1
    BY <1>2, <1>5
  <2>2. Len(calls') = Len(calls) - 1
    BY <1>2, <1>5
  <2> QED BY <1>3, <2>1, <2>2 DEF AfterPci
<1>6. CASE hostPc = "next" /\ calls # <<>> /\ Running = Call("pci")
  <2>1. calls[1].call = "sata" /\ calls[1].call = "pci"
    BY <1>2, <1>3, <1>6 DEF Call
  <2> QED BY <2>1
<1> QED BY <1>4, <1>5, <1>6 DEF Flow

\* A PHY is set up only before the root complex is touched.
LEMMA NoPhyAfterPci ==
  ASSUME HostTypeOK, RunsCall, AfterPci
  PROVE  hostPc \notin PhyPcs
<1>1. CallsOk(calls)
  BY DEF HostTypeOK
<1>2. calls # <<>> => Head(calls) = calls[1] /\ 1 \in 1..Len(calls)
  BY <1>1, TailOk
<1> QED BY <1>2 DEF AfterPci, RunsCall, PhyPcs, PciPcs, CallOf, Running

\* What the boards do to the unit leaves the root complex clocked, and its PHY up.
LEMMA ClockedStays ==
  ASSUME HostTypeOK, CruFrame, board' = board, Clocked
  PROVE  Clocked'
<1>1. Segment' = Segment /\ Segment \in 0..2
  BY SegmentIs DEF Segment
<1> QED BY <1>1 DEF Clocked, CruFrame

LEMMA PhyUpStays ==
  ASSUME HostTypeOK, CruFrame, board' = board, phy' = phy, hostPc # "locked",
         pci.phyReady => pci'.phyReady, PhyUp
  PROVE  PhyUp'
<1>1. Segment' = Segment
  BY DEF Segment
<1> QED BY <1>1 DEF PhyUp, CruFrame

\* What the steps on the root complex leave of it.
LEMMA PciKeeps ==
  ASSUME HostTypeOK, RunsCall, PciAt, HostNext
  PROVE  /\ pci' \in PciStates /\ (pci.phyReady => pci'.phyReady) /\ (pci.rc => pci'.rc)
         /\ Untouched => Untouched' \/ PciSetupBars
<1>1. pci \in PciStates /\ board \in Boards
  BY DEF HostTypeOK
<1>2. board.pcie.powered \in BOOLEAN /\ board.pcie.speed \in Nat /\ board.pcie.lanes \in Nat
  BY <1>1, BoardsOk DEF BoardOk
<1> USE DEF PciSteps, Goto
<1>3. CASE pci' = pci
  BY <1>1, <1>3 DEF Untouched
<1>4. CASE PciPower
  <2>1. pci' = [pci EXCEPT !.powered = board.pcie.powered]
    BY <1>4 DEF PciPower
  <2> QED BY <1>1, <1>2, <2>1 DEF PciStates, Untouched
<1>5. CASE SramInitDone
  <2>1. pci' = [pci EXCEPT !.phyReady = TRUE]
    BY <1>5 DEF SramInitDone
  <2> QED BY <1>1, <2>1 DEF PciStates, Untouched
<1>6. CASE PciSetRcMode
  <2>1. pci' = [pci EXCEPT !.rc = TRUE]
    BY <1>6 DEF PciSetRcMode
  <2> QED BY <1>1, <2>1 DEF PciStates, Untouched
<1>7. CASE PciSetupBars
  <2>1. pci' = [pci EXCEPT !.roWr = TRUE, !.bridge = TRUE]
    BY <1>7 DEF PciSetupBars
  <2> QED BY <1>1, <1>7, <2>1 DEF PciStates
<1>8. CASE PciSetupAtu
  <2>1. PICK a : a = pci.atu \cup {Cardinality(pci.atu) + 1}
    OBVIOUS
  <2>2. pci' = [pci EXCEPT !.atu = a] /\ hostPc = "atu" /\ pci.atu # 1..3
    BY <1>8, <2>1 DEF PciSetupAtu
  <2>3. pci.atu \in {{}, {1}, {1, 2}} /\ pci.bridge
    BY <2>2 DEF PciAt
  <2>4. a \subseteq 1..3
    <3>1. Cardinality({}) = 0
      BY FS_EmptySet
    <3>2. IsFiniteSet({1}) /\ Cardinality({1}) = 1
      BY FS_Singleton
    <3>3. Cardinality({1} \cup {2}) = 2
      BY <3>2, FS_AddElement
    <3>4. {1, 2} = {1} \cup {2}
      OBVIOUS
    <3> QED BY <2>1, <2>3, <3>1, <3>2, <3>3, <3>4
  <2> QED BY <1>1, <2>2, <2>3, <2>4 DEF PciStates, Untouched
<1>9. CASE PciSetupLinkSpeed
  <2>1. /\ pci' = [pci EXCEPT !.roWr = FALSE, !.speed = board.pcie.speed,
             !.lanes = board.pcie.lanes]
        /\ hostPc = "atu"
    BY <1>9 DEF PciSetupLinkSpeed, LinkSpeedSet
  <2>2. pci.bridge
    BY <2>1 DEF PciAt
  <2> QED BY <1>1, <1>2, <2>1, <2>2 DEF PciStates, Untouched
<1>10. CASE PciResetLow
  <2>1. pci' = [pci EXCEPT !.perst = "low"] /\ pci.bridge
    BY <1>10 DEF PciResetLow, PciAt, Configured
  <2> QED BY <1>1, <2>1 DEF PciStates, Untouched
<1>11. CASE PciEnableLtssm
  <2>1. pci' = [pci EXCEPT !.ltssm = TRUE] /\ pci.bridge
    BY <1>11 DEF PciEnableLtssm, PciAt, Configured
  <2> QED BY <1>1, <2>1 DEF PciStates, Untouched
<1>12. CASE PciResetHigh
  <2>1. pci' = [pci EXCEPT !.perst = "high"] /\ pci.bridge
    BY <1>12 DEF PciResetHigh, PciAt, Configured
  <2> QED BY <1>1, <2>1 DEF PciStates, Untouched
<1>13. CASE LinkTrains
  <2>1. pci' = [pci EXCEPT !.link = TRUE]
    BY <1>13 DEF LinkTrains
  <2> QED BY <1>1, <2>1 DEF PciStates, Untouched
<1>14. CASE PciHostBridgeGetRootBridges
  <2>1. pci' = [pci EXCEPT !.bridges = 1]
    BY <1>14 DEF PciHostBridgeGetRootBridges
  <2> QED BY <1>1, <2>1 DEF PciStates, Untouched
<1>15. PhyMode \/ Pcie30PhyRelease \/ Pcie30PhyInitialized \/ PciSetupClocks => pci' = pci
  BY DEF PhyMode, Pcie30PhyRelease, Pcie30PhyInitialized, PciSetupClocks
<1> QED BY <1>3, <1>4, <1>5, <1>6, <1>7, <1>8, <1>9, <1>10, <1>11, <1>12, <1>13, <1>14, <1>15,
        Owners DEF PciKept

\* The way through InitializePciHost.
LEMMA PciGoes ==
  ASSUME HostTypeOK, RunsCall, HostNext, hostPc' \in PciPcs
  PROVE  \/ hostPc' = hostPc
         \/ hostPc = "next" /\ hostPc' = "pcie30phy" /\ Segment # 0
         \/ hostPc = "pcie30phy" /\ hostPc' = "sram"
         \/ hostPc = "sram" /\ hostPc' = "clocks" /\ pci.phyReady
         \/ PhyMode /\ hostPc = "mode" /\ hostPc' = "clocks" /\ Running = PcieCall
         \/ PciSetupClocks /\ hostPc = "clocks" /\ hostPc' = "rc"
         \/ PciSetRcMode /\ hostPc = "rc" /\ hostPc' = "dbi"
         \/ PciSetupBars /\ hostPc = "dbi" /\ hostPc' = "atu"
         \/ PciSetupLinkSpeed /\ hostPc = "atu" /\ hostPc' = "perst"
         \/ PciResetLow /\ hostPc = "perst" /\ hostPc' = "ltssm"
         \/ PciEnableLtssm /\ hostPc = "ltssm" /\ hostPc' = "release"
         \/ PciResetHigh /\ hostPc = "release" /\ hostPc' = "linkup"
<1> USE DEF PciSteps, Goto, Return
<1>1. PhyMode => hostPc = "mode" /\ (hostPc' = "next" \/ (hostPc' = "clocks"
        /\ Running = PcieCall))
  BY PhyModeGoes
<1>2. PciPower => hostPc' = hostPc \/ (hostPc = "next" /\ hostPc' = "pcie30phy" /\ Segment # 0)
  BY DEF PciPower
<1>3. Pcie30PhyRelease => hostPc = "pcie30phy" /\ hostPc' = "sram"
  BY DEF Pcie30PhyRelease
<1>4. SramInitDone \/ PciSetupAtu \/ LinkTrains => hostPc' = hostPc
  BY DEF SramInitDone, PciSetupAtu, LinkTrains
<1>5. Pcie30PhyInitialized => hostPc = "sram" /\ hostPc' = "clocks" /\ pci.phyReady
  BY DEF Pcie30PhyInitialized
<1>6. /\ PciSetupClocks => hostPc = "clocks" /\ hostPc' = "rc"
      /\ PciSetRcMode => hostPc = "rc" /\ hostPc' = "dbi"
      /\ PciSetupBars => hostPc = "dbi" /\ hostPc' = "atu"
      /\ PciSetupLinkSpeed => hostPc = "atu" /\ hostPc' = "perst"
  BY DEF PciSetupClocks, PciSetRcMode, PciSetupBars, PciSetupLinkSpeed
<1>7. /\ PciResetLow => hostPc = "perst" /\ hostPc' = "ltssm"
      /\ PciEnableLtssm => hostPc = "ltssm" /\ hostPc' = "release"
      /\ PciResetHigh => hostPc = "release" /\ hostPc' = "linkup"
      /\ PciHostBridgeGetRootBridges => hostPc' = "next"
  BY DEF PciResetLow, PciEnableLtssm, PciResetHigh, PciHostBridgeGetRootBridges
<1> QED BY <1>1, <1>2, <1>3, <1>4, <1>5, <1>6, <1>7, Owners DEF PciKept, PciPcs

\* The parts of PciStepped, one lemma each.
LEMMA RightSegmentKept ==
  ASSUME HostTypeOK, RunsCall, RightSegment, Flow, board' = board, HostNext
  PROVE  RightSegment'
<1>1. Segment' = Segment
  BY DEF Segment
<1>2. hostPc' \in {"pcie30phy", "sram"} => Segment # 0
  BY PciGoes DEF RightSegment, PciPcs
<1>3. CASE calls' = calls
  BY <1>1, <1>2, <1>3 DEF RightSegment
<1>4. CASE calls # <<>> /\ calls' = Tail(calls)
  <2>1. /\ Len(calls') = Len(calls) - 1 /\ Len(calls) \in Nat
        /\ \A i \in 1..Len(calls) - 1 : calls'[i] = calls[i + 1] /\ i + 1 \in 1..Len(calls)
    BY <1>4, TailOk DEF HostTypeOK
  <2> QED BY <1>1, <1>2, <2>1 DEF RightSegment
<1>5. CASE Segment = 0
  BY <1>1, <1>2, <1>5 DEF RightSegment
<1> QED BY <1>3, <1>4, <1>5 DEF Flow

\* The clocks of the controller, and of its twin where there are two.
LEMMA SetupClocksDoes ==
  ASSUME HostTypeOK, PciSetupClocks
  PROVE  Clocked'
<1>1. Segment \in {0, 2} /\ Segment \in ClockedSegments /\ CruOk(cru)
  BY SegmentIs DEF ClockedSegments, HostTypeOK
<1>2. Segment' = Segment
  BY DEF PciSetupClocks, PciSteps, Segment
<1>3. PICK e : e = [cru EXCEPT !.resets = cru.resets \ {PowerupReset(s) : s \in ClockedSegments}]
  OBVIOUS
<1>4. /\ CruOk(e) /\ e.gates = cru.gates
      /\ e.resets = cru.resets \ {PowerupReset(s) : s \in ClockedSegments}
  BY <1>1, <1>3, UnitResets
<1>5. cru' = [e EXCEPT !.gates = e.gates \cup UNION {PcieGates(s) : s \in ClockedSegments}]
  BY <1>3 DEF PciSetupClocks, CruEnableClock, CruDeassertSoftReset
<1>6. /\ cru'.resets = e.resets
      /\ cru'.gates = e.gates \cup UNION {PcieGates(s) : s \in ClockedSegments}
  BY <1>4, <1>5, UnitGates
<1>7. PowerupReset(Segment) \notin cru'.resets /\ PcieGates(Segment) \subseteq cru'.gates
  BY <1>1, <1>4, <1>6
<1> QED BY <1>2, <1>7 DEF Clocked

LEMMA PciUpKept ==
  ASSUME HostTypeOK, RunsCall, PhysClocked, RightSegment, PciUp, PciAt, Flow, board' = board,
         CruFrame, HostNext
  PROVE  PciUp'
<1>1. Segment' = Segment /\ (pci.phyReady => pci'.phyReady) /\ (pci.rc => pci'.rc)
  BY PciKeeps DEF Segment
<1>2. hostPc \in PciPcs => hostPc \notin PhyPcs /\ ~PhyMode
  BY DEF PciPcs, PhyPcs, PhyMode
<1>3. hostPc \in PciPcs => phy' = phy /\ hostPc # "locked"
  BY <1>2, Owners DEF PhyPcs
<1>4. ASSUME hostPc' \in PciPcs \ {"pcie30phy", "sram"}
      PROVE  PhyUp'
  <2>1. CASE hostPc \in PciPcs \ {"pcie30phy", "sram"}
    BY <1>1, <1>3, <2>1, PhyUpStays DEF PciUp
  <2>2. CASE hostPc = "sram" /\ hostPc' = "clocks" /\ pci.phyReady
    BY <1>1, <2>2 DEF RightSegment, PhyUp
  <2>3. CASE PhyMode /\ hostPc = "mode" /\ hostPc' = "clocks" /\ Running = PcieCall
    <3>1. calls # <<>> /\ CallsOk(calls)
      BY <2>3 DEF RunsCall, HostTypeOK
    <3>2. calls[1] = PcieCall /\ 1 \in 1..Len(calls)
      BY <2>3, <3>1, TailOk DEF Running
    <3>3. Segment = 0
      BY <3>2 DEF RightSegment
    <3>4. Running.n = 2 /\ Running.mode = "pcie"
      BY <2>3 DEF PcieCall
    <3>5. /\ cru' = [cru EXCEPT !.resets = cru.resets \ {PhyReset(2)}]
          /\ phy' = [phy EXCEPT ![2] = PhySetting] /\ PhySetting.mode = "pcie"
      BY <2>3, <3>4, PhyModeSets DEF CruDeassertSoftReset
    <3>6. cru'.resets = cru.resets \ {PhyReset(2)}
      <4>1. CruOk(cru)
        BY DEF HostTypeOK
      <4> QED BY <3>5, <4>1, UnitResets
    <3>7. phy'[2].mode = "pcie"
      <4>1. DOMAIN phy = 0..2
        BY DEF HostTypeOK
      <4> QED BY <3>5, <4>1
    <3> QED BY <1>1, <3>3, <3>6, <3>7 DEF PhyUp
  <2> QED BY <1>4, <2>1, <2>2, <2>3, PciGoes DEF PciPcs
<1>5. ASSUME hostPc' \in PciPcs \ {"pcie30phy", "sram", "clocks"}
      PROVE  Clocked'
  <2>1. CASE hostPc \in PciPcs \ {"pcie30phy", "sram", "clocks"}
    BY <2>1, ClockedStays DEF PciUp
  <2>2. CASE PciSetupClocks
    BY <2>2, SetupClocksDoes
  <2> QED BY <1>5, <2>1, <2>2, PciGoes DEF PciPcs
<1>6. ASSUME hostPc' \in PciPcs \ {"pcie30phy", "sram", "clocks", "rc"}
      PROVE  pci'.rc
  <2>1. CASE hostPc \in PciPcs \ {"pcie30phy", "sram", "clocks", "rc"}
    BY <1>1, <2>1 DEF PciUp
  <2>2. CASE PciSetRcMode
    <3>1. pci' = [pci EXCEPT !.rc = TRUE] /\ pci \in PciStates
      BY <2>2 DEF PciSetRcMode, PciSteps, HostTypeOK
    <3> QED BY <3>1 DEF PciStates
  <2> QED BY <1>6, <2>1, <2>2, PciGoes DEF PciPcs
<1> QED BY <1>4, <1>5, <1>6 DEF PciUp

LEMMA TouchedLastKept ==
  ASSUME HostTypeOK, RunsCall, PciUp, TouchedLast, PciAt, Flow, board' = board, CruFrame, HostNext
  PROVE  TouchedLast'
<1>1. (pci.phyReady => pci'.phyReady) /\ (pci.rc => pci'.rc) /\ (Untouched => Untouched'
        \/ PciSetupBars)
  BY PciKeeps
<1>2. CASE ~Untouched
  <2>1. AfterPci /\ pci.rc /\ Clocked /\ PhyUp
    BY <1>2 DEF TouchedLast
  <2>2. AfterPci'
    BY <2>1, AfterPciStays
  <2>3. hostPc \notin PhyPcs
    BY <2>1, NoPhyAfterPci
  <2>4. phy' = phy /\ hostPc # "locked"
    BY <2>3, Owners DEF PhyMode, PhyPcs
  <2>5. Clocked' /\ PhyUp'
    BY <1>1, <2>1, <2>4, ClockedStays, PhyUpStays
  <2> QED BY <1>1, <2>1, <2>2, <2>5 DEF TouchedLast
<1>3. CASE PciSetupBars
  <2>1. hostPc = "dbi" /\ phy' = phy
    BY <1>3 DEF PciSetupBars, PciSteps
  <2>2. AfterPci /\ PhyUp /\ Clocked /\ pci.rc
    BY <2>1, AfterPciBegins DEF PciUp, PciPcs
  <2>3. AfterPci' /\ Clocked' /\ PhyUp'
    BY <1>1, <2>1, <2>2, AfterPciStays, ClockedStays, PhyUpStays
  <2> QED BY <1>1, <2>2, <2>3 DEF TouchedLast
<1> QED BY <1>1, <1>2, <1>3 DEF TouchedLast

\* Before the root complex is reached nothing of it is set up.
LEMMA UntouchedBefore ==
  ASSUME HostTypeOK, RunsCall, TouchedLast
  PROVE  /\ hostPc \in PhyPcs => Untouched
         /\ hostPc = "next" /\ calls # <<>> /\ Running.call = "pci" => Untouched
<1>1. hostPc \in PhyPcs => Untouched
  BY NoPhyAfterPci DEF TouchedLast
<1>2. ASSUME hostPc = "next", calls # <<>>, Running.call = "pci"
      PROVE  Untouched
  <2>1. calls[1].call = "pci" /\ 1 \in 1..Len(calls)
    BY <1>2, TailOk DEF HostTypeOK, Running
  <2>2. ~AfterPci
    BY <1>2, <2>1 DEF AfterPci, PciPcs
  <2> QED BY <2>2 DEF TouchedLast
<1> QED BY <1>1, <1>2

LEMMA PciAtKept ==
  ASSUME HostTypeOK, RunsCall, TouchedLast, PciAt, Linked, board' = board, HostNext
  PROVE  PciAt' /\ Linked'
<1>1. pci \in PciStates
  BY DEF HostTypeOK
<1>2. /\ board.pcie.speed \in Nat \ {0} /\ board.pcie.lanes \in Nat
      /\ board'.pcie.speed = board.pcie.speed /\ board'.pcie.lanes = board.pcie.lanes
  BY SegmentIs
<1> USE DEF PciSteps, Goto, PciPcs, PhyPcs
<1>3. CASE pci' = pci /\ (hostPc' \in PciPcs => hostPc' = hostPc)
  BY <1>2, <1>3 DEF PciAt, Linked, Untouched, Configured
<1>4. CASE pci' = pci /\ Untouched /\ hostPc' \in {"pcie30phy", "sram", "clocks", "rc", "next"}
  BY <1>2, <1>4 DEF PciAt, Linked, Untouched, Configured
<1>5. CASE PhyMode
  <2>1. hostPc = "mode" /\ hostPc' \in {"next", "clocks"} /\ pci' = pci
    BY <1>5, PhyModeGoes DEF PhyMode
  <2> QED BY <1>4, <2>1, UntouchedBefore
<1>6. CASE PciPower
  <2>1. pci' = [pci EXCEPT !.powered = board.pcie.powered] /\ hostPc' \in {"next", "pcie30phy"}
    BY <1>6 DEF PciPower
  <2>2. Untouched
    BY <1>6, UntouchedBefore DEF PciPower
  <2> QED BY <1>1, <1>2, <2>1, <2>2 DEF PciStates, PciAt, Linked, Untouched, Configured
<1>7. CASE Pcie30PhyRelease \/ Pcie30PhyInitialized \/ PciSetupClocks
  <2>1. pci' = pci /\ hostPc \in {"pcie30phy", "sram", "clocks"} /\ hostPc' \in {"sram",
          "clocks", "rc"}
    BY <1>7 DEF Pcie30PhyRelease, Pcie30PhyInitialized, PciSetupClocks
  <2>2. Untouched
    BY <2>1 DEF PciAt
  <2> QED BY <1>4, <2>1, <2>2
<1>8. CASE SramInitDone
  <2>1. pci' = [pci EXCEPT !.phyReady = TRUE] /\ hostPc' = hostPc
    BY <1>8 DEF SramInitDone
  <2> QED BY <1>1, <1>2, <2>1 DEF PciStates, PciAt, Linked, Untouched, Configured
<1>9. CASE PciSetRcMode
  <2>1. pci' = [pci EXCEPT !.rc = TRUE] /\ hostPc = "rc" /\ hostPc' = "dbi"
    BY <1>9 DEF PciSetRcMode
  <2> QED BY <1>1, <1>2, <2>1 DEF PciStates, PciAt, Linked, Untouched, Configured
<1>10. CASE PciSetupBars
  <2>1. pci' = [pci EXCEPT !.roWr = TRUE, !.bridge = TRUE] /\ hostPc = "dbi" /\ hostPc' = "atu"
    BY <1>10 DEF PciSetupBars
  <2> QED BY <1>1, <1>2, <2>1 DEF PciStates, PciAt, Linked, Untouched, Configured
<1>11. CASE PciSetupAtu
  <2>1. PICK a : a = pci.atu \cup {Cardinality(pci.atu) + 1}
    OBVIOUS
  <2>2. pci' = [pci EXCEPT !.atu = a] /\ hostPc = "atu" /\ hostPc' = "atu" /\ pci.atu # 1..3
    BY <1>11, <2>1 DEF PciSetupAtu
  <2>3. a \in {{1}, {1, 2}, 1..3}
    <3>1. Cardinality({}) = 0
      BY FS_EmptySet
    <3>2. IsFiniteSet({1}) /\ Cardinality({1}) = 1
      BY FS_Singleton
    <3>3. Cardinality({1} \cup {2}) = 2
      BY <3>2, FS_AddElement
    <3>4. {1, 2} = {1} \cup {2} /\ {1, 2} \cup {3} = 1..3
      OBVIOUS
    <3>5. pci.atu \in {{}, {1}, {1, 2}}
      BY <2>2 DEF PciAt
    <3> QED BY <2>1, <3>1, <3>2, <3>3, <3>4, <3>5
  <2>4. pci.bridge /\ ~pci.ltssm /\ pci.perst = "floating"
    BY <2>2 DEF PciAt
  <2> QED BY <1>1, <2>2, <2>3, <2>4 DEF PciStates, PciAt, Linked
<1>12. CASE PciSetupLinkSpeed
  <2>1. PICK s, l : s = board.pcie.speed /\ l = board.pcie.lanes
    OBVIOUS
  <2>2. /\ pci' = [pci EXCEPT !.roWr = FALSE, !.speed = s, !.lanes = l]
        /\ hostPc = "atu" /\ hostPc' = "perst" /\ pci.atu = 1..3
    BY <1>12, <2>1 DEF PciSetupLinkSpeed, LinkSpeedSet
  <2>3. pci.bridge /\ ~pci.ltssm /\ pci.perst = "floating"
    BY <2>2 DEF PciAt
  <2>4. Configured'
    BY <1>1, <1>2, <2>1, <2>2, <2>3 DEF PciStates, Configured
  <2> QED BY <1>1, <2>2, <2>3, <2>4 DEF PciStates, PciAt, Linked
<1>13. CASE PciResetLow
  <2>1. pci' = [pci EXCEPT !.perst = "low"] /\ hostPc = "perst" /\ hostPc' = "ltssm"
    BY <1>13 DEF PciResetLow
  <2> QED BY <1>1, <1>2, <2>1 DEF PciStates, PciAt, Linked, Configured
<1>14. CASE PciEnableLtssm
  <2>1. pci' = [pci EXCEPT !.ltssm = TRUE] /\ hostPc = "ltssm" /\ hostPc' = "release"
    BY <1>14 DEF PciEnableLtssm
  <2> QED BY <1>1, <1>2, <2>1 DEF PciStates, PciAt, Linked, Configured
<1>15. CASE PciResetHigh
  <2>1. pci' = [pci EXCEPT !.perst = "high"] /\ hostPc = "release" /\ hostPc' = "linkup"
    BY <1>15 DEF PciResetHigh
  <2> QED BY <1>1, <1>2, <2>1 DEF PciStates, PciAt, Linked, Configured
<1>16. CASE LinkTrains
  <2>1. pci' = [pci EXCEPT !.link = TRUE] /\ hostPc' = hostPc
    BY <1>16 DEF LinkTrains
  <2> QED BY <1>1, <1>2, <2>1 DEF PciStates, PciAt, Linked, Untouched, Configured
<1>17. CASE PciHostBridgeGetRootBridges
  <2>1. pci' = [pci EXCEPT !.bridges = 1] /\ pci.link /\ hostPc' = "next"
    BY <1>17 DEF PciHostBridgeGetRootBridges, PciIsLinkUp, Return
  <2> QED BY <1>1, <1>2, <2>1 DEF PciStates, PciAt, Linked, Untouched, Configured
<1> QED BY <1>3, <1>5, <1>6, <1>7, <1>8, <1>9, <1>10, <1>11, <1>12, <1>13, <1>14, <1>15,
        <1>16, <1>17, Owners DEF PciKept

LEMMA PciStepsKeep ==
  ASSUME HostTypeOK, RunsCall, PhysClocked, PciStepped, HostNext
  PROVE  PciStepped'
<1>1. Flow /\ board' = board /\ CruFrame
  BY HostFlow, CruEvolves
<1> QED BY <1>1, RightSegmentKept, PciUpKept, TouchedLastKept, PciAtKept DEF PciStepped
-----------------------------------------------------------------------------
(* The types, the PHYs, the rails and the MACs.                              *)
LEMMA TypesKept ==
  ASSUME HostTypeOK, RunsCall, PhysClocked, PciAt, HostNext
  PROVE  HostTypeOK' /\ RunsCall'
<1>1. Flow /\ board' = board /\ polls' \in Nat
  BY HostFlow
<1>2. CallsOk(calls)' /\ hostPc' \in HostPcs /\ RunsCall'
  BY <1>1, FlowKeeps
<1>3. CruOk(cru)' /\ pci' \in PciStates
  BY CruEvolves, PciKeeps DEF CruFrame
<1>4. phy' \in [0..2 -> [mode : PhyModes \cup {"none"}, clk : Nat]]
  <2>1. phy \in [0..2 -> [mode : PhyModes \cup {"none"}, clk : Nat]]
    BY DEF HostTypeOK
  <2>2. ASSUME PhyMode
        PROVE  phy' \in [0..2 -> [mode : PhyModes \cup {"none"}, clk : Nat]]
    <3>1. /\ Running.mode \in PhyModes /\ phy' = [phy EXCEPT ![Running.n] = PhySetting]
          /\ PhySetting.mode = Running.mode /\ PhySetting.clk \in Nat
      BY <2>2, PhyModeSets
    <3>2. PhySetting = [mode |-> PhySetting.mode, clk |-> PhySetting.clk]
      BY DEF PhySetting
    <3>3. PhySetting \in [mode : PhyModes \cup {"none"}, clk : Nat]
      BY <3>1, <3>2
    <3> QED BY <2>1, <3>1, <3>3
  <2> QED BY <2>1, <2>2, Owners
<1>5. pmic' \in [todo : Seq(RailWrites), vsel : [1..9 -> Voltages], on : SUBSET (1..9),
        faults : Nat]
  <2>1. PmicOk(pmic')
    BY PmicIsOk, PmicIdentified, PmicWriteDoes, Owners DEF PmicKept
  <2> QED BY <2>1 DEF PmicOk
<1>6. gmac' \in [todo : Seq(GmacStepNames), configured : SUBSET {0, 1},
                 address : [{0, 1} -> {"none", "even", "odd", "otp"}]]
  BY GmacBeginDoes, GmacStepDoes, Owners DEF GmacKept, HostTypeOK
<1>7. ahci' \in [0..2 -> {"off", "reset", "idle", "enabled"}]
  <2>1. ahci \in [0..2 -> {"off", "reset", "idle", "enabled"}]
    BY DEF HostTypeOK
  <2>2. SataReset => ahci' \in [0..2 -> {"off", "reset", "idle", "enabled"}]
    BY <2>1 DEF SataReset
  <2>3. SataResetEnds => ahci' \in [0..2 -> {"off", "reset", "idle", "enabled"}]
    BY <2>1 DEF SataResetEnds
  <2>4. SataEnable => ahci' \in [0..2 -> {"off", "reset", "idle", "enabled"}]
    BY <2>1 DEF SataEnable
  <2> QED BY <2>1, <2>2, <2>3, <2>4, Owners
<1>8. gaveUp' \in BOOLEAN
  <2>1. gaveUp \in BOOLEAN
    BY DEF HostTypeOK
  <2>2. PllKept \/ PllLockSeen \/ PhyClocked => gaveUp' = gaveUp
    BY DEF PllKept, PllLockSeen, PhyClocked
  <2>3. PhySetsPll => gaveUp' = FALSE
    BY DEF PhySetsPll
  <2>4. PllGivesUp => gaveUp' = TRUE
    BY DEF PllGivesUp
  <2> QED BY <2>1, <2>2, <2>3, <2>4, PllMoves
<1> QED BY <1>1, <1>2, <1>3, <1>4, <1>5, <1>6, <1>7, <1>8 DEF HostTypeOK

\* The PHYs keep their reference.
LEMMA PhysClockedKept ==
  ASSUME HostTypeOK, RunsCall, PhysClocked, HostNext
  PROVE  PhysClocked'
<1>1. CruFrame /\ Flow
  BY CruEvolves, HostFlow
<1>2. hostPc' \in PhyPcs => PllIs200MHz'
  <2>1. hostPc' \in PhyPcs => hostPc \in PhyPcs \/ hostPc' = "lock"
    BY <1>1 DEF Flow, PhyPcs, PciPcs, CallOf, Resting1, HostPcs
  <2> QED BY <1>1, <2>1 DEF CruFrame, PhysClocked
<1>3. ASSUME hostPc' = "mode"
      PROVE  FromPll(Running.n)'
  <2>1. calls' = calls /\ hostPc \in {"locked", "mode"} /\ Running' = Running
    BY <1>1, <1>3 DEF Flow, Running
  <2>2. Running.n \in 0..2
    <3>1. calls # <<>> /\ Running.call = "phy" /\ Running \in AllCalls
      BY <2>1, TailOk DEF RunsCall, CallOf, PhyPcs, Running, HostTypeOK
    <3> QED BY <3>1, CallShapes
  <2>3. PICK n \in 0..2 : n = Running.n
    BY <2>2
  <2>4. FromPll(n)'
    BY <1>1, <1>3, <2>1, <2>3 DEF CruFrame, PhysClocked
  <2> QED BY <2>1, <2>3, <2>4 DEF FromPll
<1>4. ASSUME NEW n \in 0..2, phy'[n].mode # "none"
      PROVE  PllIs200MHz' /\ FromPll(n)' /\ phy'[n].clk = 100000
  <2>1. CASE phy'[n] = phy[n]
    BY <1>1, <1>4, <2>1 DEF CruFrame, PhysClocked
  <2>2. CASE PhyMode /\ n = Running.n
    <3>1. FromPll(n) /\ PllIs200MHz /\ phy' = [phy EXCEPT ![n] = PhySetting]
            /\ PhySetting.clk = 100000
      BY <2>2, PhyModeSets
    <3>2. DOMAIN phy = 0..2
      BY DEF HostTypeOK
    <3>3. phy'[n] = PhySetting
      BY <3>1, <3>2
    <3> QED BY <1>1, <3>1, <3>3 DEF CruFrame
  <2>3. PhyMode => n = Running.n \/ phy'[n] = phy[n]
    BY PhyModeSets DEF HostTypeOK
  <2> QED BY <2>1, <2>2, <2>3, Owners
<1> QED BY <1>2, <1>3, <1>4 DEF PhysClocked

\* A step that is done is no longer left; the others are.
LEMMA RangeOfTail ==
  ASSUME NEW S, NEW s \in Seq(S), s # <<>>
  PROVE  /\ RangeOf(s) = {Head(s)} \cup RangeOf(Tail(s)) /\ Head(s) \in S /\ Len(s) \in Nat \ {0}
         /\ Tail(s) \in Seq(S) /\ Len(Tail(s)) = Len(s) - 1 /\ Head(s) = s[1]
         /\ \A i \in 1..Len(s) - 1 : Tail(s)[i] = s[i + 1]
<1>1. /\ Head(s) \in S /\ Len(s) \in Nat \ {0} /\ Tail(s) \in Seq(S)
      /\ Len(Tail(s)) = Len(s) - 1 /\ Head(s) = s[1]
      /\ \A i \in 1..Len(s) - 1 : Tail(s)[i] = s[i + 1]
  OBVIOUS
<1>2. RangeOf(Tail(s)) = {s[i + 1] : i \in 1..Len(s) - 1}
  BY <1>1 DEF RangeOf
<1>3. \A i \in 1..Len(s) : i = 1 \/ (i - 1 \in 1..Len(s) - 1 /\ i = (i - 1) + 1)
  BY <1>1
<1>4. \A i \in 1..Len(s) - 1 : i + 1 \in 1..Len(s)
  BY <1>1
<1>5. RangeOf(s) \subseteq {s[1]} \cup {s[i + 1] : i \in 1..Len(s) - 1}
  BY <1>3 DEF RangeOf
<1>6. {s[1]} \cup {s[i + 1] : i \in 1..Len(s) - 1} \subseteq RangeOf(s)
  BY <1>1, <1>4 DEF RangeOf
<1> QED BY <1>1, <1>2, <1>5, <1>6

LEMMA VoltagesFirstTail ==
  ASSUME NEW s \in Seq(RailWrites), s # <<>>, VoltagesFirst(s)
  PROVE  /\ VoltagesFirst(Tail(s))
         /\ Head(s).reg = "power_en" => \A w \in RangeOf(s) : w.reg = "power_en"
<1>1. /\ Len(s) \in Nat \ {0} /\ Len(Tail(s)) = Len(s) - 1 /\ Head(s) = s[1]
      /\ \A i \in 1..Len(s) - 1 : Tail(s)[i] = s[i + 1]
  BY RangeOfTail
<1>2. VoltagesFirst(Tail(s))
  <2> SUFFICES ASSUME NEW i \in 1..Len(s) - 1, NEW j \in 1..Len(s) - 1, i < j,
                      Tail(s)[i].reg = "power_en"
               PROVE  Tail(s)[j].reg = "power_en"
    BY <1>1 DEF VoltagesFirst
  <2>1. i + 1 \in 1..Len(s) /\ j + 1 \in 1..Len(s) /\ i + 1 < j + 1
    BY <1>1
  <2> QED BY <1>1, <2>1 DEF VoltagesFirst
<1>3. ASSUME Head(s).reg = "power_en", NEW i \in 1..Len(s)
      PROVE  s[i].reg = "power_en"
  BY <1>1, <1>3 DEF VoltagesFirst
<1> QED BY <1>2, <1>3 DEF RangeOf

\* A rail's voltage has been written.
Written(w) == \A r \in w.rails : pmic.vsel[r] # "default"

\* No rail is turned on before its voltage is written.
LEMMA RailsWrittenKept ==
  ASSUME HostTypeOK, RunsCall, RailsWritten, HostNext
  PROVE  RailsWritten'
<1>1. board' = board /\ board.rails \in Seq(RailWrites) /\ VoltagesFirst(board.rails)
        /\ PmicOk(pmic)
  BY HostFlow, BoardsOk, PmicIsOk DEF HostTypeOK, BoardOk
<1>2. CASE PmicKept
  BY <1>1, <1>2 DEF PmicKept, RailsWritten
<1>3. CASE PmicIdentify \/ PmicUnidentified \/ PmicUnidentifiedRelease
  <2>1. /\ pmic'.vsel = pmic.vsel /\ pmic'.on = pmic.on
        /\ pmic'.todo = board.rails \/ (pmic'.todo = pmic.todo /\ hostPc' = "halted")
        /\ pmic'.faults = 0 => pmic.faults = 0
    BY <1>1, <1>3, PmicIdentified DEF PmicOk
  <2> QED BY <1>1, <2>1 DEF RailsWritten
<1>4. CASE PmicWrite
  <2> DEFINE w0 == Head(pmic.todo)
  <2>1. /\ hostPc = "rails" /\ pmic.todo # <<>> /\ w0 \in RailWrites
             /\ pmic'.todo = Tail(pmic.todo)
        /\ PmicOk(pmic')
    BY <1>4, PmicWriteDoes
  <2>2. pmic'.faults = 0 =>
          /\ pmic.faults = 0
          /\ pmic'.vsel = [r \in 1..9 |-> IF w0.reg = "vsel" /\ r \in w0.rails THEN w0.v
                                           ELSE pmic.vsel[r]]
          /\ pmic'.on = IF w0.reg = "power_en" THEN pmic.on \cup w0.rails ELSE pmic.on
    BY <1>1, <1>4, PmicWriteDoes DEF PmicOk
  <2>3. /\ RangeOf(pmic.todo) = {w0} \cup RangeOf(pmic'.todo) /\ VoltagesFirst(pmic'.todo)
        /\ w0.reg = "power_en" => \A w \in RangeOf(pmic.todo) : w.reg = "power_en"
    BY <1>1, <2>1, RangeOfTail, VoltagesFirstTail DEF RailsWritten, PmicOk
  <2>4. ASSUME pmic'.faults = 0, NEW w \in RangeOf(board.rails), w.reg = "vsel"
        PROVE  /\ w \in RangeOf(pmic'.todo) \/ Written(w)'
               /\ pmic'.on # {} => Written(w)'
    <3>1. w \in RailWrites /\ w.rails \subseteq 1..9 /\ w0.v # "default" /\ w.v # "default"
      <4>1. w \in RailWrites
        BY <1>1 DEF RangeOf
      <4> QED BY <2>1, <4>1 DEF RailWrites
    <3>2. Written(w) \/ w = w0 => Written(w)'
      BY <2>2, <2>4, <3>1 DEF Written
    <3>3. w \in RangeOf(pmic.todo) \/ Written(w)
      BY <2>1, <2>2, <2>4 DEF RailsWritten, Written
    <3>4. w \in RangeOf(pmic'.todo) \/ Written(w)'
      BY <2>3, <3>2, <3>3
    <3>5. ASSUME pmic'.on # {}
          PROVE  Written(w)
      <4>1. CASE w0.reg = "power_en"
        BY <2>3, <2>4, <3>3, <4>1
      <4>2. CASE w0.reg # "power_en"
        BY <2>2, <2>4, <3>5, <4>2 DEF RailsWritten, Written
      <4> QED BY <4>1, <4>2
    <3> QED BY <3>2, <3>4, <3>5
  <2> HIDE DEF w0
  <2> QED BY <1>1, <2>3, <2>4 DEF RailsWritten, Written
<1> QED BY <1>2, <1>3, <1>4, Owners

\* BoardInitGmac is called once: no call for it comes after the one that runs.
LEMMA GmacCalledOnce ==
  ASSUME HostTypeOK, Flow, (hostPc' = "gmac" => hostPc = "gmac") \/ hostPc # "next",
         \A i \in 1..Len(calls) : calls[i].call = "gmac" => i = 1 /\ hostPc = "gmac"
  PROVE  \A i \in 1..Len(calls') : calls'[i].call = "gmac" => i = 1 /\ hostPc' = "gmac"
<1> USE DEF Running, Resting1, HostPcs, PhyPcs, PciPcs, CallOf
<1>1. CallsOk(calls)
  BY DEF HostTypeOK
<1>2. CASE calls # <<>> /\ calls' = Tail(calls)
  <2>1. /\ Len(calls) \in Nat /\ Len(calls') = Len(calls) - 1
        /\ \A i \in 1..Len(calls) - 1 :
             calls'[i] = calls[i + 1] /\ i + 1 \in 1..Len(calls) /\ i + 1 # 1
    BY <1>1, <1>2, TailOk
  <2> QED BY <2>1
<1>3. CASE hostPc = "next" /\ calls # <<>> /\ Running = Call("pci")
             /\ calls' = <<PcieCall>> \o calls
  <2>1. /\ Len(calls') = Len(calls) + 1 /\ calls'[1] = PcieCall /\ Len(calls) \in Nat
        /\ \A i \in 1..Len(calls) : calls'[i + 1] = calls[i]
    BY <1>1, <1>3, PcieCallBefore, TailOk
  <2>2. \A i \in 1..Len(calls') : i = 1 \/ (i - 1 \in 1..Len(calls) /\ calls'[i] = calls[i - 1])
    BY <2>1
  <2>3. PcieCall.call # "gmac"
    BY DEF PcieCall
  <2> QED BY <1>3, <2>1, <2>2, <2>3
<1>4. CASE calls' = calls /\ (hostPc = "gmac" => hostPc' = "gmac")
  BY <1>4
<1>5. calls' = calls => (hostPc = "gmac" => hostPc' = "gmac")
  BY DEF Flow
<1> QED BY <1>2, <1>3, <1>4, <1>5 DEF Flow

\* What is left of the steps of a MAC is in order.
LEMMA GmacOrderTail ==
  ASSUME NEW s \in Seq(GmacStepNames), s # <<>>, GmacOrder(s)
  PROVE  /\ GmacOrder(Tail(s)) /\ "assert" \notin RangeOf(Tail(s))
         /\ Head(s) = "address" =>
              "configure" \notin RangeOf(Tail(s)) /\ "release" \notin RangeOf(Tail(s))
<1>1. /\ Len(s) \in Nat \ {0} /\ Len(Tail(s)) = Len(s) - 1 /\ Head(s) = s[1]
      /\ \A i \in 1..Len(s) - 1 : Tail(s)[i] = s[i + 1] /\ i + 1 \in 1..Len(s) /\ 1 < i + 1
  BY RangeOfTail
<1>2. GmacOrder(Tail(s))
  <2> SUFFICES ASSUME NEW i \in 1..Len(s) - 1, NEW j \in 1..Len(s) - 1, i < j
               PROVE  /\ Tail(s)[i] = "address" => Tail(s)[j] \notin {"assert", "configure",
                           "release"}
                      /\ Tail(s)[j] # "assert"
    BY <1>1 DEF GmacOrder
  <2>1. i + 1 \in 1..Len(s) /\ j + 1 \in 1..Len(s) /\ i + 1 < j + 1
    BY <1>1
  <2> QED BY <1>1, <2>1 DEF GmacOrder
<1>3. ASSUME NEW i \in 1..Len(s) - 1
      PROVE  /\ Tail(s)[i] # "assert"
             /\ Head(s) = "address" => Tail(s)[i] \notin {"configure", "release"}
  <2>1. 1 \in 1..Len(s) /\ i + 1 \in 1..Len(s) /\ 1 < i + 1 /\ Tail(s)[i] = s[i + 1]
          /\ Head(s) = s[1]
    BY <1>1
  <2> QED BY <2>1 DEF GmacOrder
<1> QED BY <1>1, <1>2, <1>3 DEF RangeOf

\* What a step of BoardInitGmac does to the resets of the controllers.
LEMMA GmacStepResets ==
  ASSUME HostTypeOK, GmacStep
  PROVE  /\ Head(gmac.todo) = "release" => \A n \in board.macs : GmacReset(n) \notin cru'.resets
         /\ Head(gmac.todo) \notin {"assert", "release"} => cru' = cru
<1>1. CruOk(cru)
  BY DEF HostTypeOK
<1>2. Head(gmac.todo) \notin {"assert", "release"} => cru' = cru
  BY DEF GmacStep
<1>3. ASSUME Head(gmac.todo) = "release"
      PROVE  \A n \in board.macs : GmacReset(n) \notin cru'.resets
  <2>1. PICK r : r = cru.resets \ {GmacReset(n) : n \in board.macs}
    OBVIOUS
  <2>2. cru' = [cru EXCEPT !.resets = r]
    BY <1>3, <2>1 DEF GmacStep, CruDeassertSoftReset
  <2>3. cru'.resets = r
    BY <1>1, <2>2, UnitResets
  <2> QED BY <2>1, <2>3
<1> QED BY <1>2, <1>3

LEMMA LeftIs ==
  \A step : Left(step) <=> step \in RangeOf(gmac.todo)
BY DEF Left, RangeOf

\* What is left of BoardInitGmac tells what has been done.
LEMMA MacsSteppedKept ==
  ASSUME HostTypeOK, RunsCall, PhysClocked, MacsStepped, HostNext
  PROVE  MacsStepped'
<1>1. /\ Flow /\ board' = board /\ CruFrame /\ board.macs \subseteq {0, 1}
      /\ MacAddress(0)' = MacAddress(0) /\ MacAddress(1)' = MacAddress(1)
  BY HostFlow, CruEvolves, BoardsOk DEF HostTypeOK, BoardOk, MacAddress
<1>2. CASE GmacKept
  <2>1. gmac' = gmac /\ (hostPc' = "gmac" => hostPc = "gmac")
          /\ \A step : Left(step)' <=> Left(step)
    BY <1>2 DEF GmacKept, Left
  <2>2. hostPc = "gmac" /\ Left("assert") => \A n \in {0, 1} : gmac.address[n] = "none"
    BY DEF MacsStepped
  <2>3. Asserts("assert") => hostPc = "gmac" /\ Left("assert")
    <3>1. ASSUME gmac.todo # <<>>, Head(gmac.todo) = "assert"
          PROVE  Left("assert")
      <4>1. gmac.todo \in Seq(GmacStepNames)
        BY DEF HostTypeOK
      <4> QED BY <3>1, <4>1, RangeOfTail, LeftIs
    <3> QED BY <3>1 DEF Asserts
  <2>4. \/ hostPc = "gmac" /\ Left("assert")
        \/ \A n \in {0, 1} : GmacReset(n) \notin cru.resets => GmacReset(n) \notin cru'.resets
    BY <1>1, <2>3 DEF CruFrame
  <2>5. (\A n \in {0, 1} : gmac.address[n] = "none")
          \/ (\A i \in 1..Len(calls') : calls'[i].call = "gmac" => i = 1 /\ hostPc' = "gmac")
    BY <1>1, <2>1, GmacCalledOnce DEF MacsStepped
  <2>6. (\A n \in {0, 1} : gmac'.address[n] = "none")
          \/ ((hostPc' # "gmac" \/ ~Left("assert")')
                /\ (\A i \in 1..Len(calls') : calls'[i].call = "gmac" => i = 1
                     /\ hostPc' = "gmac"))
    BY <2>1, <2>2, <2>5
  <2>7. hostPc' = "gmac" => GmacOrder(gmac'.todo)
    BY <2>1 DEF MacsStepped
  <2>8. hostPc' = "gmac" /\ Left("assert")' => Left("configure")' /\ Left("release")'
    BY <2>1 DEF MacsStepped
  <2>9. hostPc' = "gmac" /\ ~Left("assert")' =>
          /\ Left("configure")' \/ board.macs \subseteq gmac'.configured
          /\ Left("release")' \/ \A n \in board.macs : GmacReset(n) \notin cru'.resets
    BY <1>1, <2>1, <2>4 DEF MacsStepped
  <2>10. \A n \in {0, 1} : gmac'.address[n] # "none" =>
           n \in board.macs /\ n \in gmac'.configured /\ GmacReset(n) \notin cru'.resets
             /\ gmac'.address[n] = MacAddress(n)
    BY <2>1, <2>2, <2>4 DEF MacsStepped
  <2> QED BY <1>1, <2>6, <2>7, <2>8, <2>9, <2>10 DEF MacsStepped
<1>3. CASE GmacBegin
  <2>1. /\ hostPc = "next" /\ hostPc' = "gmac" /\ calls # <<>> /\ Running.call = "gmac"
             /\ cru' = cru
        /\ gmac'.todo = board.gmac /\ gmac'.address = gmac.address
    BY <1>3, GmacBeginDoes
  <2>2. calls[1].call = "gmac" /\ 1 \in 1..Len(calls)
    BY <2>1, TailOk DEF HostTypeOK, Running
  <2>3. \A n \in {0, 1} : gmac'.address[n] = "none"
    BY <2>1, <2>2 DEF MacsStepped
  <2>4. /\ GmacOrder(board.gmac)
        /\ (board.macs = {} /\ board.gmac = <<>>)
             \/ {"assert", "configure", "release"} \subseteq RangeOf(board.gmac)
    BY BoardsOk DEF HostTypeOK, BoardOk
  <2>5. \A step : Left(step)' <=> step \in RangeOf(board.gmac)
    BY <2>1 DEF Left, RangeOf
  <2>6. GmacOrder(gmac'.todo)
    BY <2>1, <2>4
  <2>7. Left("assert")' => Left("configure")' /\ Left("release")'
    BY <2>4, <2>5 DEF RangeOf
  <2>8. ~Left("assert")' => board.macs = {}
    BY <2>4, <2>5
  <2> QED BY <1>1, <2>3, <2>6, <2>7, <2>8 DEF MacsStepped
<1>4. CASE GmacStep
  <2> DEFINE h == Head(gmac.todo)
  <2>1. /\ hostPc = "gmac" /\ hostPc' = "gmac" /\ gmac.todo # <<>> /\ gmac'.todo = Tail(gmac.todo)
        /\ gmac'.configured = IF h = "configure" THEN board.macs ELSE gmac.configured
        /\ gmac'.address = IF h = "address"
              THEN [n \in {0, 1} |-> IF n \in board.macs THEN MacAddress(n) ELSE "none"]
              ELSE gmac.address
        /\ gmac.todo \in Seq(GmacStepNames)
    BY <1>4, GmacStepDoes DEF HostTypeOK
  <2>2. GmacOrder(gmac.todo)
    BY <2>1 DEF MacsStepped
  <2>3. /\ GmacOrder(gmac'.todo) /\ "assert" \notin RangeOf(gmac'.todo)
        /\ h = "address" => "configure" \notin RangeOf(gmac'.todo)
             /\ "release" \notin RangeOf(gmac'.todo)
    BY <2>1, <2>2, GmacOrderTail
  <2>4. RangeOf(gmac.todo) = {h} \cup RangeOf(gmac'.todo)
    BY <2>1, RangeOfTail
  <2>5. \A step : Left(step)' <=> step \in RangeOf(gmac'.todo)
    BY DEF Left, RangeOf
  <2>6. /\ h = "release" => \A n \in board.macs : GmacReset(n) \notin cru'.resets
        /\ h \notin {"assert", "release"} => cru' = cru
    BY <1>4, GmacStepResets
  <2> HIDE DEF h
  <2>7. ~Left("assert")'
    BY <2>3, <2>5
  <2>8. Left("assert") <=> h = "assert"
    BY <2>3, <2>4, LeftIs
  <2>9. \A step \in {"configure", "release"} : Left(step) <=> h = step \/ Left(step)'
    BY <2>4, <2>5, LeftIs
  <2>10. Left("configure")' \/ board.macs \subseteq gmac'.configured
    BY <2>1, <2>8, <2>9 DEF MacsStepped
  <2>11. Left("release")' \/ \A n \in board.macs : GmacReset(n) \notin cru'.resets
    BY <2>1, <2>6, <2>8, <2>9 DEF MacsStepped
  <2>12. ASSUME NEW n \in {0, 1}, gmac'.address[n] # "none"
         PROVE  n \in board.macs /\ n \in gmac'.configured /\ GmacReset(n) \notin cru'.resets
                  /\ gmac'.address[n] = MacAddress(n)
    <3>1. CASE h = "address"
      <4>1. n \in board.macs /\ gmac'.address[n] = MacAddress(n)
        BY <2>1, <2>12, <3>1
      <4>2. ~Left("configure")' /\ ~Left("release")'
        BY <2>3, <2>5, <3>1
      <4> QED BY <2>10, <2>11, <4>1, <4>2
    <3>2. CASE h # "address"
      <4>1. gmac'.address = gmac.address /\ gmac.address[n] # "none"
        BY <2>1, <2>12, <3>2
      <4>2. /\ n \in board.macs /\ n \in gmac.configured /\ GmacReset(n) \notin cru.resets
            /\ gmac.address[n] = MacAddress(n) /\ h # "assert"
        BY <2>1, <2>8, <4>1 DEF MacsStepped
      <4>3. GmacReset(n) \notin cru'.resets
        BY <2>6, <4>2
      <4> QED BY <2>1, <4>1, <4>2, <4>3
    <3> QED BY <3>1, <3>2
  <2>13. \A i \in 1..Len(calls') : calls'[i].call = "gmac" => i = 1 /\ hostPc' = "gmac"
    <3>1. calls' = calls /\ calls # <<>> /\ Running.call = "gmac"
      <4>1. calls' = calls
        BY <1>4 DEF GmacStep
      <4>2. calls # <<>> /\ Running.call = "gmac"
        BY <2>1 DEF RunsCall, CallOf, PhyPcs
      <4> QED BY <4>1, <4>2
    <3>2. calls[1].call = "gmac" /\ 1 \in 1..Len(calls) /\ Len(calls) \in Nat
      BY <3>1, TailOk DEF HostTypeOK, Running
    <3>3. \A i \in 1..Len(calls) : 1 < i => calls[i].call # "gmac"
      BY <2>1, <3>2 DEF HostTypeOK, CallsOk
    <3>4. \A i \in 1..Len(calls) : calls[i].call = "gmac" => i = 1
      BY <3>2, <3>3
    <3> QED BY <2>1, <3>1, <3>4
  <2> QED BY <1>1, <2>1, <2>3, <2>7, <2>10, <2>11, <2>12, <2>13 DEF MacsStepped
<1> QED BY <1>2, <1>3, <1>4, Owners
-----------------------------------------------------------------------------
(* The PLL, and the PHYs of the SATA controllers.                            *)

\* Only the PHYs' own calls, and the PLL itself, change it.
LEMMA PllStays ==
  ASSUME HostTypeOK, RunsCall, PhysClocked, HostNext
  PROVE  cru'.pll = cru.pll \/ PhySetsPll \/ PllLocks \/ PhyClocked
<1>1. CruOk(cru)
  BY DEF HostTypeOK
<1>2. CASE GmacStep
  <2> DEFINE resets == {GmacReset(n) : n \in board.macs}
  <2>1. \/ cru' = cru
        \/ cru' = [cru EXCEPT !.resets = @ \cup resets]
        \/ cru' = [cru EXCEPT !.resets = @ \ resets]
    BY <1>2 DEF GmacStep, CruAssertSoftReset, CruDeassertSoftReset
  <2> HIDE DEF resets
  <2>2. CASE cru' = [cru EXCEPT !.resets = @ \cup resets]
    BY <1>1, <2>2, UnitResets
  <2>3. CASE cru' = [cru EXCEPT !.resets = @ \ resets]
    BY <1>1, <2>3, UnitResets
  <2> QED BY <2>1, <2>2, <2>3
<1>3. CASE BoardInitWiFi
  <2>1. PICK i \in board.sdmmc : cru' = [cru EXCEPT !.sdmmc = CruSetSdmmcClockRate(@, i, 100000)]
    BY <1>3 DEF BoardInitWiFi
  <2>2. cru' = [pll |-> cru.pll, div |-> cru.div, sel |-> cru.sel, gates |-> cru.gates,
                resets |-> cru.resets, sdmmc |-> CruSetSdmmcClockRate(cru.sdmmc, i, 100000)]
    BY <1>1, <2>1 DEF CruOk
  <2> QED BY <2>2
<1>4. CASE PhyMode
  <2>1. PICK r : cru' = [cru EXCEPT !.resets = r]
    BY <1>4, PhyModeSets DEF CruDeassertSoftReset
  <2> QED BY <1>1, <2>1, UnitResets
<1>5. CASE PciPower
  <2>1. PICK e : e = [cru EXCEPT !.gates = cru.gates \cup Pcie30PhyGates]
    OBVIOUS
  <2>2. CruOk(e) /\ e.pll = cru.pll
    BY <1>1, <2>1, UnitGates
  <2>3. cru' = cru \/ cru' = [e EXCEPT !.resets = e.resets \cup {Pcie30PhyReset}]
    BY <1>5, <2>1 DEF PciPower, CruAssertSoftReset, CruEnableClock
  <2>4. CASE cru' = [e EXCEPT !.resets = e.resets \cup {Pcie30PhyReset}]
    BY <2>2, <2>4, UnitResets
  <2> QED BY <2>3, <2>4
<1>6. CASE Pcie30PhyRelease
  <2>1. PICK r : cru' = [cru EXCEPT !.resets = r]
    BY <1>6 DEF Pcie30PhyRelease, CruDeassertSoftReset
  <2> QED BY <1>1, <2>1, UnitResets
<1>7. CASE PciSetupClocks
  <2>1. PICK e : e = [cru EXCEPT !.resets = cru.resets \ {PowerupReset(s) : s \in ClockedSegments}]
    OBVIOUS
  <2>2. CruOk(e) /\ e.pll = cru.pll
    BY <1>1, <2>1, UnitResets
  <2>3. cru' = [e EXCEPT !.gates = e.gates \cup UNION {PcieGates(s) : s \in ClockedSegments}]
    BY <1>7, <2>1 DEF PciSetupClocks, CruEnableClock, CruDeassertSoftReset
  <2> QED BY <2>2, <2>3, UnitGates
<1> QED BY <1>2, <1>3, <1>4, <1>5, <1>6, <1>7, OthersLeaveCru DEF LeavesCru

\* A wait that was not given up ends with the PLL locked.
LEMMA PllReadyKept ==
  ASSUME HostTypeOK, RunsCall, PhysClocked, PllReady, HostNext
  PROVE  PllReady'
<1>1. CASE PllGivesUp
  BY <1>1 DEF PllGivesUp, PllReady
<1>2. CASE PhySetsPll
  BY <1>2 DEF PhySetsPll, Begins, Goto, PllReady
<1>3. CASE PllLocks
  <2>1. cru' = [cru EXCEPT !.pll = [cru.pll EXCEPT !.locked = TRUE]] /\ CruOk(cru)
    BY <1>3 DEF PllLocks, HostTypeOK
  <2>2. [cru.pll EXCEPT !.locked = TRUE] \in Plls
    BY <2>1 DEF CruOk, Plls
  <2>3. cru'.pll = [cru.pll EXCEPT !.locked = TRUE]
    BY <2>1, <2>2, UnitPll
  <2>4. cru'.pll.locked /\ cru'.pll.normal = cru.pll.normal
    BY <2>1, <2>3 DEF CruOk, Plls
  <2> QED BY <1>3, <2>4 DEF PllLocks, PllReady
<1>4. CASE PllLockSeen
  BY <1>4 DEF PllLockSeen, Goto, PllReady
<1>5. CASE PhyClocked
  <2>1. PICK x : cru' = CruAssertSoftReset(CruSetPciePhyClockRate(cru, Running.n), x)
    BY <1>5 DEF PhyClocked
  <2>2. Running.n \in 0..2
    <3>1. calls # <<>> /\ Running.call = "phy" /\ Running \in AllCalls
      BY <1>5, TailOk DEF PhyClocked, RunsCall, CallOf, PhyPcs, Running, HostTypeOK
    <3> QED BY <3>1, CallShapes
  <2>3. cru'.pll.normal /\ cru'.pll.locked = cru.pll.locked
    BY <2>1, <2>2, PhyClockSet DEF HostTypeOK
  <2> QED BY <1>5, <2>3 DEF PhyClocked, Goto, PllReady
<1>6. CASE PllKept /\ cru'.pll = cru.pll
  BY <1>6 DEF PllKept, PllReady
<1> QED BY <1>1, <1>2, <1>3, <1>4, <1>5, <1>6, PllMoves, PllStays

\* Where only SATA controllers are left no PHY is being set up.
LEMMA OnlySataRuns ==
  ASSUME HostTypeOK, RunsCall, OnlySata
  PROVE  hostPc \notin PhyPcs /\ (calls # <<>> => Running.call = "sata")
<1>1. CallsOk(calls)
  BY DEF HostTypeOK
<1>2. calls # <<>> => Running = calls[1] /\ 1 \in 1..Len(calls)
  BY <1>1, TailOk DEF Running
<1> QED BY <1>2 DEF OnlySata, RunsCall, PhyPcs, CallOf

\* And only they are left from then on.
LEMMA OnlySataStays ==
  ASSUME HostTypeOK, RunsCall, Flow, OnlySata
  PROVE  OnlySata'
<1>1. CallsOk(calls) /\ (calls # <<>> => Running.call = "sata")
  BY OnlySataRuns DEF HostTypeOK
<1>2. calls' = calls \/ (calls # <<>> /\ calls' = Tail(calls))
  BY <1>1 DEF Flow, Call, PcieCall
<1>3. CASE calls' = calls
  BY <1>3 DEF OnlySata
<1>4. CASE calls # <<>> /\ calls' = Tail(calls)
  <2>1. /\ Len(calls') = Len(calls) - 1 /\ Len(calls) \in Nat
        /\ \A i \in 1..Len(calls) - 1 : calls'[i] = calls[i + 1] /\ i + 1 \in 1..Len(calls)
    BY <1>1, <1>4, TailOk
  <2> QED BY <2>1 DEF OnlySata
<1> QED BY <1>2, <1>3, <1>4

\* A PHY that is set up stays so, but where its own call runs again.
LEMMA PhyDoneStays ==
  ASSUME HostTypeOK, RunsCall, PhysClocked, HostNext, NEW n \in 0..2, PhyDone(n)
  PROVE  PhyDone(n)' \/ (PhyClocked /\ n = Running.n)
<1>1. CruFrame
  BY CruEvolves
<1>2. phy'[n].mode # "none"
  <2>1. CASE phy' = phy
    BY <2>1 DEF PhyDone
  <2>2. CASE PhyMode
    <3>1. /\ phy' = [phy EXCEPT ![Running.n] = PhySetting] /\ PhySetting.mode \in PhyModes
          /\ phy \in [0..2 -> [mode : PhyModes \cup {"none"}, clk : Nat]]
      BY <2>2, PhyModeSets DEF HostTypeOK
    <3>2. PhySetting.mode # "none"
      BY <3>1 DEF PhyModes
    <3>3. phy'[n] = IF n = Running.n THEN PhySetting ELSE phy[n]
      BY <3>1
    <3> QED BY <3>2, <3>3 DEF PhyDone
  <2> QED BY <2>1, <2>2, Owners
<1>3. CASE hostPc # "locked"
  BY <1>1, <1>2, <1>3 DEF PhyDone, CruFrame
<1>4. CASE hostPc = "locked"
  <2>1. PhyClocked \/ PllLocks \/ cru' = cru
    BY <1>4, OthersLeaveCru DEF LeavesCru, GmacStep, BoardInitWiFi, PhySetsPll, Begins, PhyMode,
           PciPower, Pcie30PhyRelease, PciSetupClocks, PciSteps
  <2>2. CASE cru' = cru
    BY <1>2, <2>2 DEF PhyDone
  <2>3. CASE PllLocks
    <3>1. cru' = [cru EXCEPT !.pll = [cru.pll EXCEPT !.locked = TRUE]] /\ CruOk(cru)
      BY <2>3 DEF PllLocks, HostTypeOK
    <3>2. [cru.pll EXCEPT !.locked = TRUE] \in Plls
      BY <3>1 DEF CruOk, Plls
    <3>3. cru'.resets = cru.resets
      BY <3>1, <3>2, UnitPll
    <3> QED BY <1>2, <3>3 DEF PhyDone
  <2>4. CASE PhyClocked
    <3>1. PICK x : /\ x = {PhyReset(Running.n)}
                   /\ cru' = CruAssertSoftReset(CruSetPciePhyClockRate(cru, Running.n), x)
      BY <2>4 DEF PhyClocked
    <3>2. Running.n \in 0..2
      <4>1. calls # <<>> /\ Running.call = "phy" /\ Running \in AllCalls
        BY <2>4, TailOk DEF PhyClocked, RunsCall, CallOf, PhyPcs, Running, HostTypeOK
      <4> QED BY <4>1, CallShapes
    <3>3. cru'.resets = cru.resets \cup x
      BY <3>1, <3>2, PhyClockSet DEF HostTypeOK
    <3>4. n # Running.n => PhyReset(n) # PhyReset(Running.n)
      BY <3>2 DEF PhyReset
    <3> QED BY <1>2, <2>4, <3>1, <3>3, <3>4 DEF PhyDone
  <2> QED BY <2>1, <2>2, <2>3, <2>4
<1> QED BY <1>3, <1>4

\* The call of a PHY stays among those left until it has set the PHY up.
LEMMA PhyCallStays ==
  ASSUME HostTypeOK, RunsCall, PhysClocked, Flow, HostNext, NEW n \in 0..2, PhyIn(calls, n)
  PROVE  PhyIn(calls', n) \/ PhyDone(n)'
<1>1. PICK j \in 1..Len(calls) : calls[j].call = "phy" /\ calls[j].n = n
  BY DEF PhyIn
<1>2. CallsOk(calls) /\ calls # <<>> /\ Len(calls) \in Nat
  <2>1. CallsOk(calls) /\ calls \in Seq(AllCalls)
    BY DEF HostTypeOK, CallsOk
  <2> QED BY <1>1, <2>1
<1>3. CASE calls' = calls
  BY <1>1, <1>3 DEF PhyIn
<1>4. CASE calls' = Tail(calls) /\ j # 1
  <2>1. Len(calls') = Len(calls) - 1 /\ \A i \in 1..Len(calls) - 1 : calls'[i] = calls[i + 1]
    BY <1>2, <1>4, TailOk
  <2>2. j - 1 \in 1..Len(calls') /\ calls'[j - 1] = calls[j]
    BY <1>2, <1>4, <2>1
  <2> QED BY <1>1, <2>2 DEF PhyIn
<1>5. CASE Running = Call("pci") /\ calls' = <<PcieCall>> \o calls
  <2>1. Len(calls') = Len(calls) + 1 /\ \A i \in 1..Len(calls) : calls'[i + 1] = calls[i]
    BY <1>2, <1>5, PcieCallBefore DEF Running
  <2>2. j + 1 \in 1..Len(calls') /\ calls'[j + 1] = calls[j]
    BY <1>2, <2>1
  <2> QED BY <1>1, <2>2 DEF PhyIn
<1>6. CASE calls' # calls /\ j = 1
  <2>1. Running.call = "phy" /\ Running.n = n
    BY <1>1, <1>2, <1>6, TailOk DEF Running
  <2>2. PhyMode
    <3>1. hostPc \notin {"sram", "linkup", "hr"}
      BY <2>1 DEF RunsCall, CallOf, PhyPcs
    <3>2. ~PmicReturns /\ ~GmacReturns /\ ~BoardInitWiFi /\ ~PciPower
      BY <2>1 DEF PmicReturns, GmacReturns, BoardInitWiFi, PciPower, RunsCall, CallOf, PhyPcs
    <3> QED BY <1>6, <3>1, <3>2, PllMoves DEF Returning
  <2>3. /\ phy' = [phy EXCEPT ![n] = PhySetting] /\ PhySetting.mode \in PhyModes
        /\ cru' = [cru EXCEPT !.resets = cru.resets \ {PhyReset(n)}] /\ CruOk(cru)
        /\ phy \in [0..2 -> [mode : PhyModes \cup {"none"}, clk : Nat]]
    BY <2>1, <2>2, PhyModeSets DEF CruDeassertSoftReset, HostTypeOK
  <2>4. cru'.resets = cru.resets \ {PhyReset(n)}
    BY <2>3, UnitResets
  <2>5. phy'[n].mode # "none"
    BY <2>3 DEF PhyModes
  <2> QED BY <2>4, <2>5 DEF PhyDone
<1>7. \/ calls' = calls \/ calls' = Tail(calls)
      \/ Running = Call("pci") /\ calls' = <<PcieCall>> \o calls
  BY DEF Flow
<1> QED BY <1>3, <1>4, <1>5, <1>6, <1>7

\* What is left was left before, or is the call of the PHY of the root complex.
LEMMA SataWasLeft ==
  ASSUME HostTypeOK, Flow, NEW i \in 1..Len(calls'), calls'[i].call = "sata"
  PROVE  \E k \in 1..Len(calls) : calls[k] = calls'[i]
<1>1. CallsOk(calls)
  BY DEF HostTypeOK
<1>2. CASE calls' = calls
  BY <1>2
<1>3. CASE calls # <<>> /\ calls' = Tail(calls)
  <2>1. /\ Len(calls') = Len(calls) - 1 /\ Len(calls) \in Nat
        /\ \A k \in 1..Len(calls) - 1 : calls'[k] = calls[k + 1] /\ k + 1 \in 1..Len(calls)
    BY <1>1, <1>3, TailOk
  <2> QED BY <2>1
<1>4. CASE calls # <<>> /\ Running = Call("pci") /\ calls' = <<PcieCall>> \o calls
  <2>1. /\ Len(calls') = Len(calls) + 1 /\ calls'[1] = PcieCall /\ Len(calls) \in Nat
        /\ \A k \in 1..Len(calls) : calls'[k + 1] = calls[k]
    BY <1>1, <1>4, PcieCallBefore, TailOk DEF Running
  <2>2. i # 1
    BY <2>1 DEF PcieCall
  <2>3. i - 1 \in 1..Len(calls) /\ calls'[(i - 1) + 1] = calls[i - 1] /\ (i - 1) + 1 = i
    BY <2>1, <2>2
  <2> QED BY <2>3
<1> QED BY <1>2, <1>3, <1>4 DEF Flow

\* Only the call of a SATA controller begins with it.
LEMMA AhciBegins ==
  ASSUME HostTypeOK, RunsCall, HostNext, NEW n \in 0..2, ahci'[n] # "off"
  PROVE  ahci[n] # "off" \/ (SataReset /\ n = Running.n)
<1>1. ahci \in [0..2 -> {"off", "reset", "idle", "enabled"}]
  BY DEF HostTypeOK
<1>2. CASE ahci' = ahci
  BY <1>2
<1>3. CASE SataReset
  BY <1>1, <1>3 DEF SataReset
<1>4. CASE SataResetEnds
  BY <1>1, <1>4 DEF SataResetEnds
<1>5. CASE SataEnable
  <2>1. ahci[Running.n] = "idle" /\ ahci' = [ahci EXCEPT ![Running.n] = "enabled"]
    BY <1>5 DEF SataEnable
  <2> QED BY <1>1, <2>1
<1> QED BY <1>2, <1>3, <1>4, <1>5, Owners

\* A SATA controller is begun with its PHY set up, and the PHY stays so.
LEMMA SataSteppedKept ==
  ASSUME HostTypeOK, RunsCall, PhysClocked, SataStepped, HostNext
  PROVE  SataStepped'
<1>1. Flow
  BY HostFlow
<1>2. CallsOk(calls) /\ Len(calls) \in Nat
  BY DEF HostTypeOK, CallsOk
<1>3. ASSUME NEW i \in 1..Len(calls'), calls'[i].call = "sata"
      PROVE  \E n \in 0..2 : n = calls'[i].n /\ (PhyDone(n)' \/ PhyIn(calls', n))
  <2>1. PICK k \in 1..Len(calls) : calls[k] = calls'[i]
    BY <1>1, <1>3, SataWasLeft
  <2>2. PICK n \in 0..2 : n = calls'[i].n
    <3>1. calls[k] \in AllCalls
      BY <1>2, <2>1 DEF CallsOk
    <3> QED BY <1>3, <2>1, <3>1, CallShapes
  <2>3. PhyDone(n) \/ PhyIn(calls, n)
    BY <1>3, <2>1, <2>2 DEF SataStepped
  <2>4. CASE PhyIn(calls, n)
    BY <1>1, <2>2, <2>4, PhyCallStays DEF PhyDone
  <2>5. CASE PhyDone(n)
    <3>1. CASE PhyClocked /\ n = Running.n
      <4>1. calls' = calls /\ calls # <<>> /\ Running.call = "phy"
        BY <3>1 DEF PhyClocked, RunsCall, CallOf, PhyPcs
      <4>2. 1 \in 1..Len(calls) /\ Running = calls[1]
        BY <1>2, <4>1, TailOk DEF Running
      <4>3. PhyIn(calls', n)
        BY <3>1, <4>1, <4>2 DEF PhyIn
      <4> QED BY <2>2, <4>3
    <3>2. CASE PhyDone(n)'
      BY <2>2, <3>2
    <3> QED BY <2>5, <3>1, <3>2, PhyDoneStays DEF PhyDone
  <2> QED BY <2>3, <2>4, <2>5
<1>4. ASSUME NEW n \in 0..2, ahci'[n] # "off"
      PROVE  OnlySata' /\ PhyDone(n)'
  <2>1. OnlySata /\ PhyDone(n)
    <3>1. CASE ahci[n] # "off"
      BY <3>1 DEF SataStepped
    <3>2. CASE SataReset /\ n = Running.n
      <4>1. calls # <<>> /\ Running.call = "sata"
        BY <3>2 DEF SataReset, Begins
      <4>2. 1 \in 1..Len(calls) /\ calls[1].call = "sata" /\ calls[1].n = n
        BY <1>2, <3>2, <4>1, TailOk DEF Running
      <4>3. \A i \in 1..Len(calls) : 1 < i => calls[i].call = "sata"
        BY <1>2, <4>2 DEF CallsOk
      <4>4. OnlySata
        BY <1>2, <4>2, <4>3 DEF OnlySata
      <4>5. ~PhyIn(calls, n)
        BY <4>4 DEF OnlySata, PhyIn
      <4> QED BY <4>2, <4>4, <4>5 DEF SataStepped
    <3> QED BY <1>4, <3>1, <3>2, AhciBegins
  <2>2. OnlySata'
    BY <1>1, <2>1, OnlySataStays
  <2>3. ~PhyClocked
    BY <2>1, OnlySataRuns DEF PhyClocked, PhyPcs
  <2> QED BY <2>1, <2>2, <2>3, PhyDoneStays DEF PhyDone
<1>5. \A i \in 1..Len(calls') : calls'[i].call = "sata" =>
        \/ phy'[calls'[i].n].mode # "none" /\ PhyReset(calls'[i].n) \notin cru'.resets
        \/ PhyIn(calls', calls'[i].n)
  BY <1>3 DEF PhyDone
<1> QED BY <1>4, <1>5 DEF SataStepped, PhyDone
-----------------------------------------------------------------------------
(* The boards from their start.                                              *)
HostInv ==
  /\ HostTypeOK /\ RunsCall /\ PhysClocked /\ PllReady /\ RailsWritten /\ MacsStepped
  /\ PciStepped /\ SataStepped

\* Every step of the boards keeps their invariant.
LEMMA HostNextKeeps ==
  ASSUME HostInv, HostNext
  PROVE  HostInv' /\ cru'.sdmmc[0] = cru.sdmmc[0]
<1>1. CruFrame
  BY CruEvolves DEF HostInv
<1>2. HostTypeOK' /\ RunsCall'
  BY TypesKept DEF HostInv, PciStepped
<1> QED BY <1>1, <1>2, PhysClockedKept, PllReadyKept, RailsWrittenKept, MacsSteppedKept,
        PciStepsKeep, SataSteppedKept
        DEF HostInv, CruFrame

\* Where no call programs the PHYs, and only the source of the SD controller
\* changes, all of it stays.
LEMMA HostRests ==
  ASSUME HostInv, CruOk(cru)',
         UNCHANGED <<board, gaveUp, calls, hostPc, polls, phy, pmic, gmac, pci, ahci>>,
         cru'.pll = cru.pll, cru'.div = cru.div, cru'.sel = cru.sel, cru'.gates = cru.gates,
         cru'.resets = cru.resets
  PROVE  HostInv'
<1> USE DEF HostInv
<1>1. Segment' = Segment /\ Running' = Running /\ \A s : Left(s)' <=> Left(s)
  BY DEF Segment, Running, Left
<1>2. HostTypeOK' /\ RunsCall'
  BY <1>1 DEF HostTypeOK, RunsCall
<1>3. PhysClocked'
  BY <1>1 DEF PhysClocked, PllIs200MHz, FromPll
<1>4. RailsWritten'
  BY DEF RailsWritten
<1>5. MacsStepped'
  <2>1. MacAddress(0)' = MacAddress(0) /\ MacAddress(1)' = MacAddress(1)
    BY DEF MacAddress
  <2> QED BY <1>1, <2>1 DEF MacsStepped
<1>6. PhyUp' = PhyUp /\ Clocked' = Clocked /\ Untouched' = Untouched /\ Configured' = Configured
      /\ AfterPci' = AfterPci
  BY <1>1 DEF PhyUp, Clocked, Untouched, Configured, AfterPci
<1>7. RightSegment' /\ PciUp' /\ TouchedLast'
  BY <1>1, <1>6 DEF PciStepped, RightSegment, PciUp, TouchedLast
<1>8. PciAt' /\ Linked'
  BY <1>6 DEF PciStepped, PciAt, Linked
<1>9. PllReady' /\ SataStepped'
  <2>1. OnlySata' = OnlySata /\ \A n : PhyDone(n)' = PhyDone(n)
    BY DEF OnlySata, PhyDone
  <2> QED BY <2>1 DEF PllReady, SataStepped
<1> QED BY <1>2, <1>3, <1>4, <1>5, <1>7, <1>8, <1>9 DEF PciStepped

\* Whatever the boot loader left in the unit is well formed.
LEMMA InitialCruOk ==
  ASSUME NEW c \in UniformCrus
  PROVE  CruOk(c)
<1>1. c \in InitialCrus
  BY DEF UniformCrus
<1>2. c = [pll |-> c.pll, div |-> c.div, sel |-> c.sel, gates |-> c.gates,
           resets |-> c.resets, sdmmc |-> c.sdmmc]
  BY <1>1 DEF InitialCrus
<1>3. /\ c.pll \in InitialPlls /\ c.div \in [0..2 -> {0, 3}] /\ c.sel \in [0..2 -> {0, 1}]
      /\ c.sdmmc = [i \in 0..2 |-> 0]
  BY <1>1 DEF InitialCrus
<1>4. c.pll \in Plls
  <2>1. /\ c.pll = [FbDiv |-> c.pll.FbDiv, PostDiv1 |-> c.pll.PostDiv1, RefDiv |-> c.pll.RefDiv,
                   PostDiv2 |-> c.pll.PostDiv2, bypass |-> c.pll.bypass, normal |-> c.pll.normal,
                   locked |-> c.pll.locked]
        /\ c.pll.bypass \in BOOLEAN /\ c.pll.normal \in BOOLEAN /\ c.pll.locked \in BOOLEAN
    BY <1>3 DEF InitialPlls
  <2>2. c.pll.FbDiv \in {100} /\ c.pll.PostDiv1 \in {2} /\ c.pll.RefDiv \in {2}
          /\ c.pll.PostDiv2 \in {1}
    BY <1>3, Zenon DEF InitialPlls
  <2>3. 100 \in Nat /\ 2 \in Nat /\ 1 \in Nat
    OBVIOUS
  <2>4. /\ c.pll.FbDiv \in Nat /\ c.pll.PostDiv1 \in Nat /\ c.pll.RefDiv \in Nat
        /\ c.pll.PostDiv2 \in Nat
    BY <2>2, <2>3
  <2> QED BY <2>1, <2>4 DEF Plls
<1> QED BY <1>2, <1>3, <1>4 DEF CruOk

\* A board begins with its invariant, whatever calls are left to it.
LEMMA HostBegins ==
  ASSUME NEW b \in Boards, NEW c \in UniformCrus, NEW todo, CallsOk(todo), SatasHavePhys(todo),
         \A i \in 1..Len(todo) : todo[i] # PcieCall, HostState(b, c, todo)
  PROVE  HostInv
<1>1. /\ board = b /\ calls = todo /\ hostPc = "next" /\ polls = 0 /\ gaveUp = FALSE /\ cru = c
      /\ phy = [n \in 0..2 |-> [mode |-> "none", clk |-> CRU_CLKREF_RATE]]
      /\ pmic = [todo |-> <<>>, vsel |-> [r \in 1..9 |-> "default"], on |-> {}, faults |-> 0]
      /\ gmac = [todo |-> <<>>, configured |-> {}, address |-> [n \in {0, 1} |-> "none"]]
      /\ pci = NoPci /\ ahci = [i \in 0..2 |-> "off"]
  BY DEF HostState
<1>2. HostTypeOK
  <2>1. board \in Boards /\ CallsOk(calls) /\ hostPc \in HostPcs /\ polls \in Nat /\ CruOk(cru)
          /\ gaveUp \in BOOLEAN
    BY <1>1, InitialCruOk DEF HostPcs
  <2>2. CRU_CLKREF_RATE \in Nat
    BY SMT DEF CRU_CLKREF_RATE
  <2>3. phy \in [0..2 -> [mode : PhyModes \cup {"none"}, clk : Nat]]
    BY <1>1, <2>2
  <2>4. pmic \in [todo : Seq(RailWrites), vsel : [1..9 -> Voltages], on : SUBSET (1..9),
          faults : Nat]
    <3>1. <<>> \in Seq(RailWrites) /\ "default" \in Voltages
      BY DEF Voltages
    <3> QED BY <1>1, <3>1
  <2>5. gmac \in [todo : Seq(GmacStepNames), configured : SUBSET {0, 1},
                  address : [{0, 1} -> {"none", "even", "odd", "otp"}]]
    <3>1. <<>> \in Seq(GmacStepNames)
      OBVIOUS
    <3> QED BY <1>1, <3>1
  <2>6. pci \in PciStates
    BY <1>1 DEF NoPci, PciStates
  <2>7. ahci \in [0..2 -> {"off", "reset", "idle", "enabled"}]
    BY <1>1
  <2> QED BY <2>1, <2>3, <2>4, <2>5, <2>6, <2>7 DEF HostTypeOK
<1>3. RunsCall
  BY <1>1 DEF RunsCall
<1>4. PhysClocked
  BY <1>1 DEF PhysClocked, PhyPcs
<1>5. RailsWritten
  BY <1>1 DEF RailsWritten, RangeOf, VoltagesFirst
<1>6. MacsStepped
  BY <1>1 DEF MacsStepped
<1>7. Untouched /\ ~pci.ltssm /\ pci.perst = "floating" /\ pci.bridges = 0 /\ pci.atu = {}
  BY <1>1 DEF Untouched, NoPci
<1>8. PciStepped
  BY <1>1, <1>7 DEF PciStepped, RightSegment, PciUp, TouchedLast, PciAt, Linked, PciPcs
<1>9. PllReady
  <2>1. c.pll \in InitialPlls
    BY DEF UniformCrus, InitialCrus
  <2> QED BY <1>1, <2>1 DEF PllReady, InitialPlls
<1>10. SataStepped
  <2>1. \A n \in 0..2 : ahci[n] = "off"
    BY <1>1
  <2> QED BY <1>1, <2>1 DEF SataStepped, SatasHavePhys
<1> QED BY <1>2, <1>3, <1>4, <1>5, <1>6, <1>8, <1>9, <1>10 DEF HostInv

\* And so do the sessions of the boards.
LEMMA HostInitInv ==
  ASSUME HostInit
  PROVE  HostInv
<1>1. PICK b \in Boards, c \in UniformCrus : HostState(b, c, HostCalls(b))
  BY DEF HostInit
<1> QED BY <1>1, HostCallsOk, HostBegins

\* What the invariant says of the references and of the devices.
LEMMA ReferencesMatch ==
  ASSUME HostInv
  PROVE  ReferenceMatches
<1> SUFFICES ASSUME NEW n \in 0..2, phy[n].mode # "none",
                    cru.sel[n] = 0 \/ (cru.pll.normal /\ cru.pll.locked)
             PROVE  phy[n].clk = PhyReference(cru, n)
  BY DEF ReferenceMatches
<1>1. PllIs200MHz /\ FromPll(n) /\ phy[n].clk = 100000
  BY DEF HostInv, PhysClocked
<1>2. CruGetPciePhyClockRate(cru, n) = 100000
  BY <1>1, RateIs100MHz DEF HostInv, HostTypeOK
<1>3. cru.sel[n] = 1 /\ cru.pll.normal /\ cru.pll.locked
  BY <1>1 DEF FromPll
<1>4. PllOutput(cru.pll) = PmuCruGetPllRate(cru.pll)
  BY <1>3 DEF PllOutput
<1>5. PhyReference(cru, n) = CruGetPciePhyClockRate(cru, n)
  BY <1>3, <1>4 DEF PhyReference, CruGetPciePhyClockRate
<1> QED BY <1>1, <1>2, <1>5

\* A PHY that is set up runs, but while one of them programs the PLL.
LEMMA DonePhyRuns ==
  ASSUME HostInv, hostPc \notin PhyPcs, NEW n \in 0..2, PhyDone(n)
  PROVE  PhyRuns(n)
<1>1. ReferenceMatches
  BY ReferencesMatch
<1>2. gaveUp \/ (cru.pll.normal /\ cru.pll.locked)
  BY DEF HostInv, PllReady, PhyPcs
<1> QED BY <1>1, <1>2 DEF ReferenceMatches, PhyRuns, PhyDone

\* What the invariant says of a device that is used: it is ready.
LEMMA DevicesAreReady ==
  ASSUME HostInv
  PROVE  DevicesReady
<1> USE DEF HostInv, PciStepped
<1>1. DbiAnswers
  <2>1. \/ ~(pci.bridge \/ pci.atu # {} \/ pci.speed # 0)
        \/ AfterPci /\ pci.rc /\ Clocked /\ PhyUp
    BY DEF TouchedLast, Untouched
  <2>2. CASE AfterPci /\ pci.rc /\ Clocked /\ PhyUp
    <3>1. hostPc \notin PhyPcs
      BY <2>2, NoPhyAfterPci
    <3>2. phy[2].mode = "pcie" => phy[2].mode # "none"
      OBVIOUS
    <3>3. Segment = 0 => PhyRuns(2)
      BY <2>2, <3>1, <3>2, DonePhyRuns DEF PhyUp, PhyDone
    <3> QED BY <2>2, <3>3 DEF DbiAnswers, Clocked, PhyUp
  <2> QED BY <2>1, <2>2 DEF DbiAnswers
<1>2. LinkConfigured
  <2>1. Len(Windows) = 3
    BY DEF Windows
  <2> QED BY <2>1 DEF LinkConfigured, Linked, Configured
<1>3. MacsReady
  <2>1. board.macs \subseteq {0, 1}
    BY BoardsOk DEF HostTypeOK, BoardOk
  <2>2. ASSUME gmac.address[0] # "none", gmac.address[1] # "none"
        PROVE  gmac.address[0] # gmac.address[1]
    <3>1. 0 \in board.macs /\ 1 \in board.macs
      BY <2>2 DEF MacsStepped
    <3>2. board.macs = {0, 1}
      BY <2>1, <3>1
    <3>3. gmac.address[0] = "even" /\ gmac.address[1] = "odd"
      BY <2>2, <3>2 DEF MacsStepped, MacAddress
    <3> QED BY <3>3
  <2> QED BY <2>1, <2>2 DEF MacsReady, MacsStepped
<1>4. RailsSetFirst
  <2>1. board.rails \in Seq(RailWrites)
    BY BoardsOk DEF HostTypeOK, BoardOk
  <2>2. {board.rails[i] : i \in DOMAIN board.rails} = RangeOf(board.rails)
    BY <2>1 DEF RangeOf
  <2> QED BY <2>2 DEF RailsSetFirst, RailsWritten
<1>5. AhciReady
  <2> SUFFICES ASSUME NEW n \in 0..2, ahci[n] # "off"
               PROVE  PhyRuns(n)
    BY DEF AhciReady
  <2>1. OnlySata /\ PhyDone(n)
    BY DEF SataStepped
  <2>2. hostPc \notin PhyPcs
    BY <2>1, OnlySataRuns
  <2> QED BY <2>1, <2>2, DonePhyRuns
<1> QED BY <1>1, <1>2, <1>3, <1>4, <1>5 DEF DevicesReady
-----------------------------------------------------------------------------
(***************************************************************************)
(* Accesses to configuration space, for any bytes of it and any size of a  *)
(* buffer.  A call is made of pieces (PieceOf), and whatever its kind two   *)
(* lemmas say what the workers make of one: PieceSeen and PieceWritten.    *)
(* The invariant says what the pieces so far amount to: nothing, what was  *)
(* read before it is written back (HasRead), or a buffer up to a byte      *)
(* (BufferUpTo), which is never inside a base address register that the    *)
(* workers hide (BarsApart), so that they hide all of it or none.          *)
(***************************************************************************)
\* The calls, and what a call of each kind looks like.
Accesses == Calls8 \cup Calls16 \cup Calls32 \cup BufferCalls
Ops == RegisterOps \cup FieldOps \cup BufferOps

\* Bytes are numbers.
LEMMA BytesAre == \A r \in Bytes : r \in Nat
  BY ConfigAssumption

\* Operands, and the function a call is for.
LEMMA CallShape ==
  ASSUME NEW c \in Accesses
  PROVE  /\ c.a \in Addresses /\ c.op \in Ops /\ c.reg \in Nat /\ c.size \in Nat
         /\ c.data \subseteq 0..8 * c.size - 1
         /\ c.op \notin BufferOps => /\ c.size \in {1, 2, 4} /\ c.reg % c.size = 0
                                     /\ c.orData = {1} /\ c.first \in Nat /\ c.last \in Nat
                                     /\ c.last < 8 * c.size
<1>1. ASSUME NEW op \in RegisterOps \cup FieldOps, NEW a \in Addresses, NEW w \in {8, 16, 32},
             NEW reg \in Aligned(w), NEW field \in {<<0, w - 1>>} \cup Fields(w),
             c = AccessCall(op, a, reg, w \div 8, field)
      PROVE  /\ c.a \in Addresses /\ c.op \in Ops /\ c.reg \in Nat /\ c.size \in Nat
             /\ c.data \subseteq 0..8 * c.size - 1
             /\ c.size \in {1, 2, 4} /\ c.reg % c.size = 0
             /\ c.orData = {1} /\ c.first \in Nat /\ c.last \in Nat
             /\ c.last < 8 * c.size
  <2>1. /\ c.op = op /\ c.a = a /\ c.reg = reg /\ c.size = w \div 8 /\ c.first = field[1]
        /\ c.last = field[2] /\ c.data = Data(8 * c.size) /\ c.orData = {1}
    BY <1>1 DEF AccessCall
  <2>2. c.size \in {1, 2, 4} /\ 8 * c.size = w
    BY <2>1
  <2>3. reg \in Nat /\ reg % c.size = 0
    BY <2>1, BytesAre DEF Aligned
  <2>4. c.first \in Nat /\ c.last \in Nat /\ c.last < w
    BY <2>1 DEF Fields
  <2> QED BY <2>1, <2>2, <2>3, <2>4 DEF Data, Ops
<1>2. ASSUME c \in BufferCalls
      PROVE  /\ c.a \in Addresses /\ c.op \in BufferOps /\ c.reg \in Nat /\ c.size \in Nat
             /\ c.data \subseteq 0..8 * c.size - 1
  <2>1. PICK op \in BufferOps, a \in {[bus |-> b, dev |-> 0, fn |-> 0] : b \in {0, 1}},
             reg \in Bytes, size \in 0..MaxSize : c = AccessCall(op, a, reg, size, <<0, 0>>)
    BY <1>2 DEF BufferCalls
  <2>2. c.op = op /\ c.a = a /\ c.reg = reg /\ c.size = size /\ c.data = Data(8 * c.size)
    BY <2>1 DEF AccessCall
  <2>3. reg \in Nat
    BY BytesAre
  <2>5. size \in Nat
    BY ConfigAssumption
  <2>4. a \in Addresses
    <3>1. PICK b \in {0, 1} : a = [bus |-> b, dev |-> 0, fn |-> 0]
      OBVIOUS
    <3> QED BY <3>1 DEF Addresses
  <2> QED BY <2>2, <2>3, <2>4, <2>5 DEF Data
<1>3. ASSUME NEW w \in {8, 16, 32}, c \in CallsOf(w)
      PROVE  \E op \in RegisterOps \cup FieldOps, a \in Addresses, reg \in Aligned(w),
                field \in {<<0, w - 1>>} \cup Fields(w) : c = AccessCall(op, a, reg, w \div 8, field)
  BY <1>3 DEF CallsOf
<1>4. c \in BufferCalls \/ \E w \in {8, 16, 32} : c \in CallsOf(w)
  BY DEF Accesses, Calls8, Calls16, Calls32
<1> QED BY <1>1, <1>2, <1>3, <1>4 DEF Ops

\* Where an address lands: at the function it names, or nowhere.
LEMMA Lands ==
  ASSUME NEW a \in Addresses
  PROVE  /\ Named(a) \in ConfigFunctions => ~Ignored(a) /\ Reached(a) = Named(a)
         /\ Named(a) \notin ConfigFunctions => Ignored(a) \/ Reached(a) = Nothing
         /\ Nothing \notin ConfigFunctions
<1>1. /\ ConfigFunctions = {[bus |-> 0, fn |-> 0], [bus |-> 1, fn |-> 0], [bus |-> 1, fn |-> 1]}
      /\ Nothing = [bus |-> 2, fn |-> 0] /\ RootPort = [bus |-> 0, fn |-> 0]
  BY DEF ConfigFunctions, RootPort, Endpoint, Nothing
<1>2. Nothing \notin ConfigFunctions /\ RootPort # Nothing
  BY <1>1
<1>3. ASSUME NEW d \in {0, 1}, a = [bus |-> 0, dev |-> d, fn |-> 0]
      PROVE  /\ Named(a) \in ConfigFunctions => ~Ignored(a) /\ Reached(a) = Named(a)
             /\ Named(a) \notin ConfigFunctions => Ignored(a) \/ Reached(a) = Nothing
  BY <1>1, <1>2, <1>3 DEF Named, Ignored, Reached, PciSegmentLibGetConfigBase, Unit
<1>4. ASSUME NEW d \in {0, 1, 31}, NEW f \in {0, 1, 2}, a = [bus |-> 1, dev |-> d, fn |-> f]
      PROVE  /\ Named(a) \in ConfigFunctions => ~Ignored(a) /\ Reached(a) = Named(a)
             /\ Named(a) \notin ConfigFunctions => Ignored(a) \/ Reached(a) = Nothing
  <2>1. /\ a.bus = 1 /\ a.dev = d /\ a.fn = f /\ ~Ignored(a)
        /\ PciSegmentLibGetConfigBase(a) = "windows"
        /\ Named(a) = IF d = 0 THEN [bus |-> 1, fn |-> f] ELSE Nothing
    BY <1>4 DEF Ignored, PciSegmentLibGetConfigBase, Named
  <2>2. Unit(a) + 8 = 264 + 8 * d + f
    BY <2>1 DEF Unit
  <2>3. Cfg0.base = 16 /\ Cfg0.size = 1
    BY DEF Cfg0, Windows, MB
  <2>4. d = 0 => Unit(a) + 8 \in 256..271 /\ (Unit(a) + 8) % 8 = f
    BY <2>2
  <2>5. d # 0 => Unit(a) + 8 \notin 256..271
    BY <2>2
  <2>6. Reached(a) = IF /\ Unit(a) + 8 \in 256..271
                        /\ Endpoint((Unit(a) + 8) % 8) \in ConfigFunctions
                     THEN Endpoint((Unit(a) + 8) % 8) ELSE Nothing
    BY <2>1, <2>3 DEF Reached
  <2> QED BY <1>2, <2>1, <2>4, <2>5, <2>6 DEF Endpoint
<1> QED BY <1>2, <1>3, <1>4 DEF Addresses

-----------------------------------------------------------------------------
\* The cycles made so far: aligned, inside the call's bytes, each once.
CyclesExact(c) ==
  \A i \in DOMAIN cycles :
    /\ cycles[i].reg % (cycles[i].w \div 8) = 0
    /\ Register(cycles[i].reg, cycles[i].w) \subseteq NamedBits(c)
    /\ \A j \in 1..i - 1 : cycles[j].kind = cycles[i].kind =>
         Register(cycles[i].reg, cycles[i].w) \cap Register(cycles[j].reg, cycles[j].w) = {}

OthersKept(c) ==
  \A f \in ConfigFunctions : f # Named(c.a) \/ Reads(c) => config[f] = InitialConfig[f]

Configs == [ConfigFunctions -> SUBSET Int]
CycleSeqs == Seq([kind : {"read", "write"}, reg : Nat, w : {8, 16, 32}])

(* Type correctness: the shape of a call, its cycles and the functions.       *)
ConfigTypeOK ==
  /\ config \in Configs
  /\ access # Idle =>
       access = [pc |-> access.pc, c |-> access.c, at |-> access.at, value |-> access.value]
  /\ access # Idle => /\ access.pc \in {"register", "modify", "buffer", "done"}
                      /\ access.c \in Accesses /\ access.at \in Nat
  /\ cycles \in CycleSeqs

\* What the call may rely on before it has made its first cycle ...
NothingDone == config = InitialConfig /\ cycles = <<>>

\* ... between the two cycles of a function that reads, modifies and writes ...
HasRead ==
  /\ access.c.op \notin BufferOps \cup {"Write"} /\ ~Reads(access.c)
  /\ config = InitialConfig /\ access.value = Seen(access.c)
  /\ \A i \in DOMAIN cycles : cycles[i].kind = "read"

\* ... and when a buffer is done up to a byte.  No BAR is done in part.
Below(n, bits) == {b \in bits : b < n}
Filled(old, c, at) ==
  (old \ At(8 * c.reg, 0..8 * at - 1)) \cup At(8 * c.reg, Below(8 * at, c.data))
BarsApart(c, p) ==
  \A r \in HiddenBars : c.a.bus = 0 /\ r >= c.reg /\ r + 4 <= c.reg + c.size => p <= r \/ p >= r + 4
BufferUpTo(c, at) ==
  /\ c.op \in BufferOps /\ at <= c.size /\ BarsApart(c, c.reg + at)
  /\ \A i \in DOMAIN cycles : cycles[i].reg + cycles[i].w \div 8 <= c.reg + at
  /\ Reads(c) => access.value = Below(8 * at, Seen(c))
  /\ ~Reads(c) /\ Exists(c) =>
       config[Named(c.a)] = Filled(InitialConfig[Named(c.a)], c, at)

ConfigInv ==
  /\ ConfigTypeOK /\ AccessExact
  /\ access = Idle => NothingDone
  /\ access # Idle =>
       /\ CyclesExact(access.c) /\ OthersKept(access.c)
       /\ access.pc = "register" => access.c.op \notin BufferOps /\ NothingDone
       /\ access.pc = "modify" => HasRead
       /\ access.pc = "buffer" => BufferUpTo(access.c, access.at)

-----------------------------------------------------------------------------
\* Bits are numbers.
LEMMA InitialBits ==
  /\ InitialConfig \in Configs
  /\ \A f \in ConfigFunctions : InitialConfig[f] \subseteq Int
<1>1. AllBytes \subseteq Int
  <2> SUFFICES ASSUME NEW r \in Bytes, NEW x \in Register(r, 8) PROVE x \in Int
    BY DEF AllBytes
  <2> QED BY BytesAre DEF Register
<1> QED BY <1>1 DEF InitialConfig, Configs

ValuesOf(w) == SUBSET (0..w - 1)

\* A piece of w bits at p, byte "at" of what the call names: aligned, inside,
\* and a double word wherever one fits.
PieceOf(c, at, p, w) ==
  /\ c \in Accesses /\ at \in Nat /\ p \in Nat /\ w \in {8, 16, 32}
  /\ p = c.reg + at /\ at + w \div 8 <= c.size /\ p % (w \div 8) = 0
  /\ p % 4 = 0 /\ at + 4 <= c.size => w = 32

\* Of the bits of a buffer, those of the piece.
Part(at, w, S) == {b \in 0..w - 1 : 8 * at + b \in S}

\* What is left of the bits of a function, once a piece was written.
Overwritten(old, p, w, v) == (old \ Register(p, w)) \cup At(8 * p, v)

\* Its bits, counted from the call's first byte and from its own.
LEMMA PieceBits ==
  ASSUME NEW c, NEW at, NEW p, NEW w, PieceOf(c, at, p, w), NEW b \in 0..w - 1
  PROVE  8 * at + b \in 0..8 * c.size - 1 /\ 8 * c.reg + (8 * at + b) = 8 * p + b
<1>1. /\ at \in Nat /\ p \in Nat /\ w \in {8, 16, 32} /\ p = c.reg + at
      /\ at + w \div 8 <= c.size /\ c.reg \in Nat /\ c.size \in Nat
  BY CallShape DEF PieceOf
<1>2. w = 8 * (w \div 8) /\ w \div 8 \in Nat
  BY <1>1
<1> QED BY <1>1, <1>2

\* It stays inside the call's bytes.
LEMMA PieceInside ==
  ASSUME NEW c, NEW at, NEW p, NEW w, PieceOf(c, at, p, w)
  PROVE  Register(p, w) \subseteq NamedBits(c)
BY PieceBits DEF Register, NamedBits

\* One more cycle, apart from those of its kind.
LEMMA OneMoreCycle ==
  ASSUME NEW c, NEW at, NEW p, NEW w, PieceOf(c, at, p, w), NEW kind \in {"read", "write"},
         cycles \in CycleSeqs, CyclesExact(c), Cycle(kind, p, w),
         \A i \in DOMAIN cycles :
           cycles[i].kind = kind => Register(p, w) \cap Register(cycles[i].reg, cycles[i].w) = {}
  PROVE  /\ cycles' \in CycleSeqs
         /\ CyclesExact(c)'
<1> DEFINE new == [kind |-> kind, reg |-> p, w |-> w]
<1>1. /\ cycles' = Append(cycles, new) /\ new \in [kind : {"read", "write"}, reg : Nat, w : {8, 16, 32}]
      /\ new.kind = kind /\ new.reg = p /\ new.w = w
  BY DEF Cycle, PieceOf
<1> HIDE DEF new
<1>2. /\ cycles' \in CycleSeqs
      /\ Len(cycles) \in Nat /\ DOMAIN cycles = 1..Len(cycles)
      /\ DOMAIN cycles' = 1..Len(cycles) + 1
      /\ \A i \in 1..Len(cycles) : cycles'[i] = cycles[i]
      /\ cycles'[Len(cycles) + 1] = new
  BY <1>1 DEF CycleSeqs
<1>3. Register(p, w) \subseteq NamedBits(c) /\ p % (w \div 8) = 0
  BY PieceInside DEF PieceOf
<1>4. ASSUME NEW i \in DOMAIN cycles'
      PROVE  /\ cycles'[i].reg % (cycles'[i].w \div 8) = 0
             /\ Register(cycles'[i].reg, cycles'[i].w) \subseteq NamedBits(c)
             /\ \A j \in 1..i - 1 : cycles'[j].kind = cycles'[i].kind =>
                  Register(cycles'[i].reg, cycles'[i].w) \cap Register(cycles'[j].reg, cycles'[j].w) = {}
  <2>1. CASE i \in 1..Len(cycles)
    <3>1. cycles'[i] = cycles[i] /\ \A j \in 1..i - 1 : cycles'[j] = cycles[j]
      BY <1>2, <2>1
    <3> QED BY <1>2, <2>1, <3>1 DEF CyclesExact
  <2>2. CASE i = Len(cycles) + 1
    <3>1. cycles'[i] = new /\ \A j \in 1..i - 1 : j \in DOMAIN cycles /\ cycles'[j] = cycles[j]
      BY <1>2, <2>2
    <3> QED BY <1>1, <1>3, <3>1
  <2> QED BY <1>2, <2>1, <2>2
<1>5. CyclesExact(c)'
  BY <1>4, Zenon DEF CyclesExact
<1> QED BY <1>2, <1>5

\* A piece that ends where another begins, or before, is apart from it.
LEMMA PiecesApart ==
  ASSUME NEW p \in Nat, NEW w \in {8, 16, 32}, NEW q \in Nat, NEW v \in {8, 16, 32},
         q + v \div 8 <= p
  PROVE  Register(p, w) \cap Register(q, v) = {}
<1> SUFFICES ASSUME NEW b \in 0..w - 1, NEW d \in 0..v - 1, 8 * p + b = 8 * q + d PROVE FALSE
  BY DEF Register
<1> QED OBVIOUS

\* What the worker reads of a piece is what the call should see of it.
LEMMA PieceSeen ==
  ASSUME NEW c, NEW at, NEW p, NEW w, PieceOf(c, at, p, w), BarsApart(c, p),
         Exists(c) => config[Named(c.a)] = InitialConfig[Named(c.a)]
  PROVE  PciSegmentLibReadWorker(c.a, p, w) = Part(at, w, Seen(c))
<1>1. /\ c.reg \in Nat /\ c.size \in Nat /\ c.a \in Addresses
      /\ at \in Nat /\ p \in Nat /\ w \in {8, 16, 32} /\ p = c.reg + at /\ at + w \div 8 <= c.size
      /\ (p % 4 = 0 /\ at + 4 <= c.size => w = 32)
  BY CallShape DEF PieceOf
<1>2. \A b \in 0..w - 1 : 8 * at + b \in 0..8 * c.size - 1 /\ 8 * c.reg + (8 * at + b) = 8 * p + b
  BY PieceBits
<1>3. CASE ~Exists(c)
  <2>1. PciSegmentLibReadWorker(c.a, p, w) = 0..w - 1
    BY <1>1, <1>3, Lands DEF PciSegmentLibReadWorker, Exists
  <2> QED BY <1>2, <1>3, <2>1 DEF Seen, Part
<1>4. CASE Exists(c)
  <2> DEFINE bits == InitialConfig[Named(c.a)]
  <2>1. PciSegmentLibReadWorker(c.a, p, w) =
          IF w = 32 /\ c.a.bus = 0 /\ p \in HiddenBars THEN {}
          ELSE {b \in 0..w - 1 : 8 * p + b \in bits}
    BY <1>1, <1>4, Lands DEF PciSegmentLibReadWorker, Exists
  <2>2. Part(at, w, Seen(c))
          = {b \in 0..w - 1 : 8 * p + b \in bits /\ 8 * p + b \notin Hidden(c)}
    BY <1>2, <1>4 DEF Seen, Part
  <2>3. CASE w = 32 /\ c.a.bus = 0 /\ p \in HiddenBars
    <3>1. p >= c.reg /\ p + 4 <= c.reg + c.size
      BY <1>1, <2>3
    <3>2. Register(p, 32) \subseteq Hidden(c)
      BY <2>3, <3>1 DEF Hidden
    <3>3. \A b \in 0..w - 1 : 8 * p + b \in Hidden(c)
      BY <2>3, <3>2 DEF Register
    <3> QED BY <2>1, <2>2, <2>3, <3>3
  <2>4. CASE ~(w = 32 /\ c.a.bus = 0 /\ p \in HiddenBars)
    <3>1. ASSUME NEW b \in 0..w - 1, 8 * p + b \in Hidden(c) PROVE FALSE
      <4>1. PICK r \in HiddenBars : /\ c.a.bus = 0 /\ r >= c.reg /\ r + 4 <= c.reg + c.size
                                    /\ 8 * p + b \in Register(r, 32)
        BY <3>1 DEF Hidden
      <4>2. PICK d \in 0..31 : 8 * p + b = 8 * r + d
        BY <4>1 DEF Register
      <4>3. r \in {16, 20} /\ (p <= r \/ p >= r + 4)
        BY <4>1 DEF HiddenBars, BarsApart
      <4>4. p # r
        BY <1>1, <2>4, <4>1, <4>3
      <4>5. p < r
        BY <1>1, <4>2, <4>3, <4>4
      <4>6. p + w \div 8 <= r
        <5>1. p % (w \div 8) = 0
          BY DEF PieceOf
        <5> QED BY <1>1, <4>3, <4>5, <5>1
      <4> QED BY <1>1, <4>2, <4>3, <4>6
    <3> QED BY <2>1, <2>2, <2>4, <3>1
  <2> QED BY <2>3, <2>4
<1> QED BY <1>3, <1>4

\* What the worker writes, and where.
LEMMA PieceWritten ==
  ASSUME NEW c, NEW at, NEW p, NEW w, PieceOf(c, at, p, w), NEW v, v \in ValuesOf(w),
         config \in Configs, config' = PciSegmentLibWriteWorker(c.a, p, w, v)
  PROVE  /\ config' \in Configs
         /\ \A f \in ConfigFunctions : f # Named(c.a) => config'[f] = config[f]
         /\ Exists(c) => config'[Named(c.a)] = Overwritten(config[Named(c.a)], p, w, v)
<1>1. c.a \in Addresses /\ p \in Nat /\ w \in {8, 16, 32}
  BY CallShape DEF PieceOf
<1>2. CASE ~Exists(c)
  BY <1>1, <1>2, Lands DEF PciSegmentLibWriteWorker, Exists
<1>3. CASE Exists(c)
  <2> DEFINE new == (config[Named(c.a)] \ Register(p, w)) \cup {8 * p + b : b \in v}
  <2>1. config' = [config EXCEPT ![Named(c.a)] = new] /\ Named(c.a) \in ConfigFunctions
    BY <1>1, <1>3, Lands DEF PciSegmentLibWriteWorker, Exists
  <2>2. \A b \in v : 8 * p + b \in Int
    BY <1>1 DEF ValuesOf
  <2>3. new \in SUBSET Int
    BY <2>1, <2>2 DEF Configs
  <2> HIDE DEF new
  <2>4. config' \in Configs /\ config'[Named(c.a)] = new
    BY <2>1, <2>3 DEF Configs
  <2>5. \A f \in ConfigFunctions : f # Named(c.a) => config'[f] = config[f]
    BY <2>1 DEF Configs
  <2> QED BY <2>4, <2>5 DEF new, At, Overwritten
<1> QED BY <1>2, <1>3

\* What is written after a read: inside the register, and outside of the field
\* as it was read.
LEMMA ModifiedKeeps ==
  ASSUME NEW c \in Accesses, c.op \notin BufferOps \cup {"Write"}, ~Reads(c),
         NEW v, v \in ValuesOf(8 * c.size)
  PROVE  /\ Modified(c, v) \in ValuesOf(8 * c.size)
         /\ c.op \in FieldOps =>
              \A b \in Int : b \notin Field(c.first, c.last) => (b \in Modified(c, v) <=> b \in v)
<1>1. /\ c.op \in {"Or", "And", "AndThenOr", "BitFieldWrite", "BitFieldOr", "BitFieldAnd",
                   "BitFieldAndThenOr"}
      /\ c.size \in {1, 2, 4} /\ c.orData = {1} /\ c.data \subseteq 0..8 * c.size - 1
      /\ c.first \in Nat /\ c.last \in Nat /\ c.last < 8 * c.size
  BY CallShape DEF Ops, Reads, RegisterOps, FieldOps, BufferOps
<1>0. v \subseteq 0..8 * c.size - 1
  BY DEF ValuesOf
<1>2. Field(c.first, c.last) \subseteq 0..8 * c.size - 1
  BY <1>1 DEF Field
<1>3. CASE c.op \in {"Or", "And", "AndThenOr"}
  <2>1. Modified(c, v) \in {v \cup c.data, v \cap c.data, (v \cap c.data) \cup c.orData}
    BY <1>3 DEF Modified, PciSegmentOr, PciSegmentAnd, PciSegmentAndThenOr
  <2>2. c.orData \subseteq 0..8 * c.size - 1
    BY <1>1
  <2>3. c.op \notin FieldOps
    BY <1>3 DEF FieldOps
  <2> QED BY <1>0, <1>1, <2>1, <2>2, <2>3 DEF ValuesOf
<1>4. CASE c.op = "BitFieldWrite"
  BY <1>0, <1>1, <1>2, <1>4 DEF ValuesOf, Modified, BitFieldWrite
<1>5. CASE c.op = "BitFieldOr"
  BY <1>0, <1>1, <1>2, <1>5 DEF ValuesOf, Modified, BitFieldOr
<1>6. CASE c.op = "BitFieldAnd"
  BY <1>0, <1>1, <1>2, <1>6 DEF ValuesOf, Modified, BitFieldAnd
<1>7. CASE c.op = "BitFieldAndThenOr"
  BY <1>0, <1>1, <1>2, <1>7 DEF ValuesOf, Modified, BitFieldAndThenOr, BitFieldAnd, BitFieldOr
<1> QED BY <1>1, <1>3, <1>4, <1>5, <1>6, <1>7

\* A call sees as many bits as it names.
LEMMA SeenIn ==
  ASSUME NEW c \in Accesses
  PROVE  Seen(c) \in ValuesOf(8 * c.size) /\ Seen(c) \subseteq 0..8 * c.size - 1
BY DEF Seen, ValuesOf

-----------------------------------------------------------------------------
\* What a running call has at hand.
LEMMA StepOfCall ==
  ASSUME ConfigInv, access # Idle
  PROVE  /\ access.c \in Accesses /\ access.at \in Nat
         /\ access = [pc |-> access.pc, c |-> access.c, at |-> access.at, value |-> access.value]
         /\ access.pc \in {"register", "modify", "buffer", "done"}
         /\ config \in Configs
         /\ cycles \in CycleSeqs
         /\ CyclesExact(access.c) /\ OthersKept(access.c)
BY DEF ConfigInv, ConfigTypeOK

\* A call begins with nothing done.
LEMMA CallStep == ASSUME ConfigInv, ConfigCall PROVE ConfigInv'
<1>1. PICK c \in Accesses :
        access' = [pc |-> IF c.op \in BufferOps THEN "buffer" ELSE "register",
                   c |-> c, at |-> 0, value |-> {}]
  BY DEF ConfigCall, Accesses
<1>2. /\ access'.pc = IF c.op \in BufferOps THEN "buffer" ELSE "register"
      /\ access'.c = c /\ access'.at = 0 /\ access'.value = {}
      /\ access' = [pc |-> access'.pc, c |-> access'.c, at |-> access'.at, value |-> access'.value]
  BY <1>1
<1>3. access' # Idle
  <2>1. Idle.pc = "idle"
    BY DEF Idle
  <2> QED BY <1>2, <2>1
<1>4. /\ config' = InitialConfig /\ cycles' = <<>> /\ config' = config /\ cycles' = cycles
      /\ config \in Configs
      /\ cycles \in CycleSeqs
  BY DEF ConfigCall, ConfigInv, ConfigTypeOK, NothingDone
<1>5. ConfigTypeOK'
  BY <1>2, <1>3, <1>4 DEF ConfigTypeOK
<1>6. DOMAIN cycles' = {}
  BY <1>4
<1>7. CyclesExact(c)' /\ OthersKept(c)'
  BY <1>4, <1>6 DEF CyclesExact, OthersKept
<1>8. AccessExact'
  <2>1. access'.pc # "done"
    BY <1>2
  <2> QED BY <1>2, <1>3, <1>7, <2>1 DEF AccessExact, CyclesExact, OthersKept
<1>9. c.op \in BufferOps => BufferUpTo(c, 0)'
  <2>1. c.reg \in Nat /\ c.size \in Nat /\ c.data \subseteq Int
    BY CallShape
  <2>2. BarsApart(c, c.reg + 0)
    BY <2>1 DEF BarsApart, HiddenBars
  <2>3. Below(8 * 0, Seen(c)) = {}
    BY SeenIn DEF Below
  <2>4. Below(8 * 0, c.data) = {}
    BY CallShape DEF Below
  <2>5. At(8 * c.reg, 0..8 * 0 - 1) = {}
    BY DEF At
  <2>6. At(8 * c.reg, Below(8 * 0, c.data)) = {}
    BY <2>4 DEF At
  <2>7. Exists(c) =>
          config'[Named(c.a)] = Filled(InitialConfig[Named(c.a)], c, 0)
    BY <1>4, <2>5, <2>6 DEF Filled
  <2>8. \A i \in DOMAIN cycles' : cycles'[i].reg + cycles'[i].w \div 8 <= c.reg + 0
    BY <1>6
  <2>9. 0 <= c.size
    BY <2>1
  <2> QED BY <1>2, <2>2, <2>3, <2>7, <2>8, <2>9 DEF BufferUpTo
<1> QED BY <1>2, <1>3, <1>4, <1>5, <1>7, <1>8, <1>9 DEF ConfigInv, NothingDone

\* A register's one piece.
LEMMA RegisterPiece ==
  ASSUME NEW c \in Accesses, c.op \notin BufferOps
  PROVE  /\ PieceOf(c, 0, c.reg, 8 * c.size) /\ BarsApart(c, c.reg)
         /\ c.reg \in Nat /\ Register(c.reg, 8 * c.size) = NamedBits(c)
<1>1. c.reg \in Nat /\ c.size \in {1, 2, 4} /\ c.reg % c.size = 0
  BY CallShape
<1>2. /\ 8 * c.size \in {8, 16, 32} /\ (8 * c.size) \div 8 = c.size
      /\ 0 + 4 <= c.size => 8 * c.size = 32
  BY <1>1
<1>3. BarsApart(c, c.reg)
  BY <1>1 DEF BarsApart, HiddenBars
<1>4. c.reg = c.reg + 0 /\ 0 + (8 * c.size) \div 8 <= c.size
  BY <1>1, <1>2
<1> QED BY <1>1, <1>2, <1>3, <1>4 DEF Register, NamedBits, PieceOf

\* A register is read as the call should see it.
LEMMA RegisterSeen ==
  ASSUME NEW c \in Accesses, c.op \notin BufferOps, config = InitialConfig
  PROVE  PciSegmentLibReadWorker(c.a, c.reg, 8 * c.size) = Seen(c)
<1>1. PciSegmentLibReadWorker(c.a, c.reg, 8 * c.size)
        = Part(0, 8 * c.size, Seen(c))
  BY RegisterPiece, PieceSeen
<1>2. \A b \in 0..8 * c.size - 1 : 8 * 0 + b = b
  OBVIOUS
<1> QED BY <1>1, <1>2, SeenIn DEF Part

\* The one cycle of a read, or the first of two.
LEMMA ReadStep == ASSUME ConfigInv, PciSegmentRead PROVE ConfigInv'
<1>1. access # Idle /\ access.pc = "register" /\ access.c.op # "Write"
  <2>1. Idle.pc = "idle"
    BY DEF Idle
  <2> QED BY <2>1 DEF PciSegmentRead
<1>c. PICK c \in Accesses : c = access.c
  BY <1>1, StepOfCall
<1>2. c.op \notin BufferOps /\ c.op # "Write" /\ config = InitialConfig /\ cycles = <<>>
  BY <1>1, <1>c DEF ConfigInv, NothingDone
<1>3. PciSegmentLibReadWorker(c.a, c.reg, 8 * c.size) = Seen(c)
  BY <1>2, RegisterSeen
<1>4. /\ access'.pc = IF Reads(c) THEN "done" ELSE "modify"
      /\ access'.c = c /\ access'.at = access.at
      /\ access'.value = IF c.op = "BitFieldRead" THEN BitFieldRead(Seen(c), c.first, c.last)
                         ELSE Seen(c)
      /\ access' = [pc |-> access'.pc, c |-> access'.c, at |-> access'.at, value |-> access'.value]
  BY <1>1, <1>3, <1>c, StepOfCall DEF PciSegmentRead
<1>5. access' # Idle
  <2>1. Idle.pc = "idle"
    BY DEF Idle
  <2> QED BY <1>4, <2>1
<1>6. Cycle("read", c.reg, 8 * c.size) /\ config' = config
  BY <1>c DEF PciSegmentRead
<1>7. /\ cycles' \in CycleSeqs
      /\ CyclesExact(c)' /\ DOMAIN cycles' = 1..1 /\ cycles'[1].kind = "read"
  <2>1. DOMAIN cycles = {} /\ Len(cycles) = 0
    BY <1>2
  <2>2. CyclesExact(c)
    BY <2>1 DEF CyclesExact
  <2>3. cycles \in CycleSeqs
    BY <1>1, StepOfCall
  <2>4. \A i \in DOMAIN cycles : cycles[i].kind = "read" =>
          Register(c.reg, 8 * c.size) \cap Register(cycles[i].reg, cycles[i].w) = {}
    BY <2>1
  <2>5. cycles' \in CycleSeqs /\ CyclesExact(c)'
    <3>1. PICK at, p, w : at = 0 /\ p = c.reg /\ w = 8 * c.size
      OBVIOUS
    <3>2. PieceOf(c, at, p, w) /\ Cycle("read", p, w)
      BY <1>2, <1>6, <3>1, RegisterPiece
    <3>3. \A i \in DOMAIN cycles : cycles[i].kind = "read" =>
            Register(p, w) \cap Register(cycles[i].reg, cycles[i].w) = {}
      BY <2>4, <3>1
    <3> QED BY <2>2, <2>3, <3>2, <3>3, OneMoreCycle
  <2>6. cycles' = Append(cycles, [kind |-> "read", reg |-> c.reg, w |-> 8 * c.size])
    BY <1>6 DEF Cycle
  <2>7. DOMAIN cycles' = 1..1 /\ cycles'[1].kind = "read"
    BY <1>2, <2>6
  <2> QED BY <2>5, <2>7
<1>8. OthersKept(c)'
  BY <1>2, <1>6 DEF OthersKept
<1>9. ConfigTypeOK'
  BY <1>1, <1>2, <1>4, <1>5, <1>6, <1>7, StepOfCall DEF ConfigTypeOK
<1>10. AccessExact'
  <2>1. access'.pc = "done" => Reads(c)
    BY <1>4
  <2>2. Reads(c) => access'.value = IF c.op = "BitFieldRead"
                                    THEN BitFieldRead(Seen(c), c.first, c.last) ELSE Seen(c)
    BY <1>4
  <2> QED BY <1>4, <1>5, <1>7, <1>8, <2>1, <2>2 DEF AccessExact, CyclesExact, OthersKept
<1>11. access'.pc = "modify" => HasRead'
  <2>1. access'.pc = "modify" => ~Reads(c) /\ c.op # "BitFieldRead"
    BY <1>4 DEF Reads
  <2> QED BY <1>1, <1>2, <1>4, <1>6, <1>7, <2>1 DEF HasRead
<1> QED BY <1>4, <1>5, <1>7, <1>8, <1>9, <1>10, <1>11 DEF ConfigInv

\* A register after it was written.
LEMMA WrittenExactly ==
  ASSUME NEW c \in Accesses, c.op \notin BufferOps, ~Reads(c),
         NEW v, v \in ValuesOf(8 * c.size), NEW old, NEW new, new = Overwritten(old, c.reg, 8 * c.size, v),
         c.op = "Write" => v = c.data,
         c.op \in FieldOps => \A b \in Int : b \notin Field(c.first, c.last) => (b \in v <=> b \in Seen(c))
  PROVE  /\ new \ NamedBits(c) = old \ NamedBits(c)
         /\ (new \cap NamedBits(c)) \ Changes(c) = At(8 * c.reg, Seen(c)) \ Changes(c)
         /\ c.op \in {"Write", "WriteBuffer"} => new \cap NamedBits(c) = At(8 * c.reg, c.data)
<1>0. new = (old \ Register(c.reg, 8 * c.size)) \cup At(8 * c.reg, v)
  BY DEF Overwritten
<1>1. c.reg \in Nat /\ Register(c.reg, 8 * c.size) = NamedBits(c)
  BY RegisterPiece
<1>2. At(8 * c.reg, v) \subseteq NamedBits(c) /\ At(8 * c.reg, Seen(c)) \subseteq NamedBits(c)
  BY SeenIn DEF At, NamedBits, ValuesOf
<1>3. new \ NamedBits(c) = old \ NamedBits(c) /\ new \cap NamedBits(c) = At(8 * c.reg, v)
  BY <1>0, <1>1, <1>2
<1>4. CASE c.op \in FieldOps
  <2>1. Changes(c) = At(8 * c.reg, Field(c.first, c.last))
    BY <1>4 DEF Changes
  <2>2. At(8 * c.reg, v) \ Changes(c) = At(8 * c.reg, Seen(c)) \ Changes(c)
    BY <1>1, <1>4, <2>1, SeenIn DEF At, ValuesOf
  <2> QED BY <1>3, <1>4, <2>2 DEF FieldOps
<1>5. CASE c.op \notin FieldOps
  <2>1. Changes(c) = NamedBits(c)
    BY <1>5 DEF Changes
  <2>2. c.op # "WriteBuffer"
    BY DEF BufferOps
  <2> QED BY <1>2, <1>3, <2>1, <2>2
<1> QED BY <1>4, <1>5

\* The one cycle of a write, or the second of two.
LEMMA WriteStep == ASSUME ConfigInv, PciSegmentWrite PROVE ConfigInv'
<1>1. access # Idle
  <2>1. Idle.pc = "idle"
    BY DEF Idle
  <2> QED BY <2>1 DEF PciSegmentWrite
<1>c. PICK c \in Accesses : c = access.c
  BY <1>1, StepOfCall
<1>v. PICK v : v = IF c.op = "Write" THEN c.data ELSE Modified(c, access.value)
  OBVIOUS
<1>2. c.op \notin BufferOps /\ config = InitialConfig /\ ~Reads(c)
  BY <1>1, <1>c, StepOfCall DEF ConfigInv, NothingDone, HasRead, PciSegmentWrite, Reads
<1>3. \A i \in DOMAIN cycles : cycles[i].kind = "read"
  <2>1. <<>> = cycles => DOMAIN cycles = {}
    OBVIOUS
  <2> QED BY <1>1, <2>1 DEF ConfigInv, NothingDone, HasRead, PciSegmentWrite
<1>4. c.op # "Write" => access.value = Seen(c) /\ c.op \notin BufferOps \cup {"Write"}
  BY <1>1, <1>2, <1>c DEF ConfigInv, HasRead, PciSegmentWrite
<1>5. /\ config' = PciSegmentLibWriteWorker(c.a, c.reg, 8 * c.size, v)
      /\ Cycle("write", c.reg, 8 * c.size)
  BY <1>c, <1>v DEF PciSegmentWrite
<1>6. /\ access'.pc = "done" /\ access'.c = c /\ access'.at = access.at /\ access'.value = access.value
      /\ access' = [pc |-> access'.pc, c |-> access'.c, at |-> access'.at, value |-> access'.value]
  BY <1>1, <1>c, StepOfCall DEF PciSegmentWrite
<1>7. /\ v \in ValuesOf(8 * c.size)
      /\ c.op \in FieldOps => \A b \in Int : b \notin Field(c.first, c.last)
                                => (b \in v <=> b \in Seen(c))
  <2>1. CASE c.op = "Write"
    <3>1. v = c.data /\ c.op \notin FieldOps
      BY <1>v, <2>1 DEF FieldOps
    <3> QED BY <1>2, <3>1, CallShape DEF ValuesOf
  <2>2. CASE c.op # "Write"
    <3>1. v = Modified(c, Seen(c))
      BY <1>4, <1>v, <2>2
    <3> QED BY <1>2, <1>4, <2>2, <3>1, ModifiedKeeps, SeenIn
  <2> QED BY <2>1, <2>2
<1>8. c.op = "Write" => v = c.data
  BY <1>v
<1>9. /\ config' \in Configs
      /\ \A f \in ConfigFunctions : f # Named(c.a) => config'[f] = config[f]
      /\ Exists(c) => config'[Named(c.a)] = Overwritten(config[Named(c.a)], c.reg, 8 * c.size, v)
  BY <1>1, <1>2, <1>5, <1>7, StepOfCall, RegisterPiece, PieceWritten
<1>10. access' # Idle
  <2>1. Idle.pc = "idle"
    BY DEF Idle
  <2> QED BY <1>6, <2>1
<1>11. /\ cycles' \in CycleSeqs
       /\ CyclesExact(c)'
  <2>1. CyclesExact(c) /\ cycles \in CycleSeqs
    BY <1>1, <1>c, StepOfCall
  <2>2. \A i \in DOMAIN cycles : cycles[i].kind = "write" =>
          Register(c.reg, 8 * c.size) \cap Register(cycles[i].reg, cycles[i].w) = {}
    BY <1>3
  <2>3. PICK at, p, w : at = 0 /\ p = c.reg /\ w = 8 * c.size
    OBVIOUS
  <2>4. PieceOf(c, at, p, w) /\ Cycle("write", p, w)
    BY <1>2, <1>5, <2>3, RegisterPiece
  <2>5. \A i \in DOMAIN cycles : cycles[i].kind = "write" =>
          Register(p, w) \cap Register(cycles[i].reg, cycles[i].w) = {}
    BY <2>2, <2>3
  <2> QED BY <2>1, <2>4, <2>5, OneMoreCycle
<1>12. OthersKept(c)'
  BY <1>2, <1>9 DEF OthersKept
<1>13. ConfigTypeOK'
  BY <1>1, <1>2, <1>6, <1>9, <1>10, <1>11, StepOfCall DEF ConfigTypeOK
<1>14. Exists(c) =>
         LET new == config'[Named(c.a)] IN
         /\ new \ NamedBits(c) = InitialConfig[Named(c.a)] \ NamedBits(c)
         /\ (new \cap NamedBits(c)) \ Changes(c) = At(8 * c.reg, Seen(c)) \ Changes(c)
         /\ c.op \in {"Write", "WriteBuffer"} => new \cap NamedBits(c) = At(8 * c.reg, c.data)
  <2> SUFFICES ASSUME Exists(c)
               PROVE LET new == config'[Named(c.a)] IN
                     /\ new \ NamedBits(c) = InitialConfig[Named(c.a)] \ NamedBits(c)
                     /\ (new \cap NamedBits(c)) \ Changes(c) = At(8 * c.reg, Seen(c)) \ Changes(c)
                     /\ c.op \in {"Write", "WriteBuffer"} =>
                          new \cap NamedBits(c) = At(8 * c.reg, c.data)
    OBVIOUS
  <2>1. config'[Named(c.a)] = Overwritten(InitialConfig[Named(c.a)], c.reg, 8 * c.size, v)
    BY <1>2, <1>9
  <2>2. PICK new, old : /\ new = config'[Named(c.a)] /\ old = InitialConfig[Named(c.a)]
                        /\ new = Overwritten(old, c.reg, 8 * c.size, v)
    BY <2>1
  <2>3. /\ new \ NamedBits(c) = old \ NamedBits(c)
        /\ (new \cap NamedBits(c)) \ Changes(c) = At(8 * c.reg, Seen(c)) \ Changes(c)
        /\ c.op \in {"Write", "WriteBuffer"} => new \cap NamedBits(c) = At(8 * c.reg, c.data)
    BY <1>2, <1>7, <1>8, <2>2, WrittenExactly
  <2> QED BY <2>2, <2>3
<1>15. AccessExact'
  BY <1>2, <1>6, <1>11, <1>12, <1>14 DEF AccessExact, CyclesExact, OthersKept
<1> QED BY <1>6, <1>10, <1>11, <1>12, <1>13, <1>15 DEF ConfigInv

-----------------------------------------------------------------------------
\* A piece of a buffer.
LEMMA BufferPiece ==
  ASSUME NEW c \in Accesses, NEW at \in Nat, at < c.size, NEW p, p = c.reg + at,
         NEW w, w = BufferWidth(p, c.size - at)
  PROVE  PieceOf(c, at, p, w)
<1>1. c.reg \in Nat /\ c.size \in Nat /\ p \in Nat
  BY CallShape
<1>2. CASE p % 2 = 1 \/ c.size - at < 2
  <2>1. w = 8
    BY <1>2 DEF BufferWidth
  <2>2. ~(p % 4 = 0 /\ at + 4 <= c.size)
    BY <1>1, <1>2
  <2>3. at + 8 \div 8 <= c.size /\ p % (8 \div 8) = 0
    BY <1>1
  <2> QED BY <1>1, <2>1, <2>2, <2>3 DEF PieceOf
<1>3. CASE p % 2 # 1 /\ c.size - at >= 2 /\ (p % 4 = 2 \/ c.size - at < 4)
  <2>1. w = 16
    BY <1>1, <1>3 DEF BufferWidth
  <2>2. ~(p % 4 = 0 /\ at + 4 <= c.size)
    BY <1>1, <1>3
  <2>3. at + 16 \div 8 <= c.size /\ p % (16 \div 8) = 0
    BY <1>1, <1>3
  <2> QED BY <1>1, <2>1, <2>2, <2>3 DEF PieceOf
<1>4. CASE p % 2 # 1 /\ p % 4 # 2 /\ c.size - at >= 4
  <2>1. w = 32
    BY <1>1, <1>4 DEF BufferWidth
  <2>2. at + 32 \div 8 <= c.size /\ p % (32 \div 8) = 0
    BY <1>1, <1>4
  <2> QED BY <1>1, <2>1, <2>2 DEF PieceOf
<1> QED BY <1>1, <1>2, <1>3, <1>4

\* It is where the rest begins ...
LEMMA PieceEnds ==
  ASSUME NEW c, NEW at, NEW p, NEW w, PieceOf(c, at, p, w)
  PROVE  /\ at + w \div 8 \in Nat /\ at + w \div 8 <= c.size
         /\ c.reg + (at + w \div 8) = p + w \div 8
         /\ 8 * (at + w \div 8) = 8 * at + w
<1>1. c \in Accesses /\ at \in Nat /\ w \in {8, 16, 32} /\ p = c.reg + at /\ at + w \div 8 <= c.size
  BY DEF PieceOf
<1>2. c.reg \in Nat /\ w \div 8 \in Nat /\ 8 * (w \div 8) = w
  BY <1>1, CallShape
<1> QED BY <1>1, <1>2

\* ... which is not inside a BAR either.
LEMMA BarsStayApart ==
  ASSUME NEW c, NEW at, NEW p, NEW w, PieceOf(c, at, p, w), BarsApart(c, p)
  PROVE  BarsApart(c, p + w \div 8)
<1>1. /\ c \in Accesses /\ at \in Nat /\ p \in Nat /\ w \in {8, 16, 32} /\ p = c.reg + at
      /\ (p % 4 = 0 /\ at + 4 <= c.size => w = 32)
  BY DEF PieceOf
<1>2. c.reg \in Nat /\ c.size \in Nat
  BY <1>1, CallShape
<1> SUFFICES ASSUME NEW r \in HiddenBars, c.a.bus = 0, r >= c.reg, r + 4 <= c.reg + c.size
             PROVE  p + w \div 8 <= r \/ p + w \div 8 >= r + 4
  BY DEF BarsApart
<1>3. r \in {16, 20} /\ (p <= r \/ p >= r + 4)
  BY DEF BarsApart, HiddenBars
<1>4. CASE p = r
  <2>1. w = 32
    BY <1>1, <1>2, <1>3, <1>4
  <2> QED BY <1>3, <1>4, <2>1
<1>5. CASE p < r
  <2>1. p % (w \div 8) = 0
    BY DEF PieceOf
  <2> QED BY <1>1, <1>3, <1>5, <2>1
<1>6. CASE p >= r + 4
  BY <1>1, <1>3, <1>6
<1> QED BY <1>1, <1>3, <1>4, <1>5, <1>6

\* What is read, or named, up to there.
LEMMA BelowGrows ==
  ASSUME NEW c, NEW at, NEW p, NEW w, PieceOf(c, at, p, w), NEW n, NEW S, S \in ValuesOf(n)
  PROVE  Below(8 * (at + w \div 8), S)
           = Below(8 * at, S) \cup At(8 * at, Part(at, w, S))
<1>1. /\ at \in Nat /\ w \in {8, 16, 32} /\ 8 * (at + w \div 8) = 8 * at + w
      /\ S \subseteq Int
  BY PieceEnds DEF PieceOf, ValuesOf
<1>2. ASSUME NEW b \in S, b < 8 * at + w
      PROVE  b < 8 * at \/ \E d \in 0..w - 1 : b = 8 * at + d
  <2>1. b \in Int
    BY <1>1, <1>2
  <2>2. CASE b >= 8 * at
    <3>1. b - 8 * at \in 0..w - 1 /\ b = 8 * at + (b - 8 * at)
      BY <1>1, <1>2, <2>1, <2>2
    <3> QED BY <3>1
  <2> QED BY <1>1, <2>1, <2>2
<1>3. \A d \in 0..w - 1 : 8 * at + d < 8 * at + w
  BY <1>1
<1>4. \A b \in S : b < 8 * at => b < 8 * at + w
  BY <1>1
<1> QED BY <1>1, <1>2, <1>3, <1>4 DEF Below, At, Part

\* What is written up to there.
LEMMA FilledGrows ==
  ASSUME NEW c, NEW at, NEW p, NEW w, PieceOf(c, at, p, w), NEW old
  PROVE  Filled(old, c, at + w \div 8)
           = Overwritten(Filled(old, c, at), p, w, Part(at, w, c.data))
<1> DEFINE v == Part(at, w, c.data)
<1>0. PICK k : k = 8 * c.reg
  OBVIOUS
<1>1. /\ at \in Nat /\ w \in {8, 16, 32} /\ 8 * (at + w \div 8) = 8 * at + w
      /\ k \in Int /\ c.data \in ValuesOf(8 * c.size) /\ 8 * p = k + 8 * at
      /\ c.data \subseteq Int
  BY <1>0, PieceEnds, CallShape DEF PieceOf, ValuesOf
<1>2. Below(8 * (at + w \div 8), c.data) = Below(8 * at, c.data) \cup At(8 * at, v)
  BY <1>1, BelowGrows
<1>3. At(k, At(8 * at, v)) = At(8 * p, v)
  <2>1. \A b \in v : k + (8 * at + b) = 8 * p + b
    BY <1>1 DEF Part
  <2> QED BY <2>1 DEF At
<1>4. At(k, Below(8 * (at + w \div 8), c.data)) = At(k, Below(8 * at, c.data)) \cup At(8 * p, v)
  BY <1>2, <1>3 DEF At
<1>5. At(k, 0..8 * (at + w \div 8) - 1) = At(k, 0..8 * at - 1) \cup Register(p, w)
  <2>1. Register(p, w) = {k + (8 * at + b) : b \in 0..w - 1}
    <3>1. \A b \in 0..w - 1 : 8 * p + b = k + (8 * at + b)
      BY <1>1
    <3> QED BY <3>1 DEF Register
  <2>2. ASSUME NEW d \in 0..8 * at + w - 1
        PROVE  d \in 0..8 * at - 1 \/ \E b \in 0..w - 1 : d = 8 * at + b
    <3>1. CASE d >= 8 * at
      <4>1. d - 8 * at \in 0..w - 1 /\ d = 8 * at + (d - 8 * at)
        BY <1>1, <3>1
      <4> QED BY <4>1
    <3> QED BY <1>1, <3>1
  <2>3. \A b \in 0..w - 1 : 8 * at + b \in 0..8 * at + w - 1
    BY <1>1
  <2>4. \A d \in 0..8 * at - 1 : d \in 0..8 * at + w - 1
    BY <1>1
  <2>5. At(k, 0..8 * at + w - 1) = At(k, 0..8 * at - 1) \cup Register(p, w)
    BY <2>1, <2>2, <2>3, <2>4 DEF At
  <2>6. 0..8 * (at + w \div 8) - 1 = 0..8 * at + w - 1
    BY <1>1
  <2> QED BY <2>5, <2>6
<1>6. At(k, Below(8 * at, c.data)) \cap Register(p, w) = {}
  <2> SUFFICES ASSUME NEW d \in c.data, d < 8 * at, NEW b \in 0..w - 1, k + d = 8 * p + b
               PROVE  FALSE
    BY DEF At, Below, Register
  <2> QED BY <1>1
<1> QED BY <1>0, <1>4, <1>5, <1>6 DEF Filled, Overwritten

\* The cycles of a buffer come one after the other.
CyclesUpTo(p) == \A i \in DOMAIN cycles : cycles[i].reg + cycles[i].w \div 8 <= p

\* Each is apart from those before it.
LEMMA BufferCycles ==
  ASSUME NEW c, NEW at, NEW p, NEW w, PieceOf(c, at, p, w), NEW kind \in {"read", "write"},
         cycles \in CycleSeqs, CyclesExact(c), CyclesUpTo(p), Cycle(kind, p, w)
  PROVE  /\ cycles' \in CycleSeqs /\ CyclesExact(c)'
         /\ CyclesUpTo(p + w \div 8)'
<1>1. p \in Nat /\ w \in {8, 16, 32}
  BY DEF PieceOf
<1>2. ASSUME NEW i \in DOMAIN cycles
      PROVE  /\ cycles[i].reg \in Nat /\ cycles[i].w \in {8, 16, 32}
             /\ cycles[i].reg + cycles[i].w \div 8 <= p
             /\ Register(p, w) \cap Register(cycles[i].reg, cycles[i].w) = {}
  <2>1. cycles[i] \in [kind : {"read", "write"}, reg : Nat, w : {8, 16, 32}]
    <3>1. ASSUME NEW S, cycles \in Seq(S) PROVE cycles[i] \in S
      BY <1>2, <3>1
    <3> QED BY <3>1 DEF CycleSeqs
  <2>2. PICK q \in Nat, v \in {8, 16, 32} : q = cycles[i].reg /\ v = cycles[i].w
    BY <2>1
  <2>3. q + v \div 8 <= p
    BY <2>2 DEF CyclesUpTo
  <2>4. Register(p, w) \cap Register(q, v) = {}
    BY <1>1, <2>3, PiecesApart
  <2> QED BY <2>2, <2>3, <2>4
<1>3. cycles' \in CycleSeqs /\ CyclesExact(c)'
  BY <1>2, OneMoreCycle
<1>4. PICK new : /\ cycles' = Append(cycles, new) /\ new.reg = p /\ new.w = w
                 /\ new \in [kind : {"read", "write"}, reg : Nat, w : {8, 16, 32}]
  BY <1>1 DEF Cycle
<1>5. ASSUME NEW i \in DOMAIN cycles'
      PROVE  cycles'[i].reg + cycles'[i].w \div 8 <= p + w \div 8
  <2>1. /\ Len(cycles) \in Nat /\ DOMAIN cycles = 1..Len(cycles)
        /\ DOMAIN cycles' = 1..Len(cycles) + 1
        /\ \A k \in 1..Len(cycles) : cycles'[k] = cycles[k]
        /\ cycles'[Len(cycles) + 1] = new
    BY <1>4 DEF CycleSeqs
  <2>2. CASE i \in DOMAIN cycles
    <3>1. cycles'[i] = cycles[i]
      BY <2>1, <2>2
    <3>2. PICK q \in Nat, v \in {8, 16, 32} : q = cycles[i].reg /\ v = cycles[i].w /\ q + v \div 8 <= p
      BY <1>2, <2>2
    <3>3. q + v \div 8 <= p + w \div 8
      BY <1>1, <3>2
    <3> QED BY <3>1, <3>2, <3>3
  <2>3. CASE i = Len(cycles) + 1
    <3>1. cycles'[i].reg = p /\ cycles'[i].w = w
      BY <1>4, <2>1, <2>3
    <3> QED BY <1>1, <3>1
  <2> QED BY <2>1, <2>2, <2>3
<1>6. CyclesUpTo(p + w \div 8)'
  BY <1>5 DEF CyclesUpTo
<1> QED BY <1>3, <1>6

\* What a call on a buffer has at hand.
LEMMA BufferBegun ==
  ASSUME ConfigInv, access # Idle, access.pc = "buffer", NEW c, c = access.c, NEW at, at = access.at
  PROVE  /\ BufferUpTo(c, at) /\ c \in Accesses /\ at \in Nat /\ c.reg \in Nat /\ c.size \in Nat
         /\ access = [pc |-> "buffer", c |-> c, at |-> at, value |-> access.value]
         /\ config \in Configs /\ cycles \in CycleSeqs /\ CyclesExact(c) /\ OthersKept(c)
         /\ \A f \in ConfigFunctions : f # Named(c.a) \/ Reads(c) => config[f] = InitialConfig[f]
BY StepOfCall, CallShape DEF ConfigInv, OthersKept

\* A buffer that goes on has only to say how far it is.
LEMMA BufferGoesOn ==
  ASSUME NEW c \in Accesses, NEW next \in Nat, NEW value,
         access' = [pc |-> "buffer", c |-> c, at |-> next, value |-> value],
         config' \in Configs, cycles' \in CycleSeqs, CyclesExact(c)', OthersKept(c)',
         BufferUpTo(c, next)'
  PROVE  ConfigInv'
<1>1. /\ access'.pc = "buffer" /\ access'.c = c /\ access'.at = next
      /\ access' = [pc |-> access'.pc, c |-> access'.c, at |-> access'.at, value |-> access'.value]
  OBVIOUS
<1>2. access' # Idle
  <2>1. Idle.pc = "idle"
    BY DEF Idle
  <2> QED BY <1>1, <2>1
<1>3. ConfigTypeOK'
  BY <1>1, <1>2 DEF ConfigTypeOK
<1>4. AccessExact'
  BY <1>1, <1>2 DEF AccessExact, CyclesExact, OthersKept
<1> QED BY <1>1, <1>2, <1>3, <1>4 DEF ConfigInv

\* A piece of a buffer is read.
LEMMA ReadBufferStep == ASSUME ConfigInv, PciSegmentReadBuffer PROVE ConfigInv'
<1>1. /\ access # Idle /\ access.pc = "buffer" /\ access.c.op = "ReadBuffer"
      /\ access.at < access.c.size /\ config' = config
  <2>1. Idle.pc = "idle"
    BY DEF Idle
  <2> QED BY <2>1 DEF PciSegmentReadBuffer, BufferCycle
<1>c. PICK c, at, p, w : /\ c = access.c /\ at = access.at /\ p = c.reg + at
                         /\ w = BufferWidth(p, c.size - at)
  OBVIOUS
<1>2. /\ BufferUpTo(c, at) /\ c \in Accesses /\ at \in Nat /\ c.reg \in Nat /\ c.size \in Nat
      /\ access = [pc |-> "buffer", c |-> c, at |-> at, value |-> access.value]
      /\ config \in Configs /\ cycles \in CycleSeqs /\ CyclesExact(c) /\ OthersKept(c)
      /\ \A f \in ConfigFunctions : f # Named(c.a) \/ Reads(c) => config[f] = InitialConfig[f]
  BY <1>1, <1>c, BufferBegun
<1>3. Reads(c) /\ c.op \in BufferOps
  BY <1>1, <1>c DEF Reads, BufferOps
<1>4. PieceOf(c, at, p, w)
  BY <1>1, <1>2, <1>c, BufferPiece
<1>5. BarsApart(c, p) /\ CyclesUpTo(p) /\ access.value = Below(8 * at, Seen(c))
  BY <1>2, <1>3, <1>c DEF BufferUpTo, CyclesUpTo
<1>6. PciSegmentLibReadWorker(c.a, p, w) = Part(at, w, Seen(c))
  <2>1. Exists(c) => config[Named(c.a)] = InitialConfig[Named(c.a)]
    BY <1>2, <1>3 DEF Exists
  <2> QED BY <1>4, <1>5, <2>1, PieceSeen
<1>7. PICK value : value = access.value \cup At(8 * at, Part(at, w, Seen(c)))
  OBVIOUS
<1>8. access' = [pc |-> "buffer", c |-> c, at |-> at + w \div 8, value |-> value] /\ Cycle("read", p, w)
  BY <1>2, <1>6, <1>7, <1>c DEF PciSegmentReadBuffer, BufferCycle, Piece
<1>9. cycles' \in CycleSeqs /\ CyclesExact(c)' /\ CyclesUpTo(p + w \div 8)'
  BY <1>2, <1>4, <1>5, <1>8, BufferCycles
<1>10. value = Below(8 * (at + w \div 8), Seen(c))
  BY <1>2, <1>4, <1>5, <1>7, SeenIn, BelowGrows
<1>11. PICK next \in Nat : /\ next = at + w \div 8 /\ next <= c.size /\ c.reg + next = p + w \div 8
  BY <1>4, PieceEnds
<1>12. BarsApart(c, c.reg + next) /\ CyclesUpTo(c.reg + next)'
  <2>1. BarsApart(c, p + w \div 8)
    BY <1>4, <1>5, BarsStayApart
  <2> QED BY <1>9, <1>11, <2>1
<1>13. access'.value = Below(8 * next, Seen(c))
  BY <1>8, <1>10, <1>11
<1>14. BufferUpTo(c, next)'
  BY <1>3, <1>11, <1>12, <1>13 DEF BufferUpTo, CyclesUpTo
<1>15. OthersKept(c)'
  BY <1>1, <1>2 DEF OthersKept
<1> QED BY <1>1, <1>2, <1>8, <1>9, <1>11, <1>14, <1>15, BufferGoesOn

\* A piece of a buffer is written.
LEMMA WriteBufferStep == ASSUME ConfigInv, PciSegmentWriteBuffer PROVE ConfigInv'
<1>1. /\ access # Idle /\ access.pc = "buffer" /\ access.c.op = "WriteBuffer"
      /\ access.at < access.c.size
  <2>1. Idle.pc = "idle"
    BY DEF Idle
  <2> QED BY <2>1 DEF PciSegmentWriteBuffer, BufferCycle
<1>c. PICK c, at, p, w : /\ c = access.c /\ at = access.at /\ p = c.reg + at
                         /\ w = BufferWidth(p, c.size - at)
  OBVIOUS
<1>2. /\ BufferUpTo(c, at) /\ c \in Accesses /\ at \in Nat /\ c.reg \in Nat /\ c.size \in Nat
      /\ access = [pc |-> "buffer", c |-> c, at |-> at, value |-> access.value]
      /\ config \in Configs /\ cycles \in CycleSeqs /\ CyclesExact(c) /\ OthersKept(c)
      /\ \A f \in ConfigFunctions : f # Named(c.a) \/ Reads(c) => config[f] = InitialConfig[f]
  BY <1>1, <1>c, BufferBegun
<1>3. ~Reads(c) /\ c.op \in BufferOps
  BY <1>1, <1>c DEF Reads, BufferOps
<1>4. PieceOf(c, at, p, w)
  BY <1>1, <1>2, <1>c, BufferPiece
<1>5. /\ BarsApart(c, p) /\ CyclesUpTo(p)
      /\ Exists(c) => config[Named(c.a)] = Filled(InitialConfig[Named(c.a)], c, at)
  BY <1>2, <1>3, <1>c DEF BufferUpTo, CyclesUpTo
<1>6. PICK v : v = Part(at, w, c.data)
  OBVIOUS
<1>7. v \in ValuesOf(w)
  BY <1>6 DEF Part, ValuesOf
<1>8. /\ access' = [pc |-> "buffer", c |-> c, at |-> at + w \div 8, value |-> access.value]
      /\ Cycle("write", p, w) /\ config' = PciSegmentLibWriteWorker(c.a, p, w, v)
  BY <1>2, <1>6, <1>c DEF PciSegmentWriteBuffer, BufferCycle, Piece, Part
<1>9. cycles' \in CycleSeqs /\ CyclesExact(c)' /\ CyclesUpTo(p + w \div 8)'
  BY <1>2, <1>4, <1>5, <1>8, BufferCycles
<1>10. /\ config' \in Configs
       /\ \A f \in ConfigFunctions : f # Named(c.a) => config'[f] = config[f]
       /\ Exists(c) => config'[Named(c.a)] = Overwritten(config[Named(c.a)], p, w, v)
  BY <1>2, <1>4, <1>7, <1>8, PieceWritten
<1>11. PICK next \in Nat : /\ next = at + w \div 8 /\ next <= c.size /\ c.reg + next = p + w \div 8
  BY <1>4, PieceEnds
<1>12. BarsApart(c, c.reg + next) /\ CyclesUpTo(c.reg + next)'
  <2>1. BarsApart(c, p + w \div 8)
    BY <1>4, <1>5, BarsStayApart
  <2> QED BY <1>9, <1>11, <2>1
<1>13. Exists(c) => config'[Named(c.a)] = Filled(InitialConfig[Named(c.a)], c, next)
  BY <1>4, <1>5, <1>6, <1>10, <1>11, FilledGrows
<1>14. BufferUpTo(c, next)'
  BY <1>3, <1>11, <1>12, <1>13 DEF BufferUpTo, CyclesUpTo
<1>15. OthersKept(c)'
  BY <1>2, <1>3, <1>10 DEF OthersKept
<1> QED BY <1>2, <1>8, <1>9, <1>10, <1>11, <1>14, <1>15, BufferGoesOn

\* Nothing of the buffer is left.
LEMMA ReturnStep == ASSUME ConfigInv, BufferReturns PROVE ConfigInv'
<1>1. access # Idle /\ access.pc = "buffer" /\ access.at = access.c.size
  <2>1. Idle.pc = "idle"
    BY DEF Idle
  <2> QED BY <2>1 DEF BufferReturns
<1>c. PICK c, at : c = access.c /\ at = access.at
  OBVIOUS
<1>2. /\ BufferUpTo(c, at) /\ c \in Accesses /\ at \in Nat /\ c.reg \in Nat /\ c.size \in Nat
      /\ access = [pc |-> "buffer", c |-> c, at |-> at, value |-> access.value]
      /\ config \in Configs /\ cycles \in CycleSeqs /\ CyclesExact(c) /\ OthersKept(c)
      /\ \A f \in ConfigFunctions : f # Named(c.a) \/ Reads(c) => config[f] = InitialConfig[f]
  BY <1>1, <1>c, BufferBegun
<1>3. /\ access' = [pc |-> "done", c |-> c, at |-> at, value |-> access.value]
      /\ config' = config /\ cycles' = cycles
  BY <1>2 DEF BufferReturns
<1>4. /\ access'.pc = "done" /\ access'.c = c /\ access'.at = at /\ access'.value = access.value
      /\ access' = [pc |-> access'.pc, c |-> access'.c, at |-> access'.at, value |-> access'.value]
  BY <1>3
<1>5. access' # Idle
  <2>1. Idle.pc = "idle"
    BY DEF Idle
  <2> QED BY <1>4, <2>1
<1>6. ConfigTypeOK' /\ CyclesExact(c)' /\ OthersKept(c)'
  BY <1>2, <1>3, <1>4, <1>5 DEF ConfigTypeOK, CyclesExact, OthersKept
<1>7. at = c.size /\ c.op \in BufferOps /\ c.op # "BitFieldRead" /\ c.op \notin FieldOps
  BY <1>1, <1>2, <1>c DEF BufferUpTo, BufferOps, FieldOps
<1>8. ASSUME NEW S, S \subseteq 0..8 * c.size - 1 PROVE Below(8 * at, S) = S
  BY <1>2, <1>7, <1>8 DEF Below
<1>9. Reads(c) => access'.value = Seen(c)
  BY <1>2, <1>4, <1>8, SeenIn DEF BufferUpTo
<1>10. ASSUME ~Reads(c), Exists(c)
       PROVE  LET new == config'[Named(c.a)] IN
              /\ new \ NamedBits(c) = InitialConfig[Named(c.a)] \ NamedBits(c)
              /\ (new \cap NamedBits(c)) \ Changes(c) = At(8 * c.reg, Seen(c)) \ Changes(c)
              /\ c.op \in {"Write", "WriteBuffer"} => new \cap NamedBits(c) = At(8 * c.reg, c.data)
  <2>1. PICK new, old : /\ new = config'[Named(c.a)] /\ old = InitialConfig[Named(c.a)]
                        /\ new = Filled(old, c, at)
    BY <1>2, <1>3, <1>10 DEF BufferUpTo
  <2>2. Below(8 * at, c.data) = c.data
    BY <1>2, <1>8, CallShape
  <2>3. At(8 * c.reg, 0..8 * at - 1) = NamedBits(c)
    BY <1>7 DEF At, NamedBits
  <2>4. new = (old \ NamedBits(c)) \cup At(8 * c.reg, c.data)
    BY <2>1, <2>2, <2>3 DEF Filled
  <2>5. At(8 * c.reg, c.data) \subseteq NamedBits(c) /\ At(8 * c.reg, Seen(c)) \subseteq NamedBits(c)
    BY <1>2, CallShape, SeenIn DEF At, NamedBits
  <2>6. Changes(c) = NamedBits(c)
    BY <1>7 DEF Changes
  <2> QED BY <2>1, <2>4, <2>5, <2>6
<1>11. AccessExact'
  BY <1>4, <1>6, <1>7, <1>9, <1>10 DEF AccessExact, CyclesExact, OthersKept
<1> QED BY <1>4, <1>5, <1>6, <1>11 DEF ConfigInv

-----------------------------------------------------------------------------
\* The invariant holds before the call ...
LEMMA ConfigInitially == ConfigInit => ConfigInv
<1> SUFFICES ASSUME ConfigInit PROVE ConfigInv
  OBVIOUS
<1>1. config \in Configs /\ cycles \in CycleSeqs
  BY InitialBits DEF ConfigInit, CycleSeqs
<1> QED BY <1>1 DEF ConfigInit, ConfigInv, ConfigTypeOK, AccessExact, NothingDone

\* ... of whatever leaves its variables alone ...
LEMMA ConfigStays == ConfigInv /\ UNCHANGED configVars => ConfigInv'
<1> SUFFICES ASSUME ConfigInv, UNCHANGED configVars PROVE ConfigInv'
  OBVIOUS
<1>1. config' = config /\ access' = access /\ cycles' = cycles
  BY DEF configVars
<1> QED BY <1>1 DEF ConfigInv, ConfigTypeOK, AccessExact, NothingDone, CyclesExact, OthersKept,
        HasRead, BufferUpTo

\* ... and of each of its steps.
LEMMA ConfigNextKeeps == ConfigInv /\ [ConfigNext]_configVars => ConfigInv'
BY ConfigStays, CallStep, ReadStep, WriteStep, ReadBufferStep, WriteBufferStep, ReturnStep
   DEF ConfigNext
-----------------------------------------------------------------------------
(***************************************************************************)
(* The platform: its sessions, each a driver beside the state of the       *)
(* others at rest.                                                         *)
(***************************************************************************)
PlatformInv == HostInv /\ ConfigInv /\ CardInv /\ CpuInv /\ RtcInv

\* The sessions of the other drivers: the board that rests beside them.
LEMMA RestingBoard == Resting \in Boards
<1>1. SOQuartz \in Boards
  BY DEF Boards
<1>2. SOQuartz.calls[Len(SOQuartz.calls)] = Call("wifi")
  BY DEF SOQuartz, Usb3Phys
<1> QED BY <1>1, <1>2 DEF Resting

\* There is a state of the unit for them.
LEMMA SomeCru == AnyCru \in UniformCrus
<1> DEFINE p == [FbDiv |-> 100, PostDiv1 |-> 2, RefDiv |-> 2, PostDiv2 |-> 1,
                 bypass |-> FALSE, normal |-> TRUE, locked |-> TRUE]
           z == [i \in 0..2 |-> 0]
           c == [pll |-> p, div |-> z, sel |-> z, gates |-> {},
                 resets |-> {PowerupReset(s) : s \in 0..2}, sdmmc |-> z]
<1>1. p \in InitialPlls
  BY Zenon DEF InitialPlls
<1>2. z \in [0..2 -> {0, 3}] /\ z \in [0..2 -> {0, 1}] /\ \A m, n \in 0..2 : z[m] = z[n]
  OBVIOUS
<1>3. c \in InitialCrus /\ c.div = z /\ c.sel = z
  <2> HIDE DEF p
  <2> QED BY <1>1, <1>2 DEF InitialCrus
<1> HIDE DEF p, z, c
<1>4. c \in UniformCrus
  BY <1>2, <1>3 DEF UniformCrus
<1> QED BY <1>4 DEF AnyCru

\* The invariant of the boards holds of one that rests.
LEMMA RestsInv ==
  ASSUME NEW todo \in {<<>>, <<Call("wifi")>>}, HostState(Resting, AnyCru, todo)
  PROVE  HostInv
<1>1. Call("wifi") \in AllCalls /\ Call("wifi") # PcieCall /\ Call("wifi").call = "wifi"
  BY DEF AllCalls, BoardCalls, Call, PcieCall
<1>2. CallsOk(<<>>)
  BY DEF CallsOk
<1>3. CallsOk(<<Call("wifi")>>)
  <2>1. PICK w : w = Call("wifi")
    OBVIOUS
  <2>2. CallsOk(<<w>>)
    BY <1>1, <2>1 DEF CallsOk
  <2> QED BY <2>1, <2>2
<1>4. /\ CallsOk(todo) /\ SatasHavePhys(todo)
      /\ \A i \in 1..Len(todo) : todo[i] # PcieCall
  BY <1>1, <1>2, <1>3 DEF SatasHavePhys
<1> QED BY <1>4, RestingBoard, SomeCru, HostBegins

\* Every session begins with the invariant.
LEMMA PlatformBegins == Init => PlatformInv
<1> SUFFICES ASSUME Init PROVE PlatformInv
  OBVIOUS
<1>1. PICK s \in {"boards", "config", "cpu", "rtc", "sd", "emmc"} : Starts(s)
  BY DEF Init
<1>2. HostInv
  <2>1. \/ HostInit \/ HostState(Resting, AnyCru, <<Call("wifi")>>) \/ HostState(Resting,
             AnyCru, <<>>)
    BY <1>1 DEF Starts
  <2> QED BY <2>1, HostInitInv, RestsInv
<1>3. CpuInit /\ SdInit /\ EmmcInit /\ RtcInit /\ ConfigInit
  BY <1>1 DEF Starts, CpuRests, SdRests, EmmcRests, Init
<1> QED BY <1>2, <1>3, CpuInitInv, CardsBegin, RtcInitInv, ConfigInitially DEF PlatformInv

\* The card drivers leave the boards their invariant.
LEMMA SdLeavesHost ==
  ASSUME HostInv, SdNext
  PROVE  HostInv'
<1>1. CASE MshcDxeInitialize
  <2>1. CruOk(cru) /\ cru.sdmmc \in [0..2 -> 0..5]
    BY DEF HostInv, HostTypeOK, CruOk
  <2>2. PICK v : v = CruSetSdmmcClockRate(cru.sdmmc, 0, 100000)
    OBVIOUS
  <2>3. v \in [0..2 -> 0..5]
    <3>1. SdmmcSel(100000) = 3
      BY Source100MHz
    <3> QED BY <2>1, <2>2, <3>1 DEF CruSetSdmmcClockRate
  <2>4. cru' = [cru EXCEPT !.sdmmc = v]
    BY <1>1, <2>2 DEF MshcDxeInitialize
  <2>5. /\ CruOk(cru') /\ cru'.resets = cru.resets /\ cru'.pll = cru.pll /\ cru'.div = cru.div
        /\ cru'.sel = cru.sel /\ cru'.gates = cru.gates
    BY <2>1, <2>3, <2>4, UnitSdmmc
  <2>6. UNCHANGED <<board, gaveUp, calls, hostPc, polls, phy, pmic, gmac, pci, ahci>>
    BY <1>1 DEF MshcDxeInitialize
  <2> QED BY <2>5, <2>6, HostRests
<1>2. CASE UNCHANGED hostVars
  BY <1>2, HostRests DEF hostVars, HostInv, HostTypeOK
<1>3. \/ UNCHANGED hostVars \/ MshcDxeInitialize
  BY DEF SdNext, SdStep, MshcNotifyState, MshcNotifyStateEnds, MshcSetIos, MshcDividerNotFound,
         MshcCardIdle, MshcDisableClock, MshcWriteDivider, MshcEnableClock, MshcUpdateClock,
         MshcUpdateFails
<1> QED BY <1>1, <1>2, <1>3

LEMMA EmmcLeavesHost ==
  ASSUME EmmcNext
  PROVE  UNCHANGED hostVars
BY DEF EmmcNext, EmmcStep, EmmcDxeInitialize, EmmcSdMmcCapability, EmmcInitHostPost,
       EmmcSwitchClockFreqPost, EmmcDllLocks, EmmcDllPoll, EmmcDllEnabled

\* Every step of a session keeps it: one driver moves, the others see at most the unit.
LEMMA PlatformKeeps == PlatformInv /\ [Next]_vars => PlatformInv'
<1> SUFFICES ASSUME PlatformInv, [Next]_vars PROVE PlatformInv'
  OBVIOUS
<1>1. HostInv /\ ConfigInv /\ CardInv /\ CpuInv /\ RtcInv /\ CruOk(cru)
  BY DEF PlatformInv, HostInv, HostTypeOK
<1>2. UNCHANGED cpuVars => CpuInv'
  BY <1>1, CpuStepInv
<1>3. UNCHANGED rtcVars => RtcInv'
  BY <1>1, RtcStepInv
<1>4. UNCHANGED hostVars => HostInv' /\ cru' = cru
  BY <1>1, HostRests DEF hostVars
<1>5. UNCHANGED cardVars /\ cru'.sdmmc[0] = cru.sdmmc[0] => CardInv'
  BY <1>1, CardsStay DEF cardVars
<1>6. UNCHANGED configVars => ConfigInv'
  BY <1>1, ConfigStays
<1>7. CASE HostStep
  <2>1. HostInv' /\ cru'.sdmmc[0] = cru.sdmmc[0]
    BY <1>1, <1>7, HostNextKeeps DEF HostStep
  <2> QED BY <1>2, <1>3, <1>5, <1>6, <1>7, <2>1 DEF HostStep, PlatformInv
<1>8. CASE ConfigStep
  <2>1. ConfigInv'
    BY <1>1, <1>8, ConfigNextKeeps DEF ConfigStep
  <2> QED BY <1>2, <1>3, <1>4, <1>5, <1>8, <2>1 DEF ConfigStep, PlatformInv
<1>9. CASE CpuStep
  <2>1. CpuInv'
    BY <1>1, <1>9, CpuStepInv DEF CpuStep
  <2> QED BY <1>3, <1>4, <1>5, <1>6, <1>9, <2>1 DEF CpuStep, PlatformInv
<1>10. CASE RtcStep
  <2>1. RtcInv'
    BY <1>1, <1>10, RtcStepInv DEF RtcStep
  <2> QED BY <1>2, <1>4, <1>5, <1>6, <1>10, <2>1 DEF RtcStep, PlatformInv
<1>11. CASE SdSession
  <2>1. HostInv' /\ CardInv'
    BY <1>1, <1>11, SdLeavesHost, SdNextKeeps DEF SdSession
  <2> QED BY <1>2, <1>3, <1>6, <1>11, <2>1 DEF SdSession, PlatformInv
<1>12. CASE EmmcSession
  <2>1. UNCHANGED hostVars /\ CardInv'
    BY <1>1, <1>12, EmmcLeavesHost, EmmcNextKeeps DEF EmmcSession
  <2> QED BY <1>2, <1>3, <1>4, <1>6, <1>12, <2>1 DEF EmmcSession, PlatformInv
<1>13. CASE UNCHANGED vars
  BY <1>2, <1>3, <1>4, <1>5, <1>6, <1>13 DEF vars, PlatformInv
<1> QED BY <1>7, <1>8, <1>9, <1>10, <1>11, <1>12, <1>13 DEF Next

(* The invariant holds of the whole platform, of every board, any state the *)
(* boot loader leaves the clock unit in, and whatever times out or fails.   *)
THEOREM PlatformInvariant == Spec => []PlatformInv
BY PlatformBegins, PlatformKeeps, PTL DEF Spec

(* The reference a combo PHY was told of is the one it gets: every call of  *)
(* MultiPhySetMode programs the PLL that all share, and to the same rate.   *)
THEOREM ReferencesAlwaysMatch == Spec => []ReferenceMatches
<1>1. PlatformInv => ReferenceMatches
  BY ReferencesMatch DEF PlatformInv
<1> QED BY <1>1, PlatformInvariant, PTL

(* No device is used before what it depends on is up: InitializePciHost,    *)
(* BoardInitGmac, BoardInitPmic and InitializeSataController, in the order  *)
(* of each of the nine boards and for any bound on the polls.  The rate of  *)
(* a PHY's reference is promised unless the last wait for the PLL was given *)
(* up, the voltage of a rail unless a transfer to the PMIC has failed.      *)
THEOREM DevicesAlwaysReady == Spec => []DevicesReady
<1>1. PlatformInv => DevicesReady
  BY DevicesAreReady DEF PlatformInv
<1> QED BY <1>1, PlatformInvariant, PTL

(* A card is never clocked faster than was asked for it: MshcSetClock and   *)
(* EmmcSwitchClockFreqPost, beside the boards that set the other sources,   *)
(* as long as the SD controller has refused no update.                      *)
THEOREM CardClockAlwaysWithin == Spec => []CardClockWithin
<1>1. PlatformInv => CardClockWithin
  BY CardsWithin DEF PlatformInv
<1> QED BY <1>1, PlatformInvariant, PTL

(* Whatever a call of PciSegmentLib is made of, it reads or writes exactly  *)
(* the bytes it names of the function it names, in aligned cycles, each     *)
(* once, for any bytes of configuration space and any size of a buffer.     *)
THEOREM AccessesAlwaysExact == Spec => []AccessExact
<1>1. PlatformInv => AccessExact
  BY DEF PlatformInv, ConfigInv
<1> QED BY <1>1, PlatformInvariant, PTL

(* ApplyVariables never lets the voltage fall short of the clock, within    *)
(* the limits of VoltageAlwaysSuffices, and a time that LibGetTime returns  *)
(* was not lost before the call, beside all the other drivers.              *)
THEOREM PlatformSafe == Spec => [](VoltageSuffices /\ LossIsDetected)
<1>1. PlatformInv => VoltageSuffices /\ LossIsDetected
  BY DEF PlatformInv, CpuInv, RtcInv
<1> QED BY <1>1, PlatformInvariant, PTL
-----------------------------------------------------------------------------
(***************************************************************************)
(* The block transfers of the SD driver, for any size of the card, any     *)
(* bound on a transfer and any depth of the FIFO.  The invariant follows a *)
(* transfer from the command to the result: one is under way only when the *)
(* driver waits for it (OneTransfer), one command is in the register at a  *)
(* time (OneCommand), the card is in the state and at the block that the   *)
(* controller believes (CardFollows), and each block that left the card    *)
(* (ReadOn) or the buffer (WriteOn) is in its place, in the FIFO, or told  *)
(* of by an interrupt (Accounted).                                         *)
(***************************************************************************)
\* Nothing comes from the card or is taken by it any more.
Quiet == xfer = "none" \/ (xfer = "read" /\ bytcnt = 0)

\* A transfer's own call, from its command to its result.
InTransfer == cmd = "data" /\ pc \in {"sent", "check", "look", "push", "mask"}

Steps ==
  /\ pc \in {"prvdata", "fifo", "check", "look", "push", "mask"} => cmd = "data"
  /\ pc \in {"check", "look"} => mMshcCommand = "read"
  /\ pc \in {"push", "mask"} => mMshcCommand = "write"
  /\ pc \in {"prvdata", "fifo"} \/ (pc \in {"send", "sent"} /\ cmd = "data") => got = <<>>
       /\ left = length
  /\ pc = "send" /\ cmd = "data" => fifo = <<>>
  /\ left <= length

OneTransfer ==
  /\ pc \in {"idle", "prvdata", "fifo"} => Quiet
  /\ pc = "send" /\ cmd # "stop" => Quiet
  /\ pc = "returned" /\ (cmd # "data" \/ status = "success") => Quiet
  /\ pc = "sent" /\ cmd = "status" => xfer = "none"
  /\ pc = "sent" /\ cmd = "stop" /\ RINTSTS \cap {"CMD_DONE", "DTO"} # {} => Quiet
  /\ InTransfer /\ xfer # "none" => xfer = mMshcCommand

OneCommand ==
  /\ start /\ issued # "stop" => pc = "sent" /\ cmd = issued /\ xfer = "none"
       /\ RINTSTS \subseteq {"DCRC"}
  /\ start /\ pc = "sent" => issued = cmd
  /\ pc \in {"check", "look", "push", "mask"} => ~ start
  /\ pc = "returned" /\ cmd = "status" => ~ start

CardFollows ==
  /\ mMshcArgument + length <= Last + 1
  /\ xfer = "write" => card = "rcv"
  /\ xfer = "read" /\ bytcnt > 0 => card = "data"
  /\ ~ Quiet => mMshcCommand = xfer /\ bytcnt <= length /\ pos + bytcnt = mMshcArgument + length

Accounted(e, last) == e.intact \/ "DCRC" \in RINTSTS \/ (crc /\ last)

ReadOn ==
  InTransfer /\ mMshcCommand = "read" =>
    /\ left = length - Len(got) /\ Len(got) + Len(fifo) <= length
    /\ start => fifo = <<>>
    /\ xfer = "read" => bytcnt = length - (Len(got) + Len(fifo))
    /\ \A i \in 1 .. Len(got) :
         /\ got[i].block = mMshcArgument + i - 1
         /\ Accounted(got[i], i = Len(got) /\ fifo = <<>>)
    /\ \A i \in 1 .. Len(fifo) :
         /\ fifo[i].block = mMshcArgument + Len(got) + i - 1
         /\ Accounted(fifo[i], i = Len(fifo))

WriteOn ==
  /\ xfer = "write" =>
       /\ \A i \in 1 .. Len(fifo) : fifo[i].block = pos + i - 1
       /\ Len(stored) + bytcnt = length
       /\ ~ InTransfer => bytcnt > Len(fifo)
  /\ InTransfer /\ mMshcCommand = "write" =>
       /\ xfer = "write" => bytcnt = Len(fifo) + left
       /\ pc = "sent" => fifo = <<>>
       /\ ~ start /\ "DTO" \in RINTSTS => xfer = "none" /\ Len(stored) = length
       /\ ~ start /\ "RTO" \notin RINTSTS => ~ crc
       /\ pc # "sent" => "RTO" \notin RINTSTS /\ (RINTSTS \cap DataErrors # {} => xfer = "none")

MshcInv ==
  /\ MshcTypeOK /\ Steps /\ OneTransfer /\ OneCommand /\ CardFollows /\ ReadOn /\ WriteOn
  /\ TransfersRight /\ StateIsAnswered

-----------------------------------------------------------------------------
(* What becomes of a command: the card takes a transfer (1) or a stop (2), or *)
(* only answers, or does not (3).                                             *)
LEMMA CommandCases ==
  ASSUME MshcInv, HcCommand
  PROVE  /\ start /\ start' = FALSE /\ (issued = "stop" \/ xfer = "none")
         /\ UNCHANGED <<issued, pc, cmd, remembered, buffer, status, fifo>>
         /\ \/ /\ issued = "data" /\ card = "tran"
               /\ RINTSTS' \in {RINTSTS \cup {"CMD_DONE"}, RINTSTS \cup {"CMD_DONE", "RCRC"}}
               /\ xfer' = mMshcCommand /\ bytcnt' = length /\ crc' = FALSE
               /\ card' = (IF mMshcCommand = "read" THEN "data" ELSE "rcv")
               /\ pos' = mMshcArgument /\ stored' = <<>>
            \/ /\ issued = "stop" /\ card \in {"data", "rcv"}
               /\ RINTSTS' \in {RINTSTS \cup {"CMD_DONE"}, RINTSTS \cup {"CMD_DONE", "RCRC"}}
               /\ xfer' = "none" /\ crc' = FALSE
               /\ card' = (IF card = "data" THEN "tran" ELSE "prg")
               /\ UNCHANGED <<bytcnt, pos, stored>>
            \/ /\ issued = "stop" => card \notin {"data", "rcv"}
               /\ \/ issued = "status" /\ RINTSTS' \in {RINTSTS \cup {"CMD_DONE"},
                       RINTSTS \cup {"CMD_DONE", "RCRC"}}
                  \/ RINTSTS' = RINTSTS \cup {"CMD_DONE", "RTO"}
               /\ UNCHANGED <<xfer, bytcnt, crc, card, pos, stored>>
<1>1. issued \in {"data", "status", "stop"} /\ card \in {"tran", "data", "rcv", "prg"}
  BY DEF MshcInv, MshcTypeOK
<1>2. CASE CardHasTaken /\ issued = "data"
  BY <1>2 DEF HcCommand, Held, CardHasTaken, CardTakes, CMD, hc, medium
<1>3. CASE CardHasTaken /\ issued = "stop"
  BY <1>3 DEF HcCommand, Held, CardHasTaken, CardTakes, CMD, hc, medium
<1>4. CASE CardHasTaken /\ issued = "status"
  BY <1>4 DEF HcCommand, Held, CardHasTaken, CardTakes, CMD, hc, medium
<1>5. CASE CardHasNotTaken
  <2>1. issued = "stop" => card \notin {"data", "rcv"}
    BY <1>5 DEF CardHasNotTaken, CardTakes
  <2> QED BY <1>5, <2>1 DEF HcCommand, Held, CardHasNotTaken, hc, medium
<1> QED BY <1>1, <1>2, <1>3, <1>4, <1>5 DEF HcCommand

(* What ReadTakes and HcSend take off the FIFO, and what is left of it.       *)
LEMMA Taking ==
  ASSUME NEW S, NEW s \in Seq(S), s # <<>>
  PROVE  /\ Head(s) = s[1] /\ Head(s) \in S /\ Tail(s) \in Seq(S) /\ Len(s) > 0
         /\ Len(Tail(s)) = Len(s) - 1
         /\ \A i \in 1 .. Len(s) - 1 : Tail(s)[i] = s[i + 1]
OBVIOUS

LEMMA Adding ==
  ASSUME NEW S, NEW s \in Seq(S), NEW e \in S
  PROVE  /\ Append(s, e) \in Seq(S) /\ Len(Append(s, e)) = Len(s) + 1
         /\ \A i \in 1 .. Len(s) : Append(s, e)[i] = s[i]
         /\ Append(s, e)[Len(s) + 1] = e
OBVIOUS

-----------------------------------------------------------------------------
(* The steps that move a block, or end a command, against each part of the   *)
(* invariant they disturb.                                                  *)
LEMMA Changed ==
  ASSUME MshcInv, HcCommand
  PROVE  /\ RINTSTS' \subseteq {"CMD_DONE", "DTO"} \cup CmdErrors \cup DataErrors
         /\ RINTSTS \subseteq RINTSTS' /\ "CMD_DONE" \in RINTSTS'
         /\ "DTO" \in RINTSTS' <=> "DTO" \in RINTSTS
         /\ RINTSTS' \cap DataErrors = RINTSTS \cap DataErrors
         /\ "RTO" \in RINTSTS => "RTO" \in RINTSTS'
<1>1. MshcTypeOK
  BY DEF MshcInv
<1>2. RINTSTS' \in {RINTSTS \cup {"CMD_DONE"}, RINTSTS \cup {"CMD_DONE", "RCRC"},
        RINTSTS \cup {"CMD_DONE", "RTO"}}
  BY <1>1, CommandCases
<1>3. RINTSTS \subseteq {"CMD_DONE", "DTO"} \cup CmdErrors \cup DataErrors
  BY <1>1 DEF MshcTypeOK
<1> QED BY <1>2, <1>3 DEF CmdErrors, DataErrors

\* A command that is taken, against each part of the invariant.
LEMMA CommandType == ASSUME MshcInv, HcCommand PROVE MshcTypeOK'
<1>1. MshcTypeOK
  BY DEF MshcInv
<1>2. Blocks \subseteq 0 .. Last + 1 /\ length \in 0 .. MaxLength
        /\ <<>> \in Seq([at : Blocks, block : Blocks])
  BY <1>1, SizeAssumption DEF MshcTypeOK, Blocks
<1>3. /\ xfer' \in {"none", "read", "write"} /\ bytcnt' \in 0 .. MaxLength /\ crc' \in BOOLEAN
      /\ pos' \in 0 .. Last + 1 /\ start' \in BOOLEAN
  BY <1>1, <1>2, CommandCases DEF MshcTypeOK
<1>4. card' \in {"tran", "data", "rcv", "prg"}
  <2>1. card \in {"tran", "data", "rcv", "prg"}
    BY <1>1 DEF MshcTypeOK
  <2> QED BY <2>1, CommandCases
<1>5. stored' \in Seq([at : Blocks, block : Blocks])
  <2>1. stored' = stored \/ stored' = <<>>
    BY CommandCases
  <2> QED BY <1>1, <1>2, <2>1 DEF MshcTypeOK
<1>6. UNCHANGED <<issued, pc, cmd, mMshcCommand, mMshcArgument, length, left, got, status, fifo>>
  BY <1>1, CommandCases DEF remembered, buffer
<1> QED BY <1>1, <1>3, <1>6, <1>4, <1>5, Changed DEF MshcTypeOK, Entry, Blocks, CmdErrors,
             DataErrors

\* A command that a transfer's own call has given finds none under way.
LEMMA CommandQuiet ==
  ASSUME MshcInv, HcCommand
  PROVE  /\ UNCHANGED <<issued, pc, cmd, mMshcCommand, mMshcArgument, length, left, got,
              status, fifo>>
         /\ issued # "stop" => pc = "sent" /\ cmd = issued /\ xfer = "none"
              /\ RINTSTS \subseteq {"DCRC"}
         /\ issued = "stop" /\ pc = "sent" => cmd = "stop"
         /\ InTransfer => pc = "sent" /\ issued = "data"
         /\ Quiet => (issued # "data" => Quiet')
         /\ issued = "stop" => (xfer' = "write" => xfer = "write" /\ UNCHANGED <<bytcnt,
              card, pos, stored>>)
<1>1. MshcTypeOK /\ OneCommand /\ CardFollows /\ start
  BY CommandCases DEF MshcInv
<1>2. UNCHANGED <<issued, pc, cmd, mMshcCommand, mMshcArgument, length, left, got, status, fifo>>
  BY <1>1, CommandCases DEF remembered, buffer
<1>3. issued \in {"data", "status", "stop"} /\ issued # "stop" => pc = "sent"
        /\ cmd = issued /\ xfer = "none" /\ RINTSTS \subseteq {"DCRC"}
  BY <1>1 DEF OneCommand, MshcTypeOK
<1>4. Quiet => (issued # "data" => Quiet')
  BY <1>1, CommandCases DEF Quiet
<1>5. InTransfer => pc = "sent" /\ issued = "data"
  BY <1>1 DEF InTransfer, OneCommand
<1>6. issued = "stop" => (xfer' = "write" => xfer = "write" /\ UNCHANGED <<bytcnt, card, pos,
        stored>>)
  BY <1>1, CommandCases
<1> QED BY <1>1, <1>2, <1>3, <1>4, <1>5, <1>6 DEF OneCommand

LEMMA CommandOneTransfer == ASSUME MshcInv, HcCommand PROVE OneTransfer' /\ Steps' /\ OneCommand'
<1>1. MshcTypeOK /\ OneTransfer /\ CardFollows /\ Steps /\ OneCommand /\ start /\ ~ start'
  BY CommandCases DEF MshcInv
<1>2. Steps' /\ OneCommand'
  BY <1>1, CommandQuiet DEF Steps, OneCommand
<1>3. issued = "data" => pc = "sent" /\ cmd = "data"
  BY CommandQuiet
<1>4. pc = "sent" /\ cmd = "status" => xfer' = "none"
  BY <1>1, CommandQuiet, CommandCases
<1>5. pc = "sent" /\ cmd = "stop" => issued = "stop"
  BY <1>1 DEF OneCommand
<1>6. issued = "stop" => Quiet'
  <2>1. xfer \in {"none", "read", "write"} /\ bytcnt \in Nat
    BY <1>1 DEF MshcTypeOK
  <2>2. card \notin {"data", "rcv"} => Quiet
    BY <1>1, <2>1 DEF Quiet, CardFollows
  <2>3. issued = "stop" => xfer' = "none" \/ (card \notin {"data", "rcv"}
          /\ UNCHANGED <<xfer, bytcnt>>)
    BY CommandCases
  <2> QED BY <2>2, <2>3 DEF Quiet
<1>7. InTransfer' /\ xfer' # "none" => xfer' = mMshcCommand'
  BY <1>1, CommandQuiet, CommandCases DEF InTransfer
<1> QED BY <1>1, <1>2, <1>3, <1>4, <1>5, <1>6, <1>7, CommandQuiet DEF OneTransfer

LEMMA CommandCardFollows == ASSUME MshcInv, HcCommand PROVE CardFollows'
<1>1. MshcTypeOK /\ CardFollows
  BY DEF MshcInv
<1>2. UNCHANGED <<mMshcCommand, mMshcArgument, length>>
  BY CommandQuiet
<1>3. CASE UNCHANGED <<xfer, bytcnt, crc, card, pos, stored>>
  BY <1>1, <1>2, <1>3 DEF CardFollows, Quiet
<1>4. CASE xfer' = "none"
  BY <1>1, <1>2, <1>4 DEF CardFollows, Quiet
<1>5. CASE /\ xfer' = mMshcCommand /\ bytcnt' = length /\ pos' = mMshcArgument
           /\ card' = (IF mMshcCommand = "read" THEN "data" ELSE "rcv")
  BY <1>1, <1>2, <1>5 DEF CardFollows, Quiet, MshcTypeOK, Blocks
<1> QED BY <1>1, <1>3, <1>4, <1>5, CommandCases

LEMMA CommandReadOn == ASSUME MshcInv, HcCommand PROVE ReadOn'
<1> SUFFICES ASSUME InTransfer', mMshcCommand' = "read" PROVE ReadOn'
  BY DEF ReadOn
<1>1. MshcTypeOK /\ Steps /\ ReadOn /\ start /\ ~ start'
  BY CommandCases DEF MshcInv
<1>2. UNCHANGED <<issued, pc, cmd, mMshcCommand, mMshcArgument, length, left, got, status, fifo>>
  BY CommandQuiet
<1>3. pc = "sent" /\ cmd = "data" /\ issued = "data" /\ xfer = "none" /\ mMshcCommand = "read"
  BY <1>2, CommandQuiet DEF InTransfer
<1>4. got = <<>> /\ left = length /\ fifo = <<>>
  BY <1>1, <1>3 DEF Steps, ReadOn, InTransfer
<1>5. xfer' = "read" => bytcnt' = length
  BY <1>3, CommandCases
<1>6. length \in Nat
  BY <1>1 DEF MshcTypeOK
<1> QED BY <1>1, <1>2, <1>4, <1>5, <1>6 DEF ReadOn

LEMMA CommandWriteOn == ASSUME MshcInv, HcCommand PROVE WriteOn' /\ TransfersRight'
<1>1. MshcTypeOK /\ Steps /\ WriteOn /\ TransfersRight /\ start /\ ~ start'
  BY CommandCases DEF MshcInv
<1>2. UNCHANGED <<issued, pc, cmd, mMshcCommand, mMshcArgument, length, left, got, status, fifo>>
  BY CommandQuiet
<1>3. InTransfer' <=> InTransfer
  BY <1>2 DEF InTransfer
<1>4. length \in Nat
  BY <1>1 DEF MshcTypeOK
<1>5. CASE issued = "data"
  <2>1. pc = "sent" /\ cmd = "data" /\ xfer = "none" /\ RINTSTS \subseteq {"DCRC"}
          /\ left = length /\ InTransfer
    BY <1>1, <1>5, CommandQuiet DEF Steps, InTransfer
  <2>2. mMshcCommand = "write" => fifo = <<>>
    BY <1>1, <2>1 DEF WriteOn
  <2>3. xfer' = "none" \/ (xfer' = mMshcCommand /\ bytcnt' = length /\ stored' = <<>>
          /\ crc' = FALSE)
    BY <2>1, <1>5, CommandCases
  <2>4. "DTO" \notin RINTSTS'
    BY <2>1, Changed
  <2>5. "RTO" \notin RINTSTS' => crc' = FALSE
    BY <1>5, CommandCases
  <2>6. stored' = <<>> \/ stored' = stored
    BY CommandCases
  <2>7. WriteOn'
    BY SMTT(30), <1>1, <1>2, <1>3, <1>4, <2>1, <2>2, <2>3, <2>4, <2>5 DEF WriteOn, MshcTypeOK
  <2>8. TransfersRight'
    BY <1>1, <1>2, <2>1, <2>6 DEF TransfersRight, ReadRight, WriteRight, Succeeded
  <2> QED BY <2>7, <2>8
<1>6. CASE issued # "data"
  <2>1. ~ InTransfer /\ stored' = stored
    BY <1>6, CommandQuiet, CommandCases
  <2>2. xfer' = "write" => xfer = "write" /\ UNCHANGED <<bytcnt, pos>>
    BY <1>6, CommandCases
  <2>3. WriteOn'
    BY <1>1, <1>2, <1>3, <2>1, <2>2 DEF WriteOn
  <2>4. TransfersRight'
    BY <1>1, <1>2, <2>1 DEF TransfersRight, ReadRight, WriteRight, Succeeded
  <2> QED BY <2>3, <2>4
<1> QED BY <1>5, <1>6

LEMMA ReceiveTypeOK == ASSUME MshcInv, HcReceive PROVE MshcTypeOK' /\ Steps'
<1>1. MshcTypeOK /\ Steps /\ OneTransfer /\ CardFollows
  BY DEF MshcInv
<1>2. pos \in Blocks /\ pos + 1 \in 0 .. Last + 1
  BY <1>1, SizeAssumption DEF HcReceive, MshcTypeOK, CardFollows, Quiet, Blocks
<1>3. fifo' \in Seq(Entry) /\ crc' \in BOOLEAN
  <2>1. PICK intact \in BOOLEAN : fifo' = Append(fifo, [block |-> pos, intact |-> intact])
               /\ crc' = ~ intact
    BY DEF HcReceive
  <2>2. [block |-> pos, intact |-> intact] \in Entry /\ fifo \in Seq(Entry)
    BY <1>1, <1>2, <2>1 DEF Entry, MshcTypeOK
  <2> QED BY <2>1, <2>2, Adding
<1>4. bytcnt' \in 0 .. MaxLength /\ card' \in {"tran", "data", "rcv", "prg"}
        /\ pos' \in 0 .. Last + 1
  BY <1>1, <1>2, SizeAssumption DEF HcReceive, MshcTypeOK
<1>5. ~ (pc = "send" /\ cmd = "data")
  BY <1>1 DEF HcReceive, OneTransfer, Quiet, MshcTypeOK
<1> QED BY <1>1, <1>3, <1>4, <1>5 DEF MshcTypeOK, Steps, HcReceive, CMD, remembered, buffer

LEMMA SendTypeOK == ASSUME MshcInv, HcSend PROVE MshcTypeOK' /\ Steps'
<1>1. MshcTypeOK /\ Steps /\ CardFollows /\ OneTransfer
  BY DEF MshcInv
<1>2. pos \in Blocks /\ pos + 1 \in 0 .. Last + 1
  BY <1>1, SizeAssumption DEF HcSend, MshcTypeOK, CardFollows, Quiet, Blocks
<1>3. Head(fifo) \in Entry /\ fifo' \in Seq(Entry)
  BY <1>1, Taking DEF HcSend, MshcTypeOK
<1>4. stored' \in Seq([at : Blocks, block : Blocks])
  <2>1. [at |-> pos, block |-> Head(fifo).block] \in [at : Blocks, block : Blocks]
    BY <1>2, <1>3 DEF Entry
  <2> QED BY <1>1, <2>1, Adding DEF HcSend, MshcTypeOK
<1>5. bytcnt' \in 0 .. MaxLength /\ pos' \in 0 .. Last + 1
  BY <1>1, <1>2, SizeAssumption DEF HcSend, MshcTypeOK
<1>6. ~ (pc = "send" /\ cmd = "data")
  BY <1>1 DEF HcSend, Steps
<1> QED BY <1>1, <1>3, <1>4, <1>5, <1>6 DEF MshcTypeOK, Steps, HcSend, CMD, remembered, buffer

LEMMA TakeTypeOK == ASSUME MshcInv, ReadTakes PROVE MshcTypeOK'
<1>1. MshcTypeOK
  BY DEF MshcInv
<1>2. Head(fifo) \in Entry /\ fifo' \in Seq(Entry)
  BY <1>1, Taking DEF ReadTakes, MshcTypeOK
<1>3. got' \in Seq(Entry)
  BY <1>1, <1>2, Adding DEF ReadTakes, MshcTypeOK
<1>4. left' \in 0 .. MaxLength
  BY <1>1, SizeAssumption DEF ReadTakes, MshcTypeOK
<1> QED BY <1>1, <1>2, <1>3, <1>4 DEF MshcTypeOK, ReadTakes, CMD, remembered, hc, medium

LEMMA PushTypeOK == ASSUME MshcInv, WritePushes PROVE MshcTypeOK'
<1>1. MshcTypeOK /\ Steps /\ CardFollows
  BY DEF MshcInv
<1>2. mMshcArgument + length - left \in Blocks
  BY <1>1, SizeAssumption DEF WritePushes, MshcTypeOK, Steps, CardFollows, Blocks
<1>3. fifo' \in Seq(Entry)
  <2>1. [block |-> mMshcArgument + length - left, intact |-> TRUE] \in Entry
    BY <1>2 DEF Entry
  <2> QED BY <1>1, <2>1, Adding DEF WritePushes, MshcTypeOK
<1>4. left' \in 0 .. MaxLength
  BY <1>1, SizeAssumption DEF WritePushes, MshcTypeOK
<1> QED BY <1>1, <1>3, <1>4 DEF MshcTypeOK, WritePushes, CMD, remembered, hc, medium

LEMMA ReceiveReadOn == ASSUME MshcInv, HcReceive PROVE ReadOn'
<1> SUFFICES ASSUME InTransfer', mMshcCommand' = "read" PROVE ReadOn'
  BY DEF ReadOn
<1>1. MshcTypeOK /\ OneCommand /\ CardFollows /\ ReadOn
  BY DEF MshcInv
<1>2. UNCHANGED <<pc, cmd, mMshcCommand, mMshcArgument, length, left, got, start, issued,
        RINTSTS, xfer>>
  BY DEF HcReceive, remembered, buffer, CMD
<1>3. InTransfer /\ mMshcCommand = "read" /\ xfer = "read" /\ bytcnt \in Nat /\ bytcnt > 0
        /\ start = FALSE
  BY <1>1, <1>2 DEF InTransfer, HcReceive, OneCommand, MshcTypeOK
<1>4. PICK intact \in BOOLEAN : fifo' = Append(fifo, [block |-> pos, intact |-> intact])
             /\ crc' = ~ intact
  BY DEF HcReceive
<1> DEFINE e == [block |-> pos, intact |-> intact]
<1>5. /\ length \in Nat /\ Len(got) \in Nat /\ Len(fifo) \in Nat /\ pos \in Nat
           /\ mMshcArgument \in Nat
      /\ fifo \in Seq(Entry) /\ bytcnt' = bytcnt - 1
  BY <1>1 DEF MshcTypeOK, HcReceive, Blocks
<1>6. /\ left = length - Len(got) /\ bytcnt = length - (Len(got) + Len(fifo))
      /\ pos = mMshcArgument + Len(got) + Len(fifo)
  <2>1. left = length - Len(got) /\ bytcnt = length - (Len(got) + Len(fifo))
    BY <1>1, <1>3 DEF ReadOn
  <2>2. pos + bytcnt = mMshcArgument + length
    BY <1>1, <1>3 DEF CardFollows, Quiet
  <2> QED BY <1>5, <2>1, <2>2
<1>7. /\ Len(fifo') = Len(fifo) + 1 /\ fifo'[Len(fifo) + 1] = e
      /\ \A i \in 1 .. Len(fifo) : fifo'[i] = fifo[i]
  <2>1. e \in Entry
    <3>1. pos \in Blocks
      BY <1>1, <1>3, SizeAssumption DEF MshcTypeOK, CardFollows, Quiet, Blocks
    <3> QED BY <3>1 DEF Entry
  <2> QED BY <1>4, <1>5, <2>1, Adding
<1>8. \A i \in 1 .. Len(fifo') :
         /\ fifo'[i].block = mMshcArgument + Len(got) + i - 1
         /\ fifo'[i].intact \/ "DCRC" \in RINTSTS \/ (crc' /\ i = Len(fifo'))
  <2> SUFFICES ASSUME NEW i \in 1 .. Len(fifo')
               PROVE  /\ fifo'[i].block = mMshcArgument + Len(got) + i - 1
                      /\ fifo'[i].intact \/ "DCRC" \in RINTSTS \/ (crc' /\ i = Len(fifo'))
    OBVIOUS
  <2>1. CASE i = Len(fifo) + 1
    <3>1. fifo'[i].block = pos /\ fifo'[i].intact = intact /\ i = Len(fifo')
      BY <1>7, <2>1
    <3>2. intact = TRUE \/ crc' = TRUE
      BY <1>4
    <3> QED BY <1>5, <1>6, <2>1, <3>1, <3>2
  <2>2. CASE i \in 1 .. Len(fifo)
    BY <1>1, <1>3, <1>7, <2>2 DEF ReadOn, Accounted, HcReceive
  <2> QED BY <1>5, <1>7, <2>1, <2>2
<1>9. \A i \in 1 .. Len(got) : got[i].block = mMshcArgument + i - 1 /\ (got[i].intact
        \/ "DCRC" \in RINTSTS)
  BY <1>1, <1>3 DEF ReadOn, Accounted, HcReceive
<1> QED BY <1>2, <1>3, <1>5, <1>6, <1>7, <1>8, <1>9 DEF ReadOn, Accounted

LEMMA TakeReadOn == ASSUME MshcInv, ReadTakes PROVE ReadOn'
<1>1. MshcTypeOK /\ OneCommand /\ Steps /\ ReadOn
  BY DEF MshcInv
<1>2. UNCHANGED <<pc, cmd, mMshcCommand, mMshcArgument, length, start, issued, RINTSTS, xfer,
        bytcnt, crc>>
  BY DEF ReadTakes, remembered, hc, CMD
<1>3. InTransfer /\ mMshcCommand = "read" /\ ~ start
  BY <1>1 DEF InTransfer, ReadTakes, OneCommand, Steps
<1>4. /\ length \in Nat /\ Len(got) \in Nat /\ mMshcArgument \in Nat
      /\ fifo \in Seq(Entry) /\ got \in Seq(Entry) /\ left \in Nat
  BY <1>1 DEF MshcTypeOK, Blocks
<1>5. /\ Len(fifo) > 0 /\ fifo[1] = Head(fifo) /\ fifo[1] \in Entry
      /\ Len(fifo') = Len(fifo) - 1 /\ \A i \in 1 .. Len(fifo) - 1 : fifo'[i] = fifo[i + 1]
  BY <1>4, Taking DEF ReadTakes
<1>6. /\ Len(got') = Len(got) + 1 /\ got'[Len(got) + 1] = fifo[1]
      /\ \A i \in 1 .. Len(got) : got'[i] = got[i]
  BY <1>4, <1>5, Adding DEF ReadTakes
<1>7. Len(fifo) \in Nat /\ (fifo' = <<>> <=> Len(fifo) = 1)
  <2>1. fifo' \in Seq(Entry)
    BY <1>4, <1>5, Taking DEF ReadTakes
  <2>2. fifo' = <<>> <=> Len(fifo') = 0
    BY <2>1, EmptySeq
  <2> QED BY <1>4, <1>5, <2>2
<1>8. \A i \in 1 .. Len(got') :
         /\ got'[i].block = mMshcArgument + i - 1
         /\ got'[i].intact \/ "DCRC" \in RINTSTS \/ (crc /\ i = Len(got') /\ fifo' = <<>>)
  <2> SUFFICES ASSUME NEW i \in 1 .. Len(got')
               PROVE  /\ got'[i].block = mMshcArgument + i - 1
                      /\ got'[i].intact \/ "DCRC" \in RINTSTS \/ (crc /\ i = Len(got')
                           /\ fifo' = <<>>)
    OBVIOUS
  <2>1. CASE i = Len(got) + 1
    <3>1. /\ fifo[1].block = mMshcArgument + Len(got) + 1 - 1
          /\ fifo[1].intact \/ "DCRC" \in RINTSTS \/ (crc /\ 1 = Len(fifo))
      BY SMTT(30), <1>1, <1>3, <1>5, <1>7 DEF ReadOn, Accounted
    <3> QED BY <1>4, <1>6, <1>7, <2>1, <3>1
  <2>2. CASE i \in 1 .. Len(got)
    BY <1>1, <1>3, <1>5, <1>6, <2>2 DEF ReadOn, Accounted, ReadTakes
  <2> QED BY <1>4, <1>6, <2>1, <2>2
<1>9. \A i \in 1 .. Len(fifo') :
         /\ fifo'[i].block = mMshcArgument + Len(got') + i - 1
         /\ fifo'[i].intact \/ "DCRC" \in RINTSTS \/ (crc /\ i = Len(fifo'))
  <2> SUFFICES ASSUME NEW i \in 1 .. Len(fifo')
               PROVE  /\ fifo'[i].block = mMshcArgument + Len(got') + i - 1
                      /\ fifo'[i].intact \/ "DCRC" \in RINTSTS \/ (crc /\ i = Len(fifo'))
    OBVIOUS
  <2>1. i + 1 \in 1 .. Len(fifo) /\ fifo'[i] = fifo[i + 1]
    BY <1>5, <1>7
  <2>2. /\ fifo[i + 1].block = mMshcArgument + Len(got) + (i + 1) - 1
        /\ fifo[i + 1].intact \/ "DCRC" \in RINTSTS \/ (crc /\ i + 1 = Len(fifo))
    BY <1>1, <1>3, <2>1 DEF ReadOn, Accounted
  <2> QED BY <1>4, <1>5, <1>6, <1>7, <2>1, <2>2
<1>10. left' = length - Len(got') /\ Len(got') + Len(fifo') <= length
  <2>1. left = length - Len(got) /\ Len(got) + Len(fifo) <= length /\ left' = left - 1
    BY <1>1, <1>3 DEF ReadOn, ReadTakes
  <2> QED BY <1>4, <1>5, <1>6, <1>7, <2>1
<1>11. xfer = "read" => bytcnt = length - (Len(got') + Len(fifo'))
  BY <1>1, <1>3, <1>4, <1>5, <1>6, <1>7 DEF ReadOn
<1> QED BY <1>2, <1>3, <1>8, <1>9, <1>10, <1>11 DEF ReadOn, Accounted

LEMMA SendWriteOn == ASSUME MshcInv, HcSend PROVE WriteOn' /\ TransfersRight'
<1>1. MshcTypeOK /\ OneTransfer /\ OneCommand /\ CardFollows /\ Steps /\ WriteOn /\ TransfersRight
  BY DEF MshcInv
<1>2. UNCHANGED <<pc, cmd, mMshcCommand, mMshcArgument, length, left, got, status, start,
        issued, RINTSTS, xfer, crc>>
  BY DEF HcSend, remembered, buffer, CMD
<1>3. xfer = "write" /\ bytcnt \in Nat /\ bytcnt' = bytcnt - 1 /\ pos \in Nat /\ pos' = pos + 1
      /\ fifo \in Seq(Entry) /\ stored \in Seq([at : Blocks, block : Blocks])
           /\ length \in Nat /\ pos \in Blocks
  BY <1>1, SizeAssumption DEF HcSend, MshcTypeOK, CardFollows, Quiet, Blocks
<1>4. /\ Len(fifo) > 0 /\ fifo[1] = Head(fifo) /\ fifo[1] \in Entry /\ fifo' \in Seq(Entry)
      /\ Len(fifo') = Len(fifo) - 1 /\ \A i \in 1 .. Len(fifo) - 1 : fifo'[i] = fifo[i + 1]
  BY <1>3, Taking DEF HcSend
<1>5. fifo[1].block = pos
  BY <1>1, <1>3, <1>4 DEF WriteOn
<1> DEFINE e == [at |-> pos, block |-> Head(fifo).block]
<1>6. /\ Len(stored') = Len(stored) + 1 /\ stored'[Len(stored) + 1] = e
      /\ \A i \in 1 .. Len(stored) : stored'[i] = stored[i]
      /\ stored' \in Seq([at : Blocks, block : Blocks])
  <2>1. e \in [at : Blocks, block : Blocks]
    BY <1>3, <1>4 DEF Entry
  <2> QED BY <1>3, <2>1, Adding DEF HcSend
<1>7. Len(fifo) \in Nat /\ Len(stored) \in Nat
  BY <1>3
<1>8. \A i \in 1 .. Len(fifo') : fifo'[i].block = pos' + i - 1
  <2> SUFFICES ASSUME NEW i \in 1 .. Len(fifo') PROVE fifo'[i].block = pos' + i - 1
    OBVIOUS
  <2>1. i + 1 \in 1 .. Len(fifo) /\ fifo'[i] = fifo[i + 1]
    BY <1>4, <1>7
  <2>2. fifo[i + 1].block = pos + (i + 1) - 1
    BY <1>1, <1>3, <2>1 DEF WriteOn
  <2> QED BY <1>3, <2>1, <2>2
<1>9. \A i \in DOMAIN stored' : stored'[i].at = stored'[i].block
  <2> SUFFICES ASSUME NEW i \in 1 .. Len(stored') PROVE stored'[i].at = stored'[i].block
    BY <1>6
  <2>1. CASE i = Len(stored) + 1
    BY <1>4, <1>5, <1>6, <2>1
  <2>2. CASE i \in 1 .. Len(stored)
    BY <1>1, <1>3, <1>6, <2>2 DEF TransfersRight, WriteRight
  <2> QED BY <1>6, <1>7, <2>1, <2>2
<1>10. WriteOn'
  <2>1. InTransfer' <=> InTransfer
    BY <1>2 DEF InTransfer
  <2>2. Len(stored') + bytcnt' = length /\ (~ InTransfer => bytcnt' > Len(fifo'))
    BY <1>1, <1>3, <1>4, <1>6, <1>7 DEF WriteOn
  <2>3. InTransfer => mMshcCommand = "write" /\ start = FALSE
    BY <1>1, <1>3 DEF InTransfer, OneCommand, CardFollows, Quiet, MshcTypeOK
  <2>4. InTransfer => bytcnt' = Len(fifo') + left /\ pc # "sent"
    BY <1>1, <1>3, <1>4, <1>7, <2>3 DEF WriteOn, HcSend, MshcTypeOK
  <2>5. InTransfer => "DTO" \notin RINTSTS /\ RINTSTS \cap DataErrors = {}
          /\ "RTO" \notin RINTSTS /\ ~ crc
    BY <1>1, <1>3, <2>3, <2>4 DEF WriteOn
  <2> QED BY <1>2, <1>8, <2>1, <2>2, <2>3, <2>4, <2>5 DEF WriteOn
<1>11. ~ Succeeded("write")'
  BY <1>1, <1>2, <1>3 DEF Succeeded, OneTransfer, Quiet
<1>12. ReadRight'
  BY <1>1, <1>2 DEF TransfersRight, ReadRight, Succeeded
<1> QED BY <1>9, <1>10, <1>11, <1>12 DEF TransfersRight, WriteRight

LEMMA PushWriteOn == ASSUME MshcInv, WritePushes PROVE WriteOn'
<1>1. MshcTypeOK /\ OneCommand /\ CardFollows /\ Steps /\ WriteOn
  BY DEF MshcInv
<1>2. UNCHANGED <<pc, cmd, mMshcCommand, mMshcArgument, length, start, RINTSTS, xfer, bytcnt,
        crc, pos, stored>>
  BY DEF WritePushes, remembered, hc, medium, CMD
<1>3. InTransfer /\ InTransfer' /\ mMshcCommand = "write" /\ pc = "push"
  BY <1>1, <1>2 DEF InTransfer, WritePushes, Steps
<1>4. /\ fifo \in Seq(Entry) /\ Len(fifo) \in Nat /\ left \in Nat /\ left' = left - 1
           /\ bytcnt \in Nat
      /\ mMshcArgument \in Nat /\ length \in Nat /\ pos \in Nat
  BY <1>1 DEF MshcTypeOK, WritePushes, Blocks
<1>5. /\ Len(fifo') = Len(fifo) + 1 /\ \A i \in 1 .. Len(fifo) : fifo'[i] = fifo[i]
      /\ fifo'[Len(fifo) + 1].block = mMshcArgument + length - left
  <2>1. mMshcArgument + length - left \in Blocks
    BY <1>1, SizeAssumption DEF WritePushes, MshcTypeOK, Steps, CardFollows, Blocks
  <2>2. [block |-> mMshcArgument + length - left, intact |-> TRUE] \in Entry
    BY <2>1 DEF Entry
  <2> QED BY <1>4, <2>2, Adding DEF WritePushes
<1>6. xfer = "write" => \A i \in 1 .. Len(fifo') : fifo'[i].block = pos + i - 1
  <2> SUFFICES ASSUME xfer = "write", NEW i \in 1 .. Len(fifo') PROVE fifo'[i].block = pos + i - 1
    OBVIOUS
  <2>1. CASE i = Len(fifo) + 1
    <3>1. pos + bytcnt = mMshcArgument + length /\ bytcnt = Len(fifo) + left
      BY <1>1, <1>3 DEF CardFollows, Quiet, WriteOn
    <3> QED BY <1>4, <1>5, <2>1, <3>1
  <2>2. CASE i \in 1 .. Len(fifo)
    BY <1>1, <1>5, <2>2 DEF WriteOn
  <2> QED BY <1>4, <1>5, <2>1, <2>2
<1>7. xfer = "write" => bytcnt = Len(fifo') + left'
  BY <1>1, <1>3, <1>4, <1>5 DEF WriteOn
<1> QED BY <1>1, <1>2, <1>3, <1>6, <1>7 DEF WriteOn

LEMMA DtoWriteOn == ASSUME MshcInv, HcDto PROVE WriteOn'
<1>1. MshcTypeOK /\ WriteOn /\ OneTransfer
  BY DEF MshcInv
<1>2. UNCHANGED <<pc, cmd, mMshcCommand, mMshcArgument, length, left, start, issued, fifo,
        bytcnt, crc, pos, stored>>
  BY DEF HcDto, remembered, buffer, CMD
<1>3. xfer' = "none" /\ bytcnt = 0 /\ (InTransfer' <=> InTransfer)
        /\ RINTSTS' = RINTSTS \cup {"DTO"}
  BY <1>2 DEF HcDto, InTransfer
<1>4. InTransfer /\ mMshcCommand = "write" => xfer # "read"
  BY <1>1 DEF HcDto, OneTransfer
<1>5. xfer = "write" => Len(stored) = length
  <2>1. stored \in Seq([at : Blocks, block : Blocks])
    BY <1>1 DEF MshcTypeOK
  <2> QED BY <1>1, <1>3, <2>1 DEF WriteOn, MshcTypeOK
<1> QED BY <1>1, <1>2, <1>3, <1>4, <1>5 DEF WriteOn, DataErrors, HcDto, MshcTypeOK

\* A read that succeeds has every block in its place.
LEMMA ReadEndsRight == ASSUME MshcInv, ReadEnds PROVE TransfersRight'
<1>1. MshcTypeOK /\ Steps /\ ReadOn /\ TransfersRight
  BY DEF MshcInv
<1>2. /\ UNCHANGED <<cmd, mMshcCommand, mMshcArgument, length, left, got, stored, RINTSTS>>
      /\ pc = "look" /\ left = 0 /\ status' = ReadResult
  BY DEF ReadEnds, ReturnWith, remembered, buffer, medium
<1>3. InTransfer /\ mMshcCommand = "read" /\ got \in Seq(Entry) /\ length \in Nat
  BY <1>1, <1>2 DEF InTransfer, Steps, MshcTypeOK
<1>4. Len(got) = length /\ Len(got) \in Nat
  BY <1>1, <1>2, <1>3 DEF ReadOn
<1>5. \A i \in 1 .. length : got[i].block = mMshcArgument + i - 1
  BY <1>1, <1>3, <1>4 DEF ReadOn
<1>6. status' = "success" => \A i \in 1 .. length - 1 : got[i].intact
  <2> SUFFICES ASSUME status' = "success", NEW i \in 1 .. length - 1 PROVE got[i].intact
    OBVIOUS
  <2>1. "DCRC" \notin RINTSTS
    BY <1>2 DEF ReadResult, DataErrors
  <2>2. i \in 1 .. Len(got) /\ i # Len(got)
    BY <1>4
  <2> QED BY <1>1, <1>3, <2>1, <2>2 DEF ReadOn, Accounted
<1> QED BY <1>1, <1>2, <1>3, <1>4, <1>5, <1>6 DEF TransfersRight, ReadRight, WriteRight, Succeeded

LEMMA ResetTypeOK == ASSUME MshcInv, FifoResetTimeout PROVE fifo' \in Seq(Entry)
<1>1. fifo \in Seq(Entry) /\ <<>> \in Seq(Entry)
  BY DEF MshcInv, MshcTypeOK
<1> QED BY <1>1 DEF FifoResetTimeout

\* A transfer that times out may leave blocks behind.
LEMMA TimeoutWriteOn == ASSUME MshcInv, WriteTimeout PROVE WriteOn'
<1>1. MshcTypeOK /\ Steps /\ WriteOn
  BY DEF MshcInv
<1>2. UNCHANGED <<cmd, length, left, fifo, xfer, bytcnt, pos, stored>> /\ pc' = "returned"
  BY DEF WriteTimeout, ReturnWith, remembered, buffer, hc, medium
<1>3. InTransfer /\ mMshcCommand = "write" /\ ~ InTransfer'
  BY <1>1, <1>2 DEF Steps, InTransfer, WriteTimeout
<1>4. left > 0 /\ left \in Nat /\ Len(fifo) \in Nat /\ bytcnt \in Nat
  BY <1>1 DEF WriteTimeout, MshcTypeOK
<1> QED BY <1>1, <1>2, <1>3, <1>4 DEF WriteOn

\* Every step keeps each part of the invariant.
LEMMA MshcTypeOKStep == MshcInv /\ [MshcNext]_mshcVars => MshcTypeOK'
<1> SUFFICES ASSUME MshcInv, [MshcNext]_mshcVars PROVE MshcTypeOK'
  OBVIOUS
<1> USE DEF MshcInv, MshcTypeOK, Entry, Blocks, CmdErrors, DataErrors
<1>1. ASSUME NEW k \in {"read", "write"}, NEW b \in Blocks, NEW n \in 1 .. MaxLength,
             b + n <= Last + 1, MshcSendCommand(k, b, n)
      PROVE  MshcTypeOK'
  BY <1>1 DEF MshcSendCommand, CMD, remembered, buffer, hc, medium
<1>2. CASE PrvDataComplete
  BY <1>2 DEF PrvDataComplete, DataBusy, CMD, remembered, buffer, hc, medium
<1>3. CASE PrvDataTimeout
  BY <1>3 DEF PrvDataTimeout, DataBusy, ReturnWith, CMD, remembered, buffer, hc,
       medium
<1>4. CASE FifoEmptied
  BY <1>4 DEF FifoEmptied, FifoAfterReset, CMD, remembered, buffer, hc, medium
<1>5. CASE FifoResetTimeout
  <2>1. fifo' \in Seq(Entry)
    BY <1>5, ResetTypeOK
  <2> QED BY <1>5, <2>1 DEF FifoResetTimeout, ReturnWith, CMD, remembered, buffer, hc, medium
<1>6. CASE SendCommand
  BY <1>6 DEF SendCommand, DelayOver, DataBusy, CMD, remembered, buffer, hc, medium
<1>7. CASE CommandEnds
  BY <1>7 DEF CommandEnds, ReturnWith, CMD, remembered, buffer, hc, medium
<1>8. CASE ReadChecks
  BY <1>8 DEF ReadChecks, ReturnWith, CMD, remembered, buffer, hc, medium
<1>9. CASE ReadPolls
  BY <1>9 DEF ReadPolls, CMD, remembered, buffer, hc, medium
<1>10. CASE ReadTimeout
  BY <1>10 DEF ReadTimeout, ReturnWith, CMD, remembered, buffer, hc, medium
<1>11. CASE ReadEnds
  BY <1>11 DEF ReadEnds, ReadResult, ReturnWith, CMD, remembered, buffer, hc, medium
<1>12. CASE ReadTakes
  BY <1>12, TakeTypeOK
<1>13. CASE WritePushes
  BY <1>13, PushTypeOK
<1>14. CASE WriteTimeout
  BY <1>14 DEF WriteTimeout, ReturnWith, CMD, remembered, buffer, hc, medium
<1>15. CASE WriteMask
  BY <1>15 DEF WriteMask, CMD, remembered, buffer, hc, medium
<1>16. CASE WriteEnds
  BY <1>16 DEF WriteEnds, WriteFails, ReturnWith, CMD, remembered, buffer, hc, medium
<1>17. CASE ClientDone
  BY <1>17 DEF ClientDone, CMD, remembered, buffer, hc, medium
<1>18. CASE HcCommand
  BY <1>18, CommandType
<1>19. CASE HcReceive
  BY <1>19, ReceiveTypeOK
<1>20. CASE HcSend
  BY <1>20, SendTypeOK
<1>21. CASE HcCrc
  BY <1>21 DEF HcCrc, CMD, remembered, buffer, hc, medium
<1>22. CASE HcDto
  BY <1>22 DEF HcDto, CMD, remembered, buffer, hc, medium
<1>23. CASE HcDataError
  BY <1>23 DEF HcDataError, CMD, remembered, buffer, hc, medium
<1>24. CASE CardReady
  BY <1>24 DEF CardReady, CMD, remembered, buffer, hc, medium
<1>25. ASSUME NEW c \in {"status", "stop"}, ClientSends(c) PROVE MshcTypeOK'
  BY <1>25 DEF ClientSends, CMD, remembered, buffer, hc, medium
<1>26. CASE UNCHANGED mshcVars
  BY <1>26 DEF mshcVars, CMD, remembered, buffer, hc, medium
<1> QED BY <1>1, <1>2, <1>3, <1>4, <1>5, <1>6, <1>7, <1>8, <1>9, <1>10, <1>11, <1>12,
           <1>13, <1>14, <1>15, <1>16, <1>17, <1>18, <1>19, <1>20, <1>21, <1>22,
           <1>23, <1>24, <1>25, <1>26 DEF MshcNext, CallSteps, Hc

LEMMA StepsStep == MshcInv /\ [MshcNext]_mshcVars => Steps'
<1> SUFFICES ASSUME MshcInv, [MshcNext]_mshcVars PROVE Steps'
  OBVIOUS
<1> USE DEF MshcInv, MshcTypeOK, Entry, Blocks, CmdErrors, DataErrors, Steps
<1>1. ASSUME NEW k \in {"read", "write"}, NEW b \in Blocks, NEW n \in 1 .. MaxLength,
             b + n <= Last + 1, MshcSendCommand(k, b, n)
      PROVE  Steps'
  BY <1>1 DEF MshcSendCommand, CMD, remembered, buffer, hc, medium
<1>2. CASE PrvDataComplete
  BY <1>2 DEF PrvDataComplete, DataBusy, CMD, remembered, buffer, hc, medium
<1>3. CASE PrvDataTimeout
  BY <1>3 DEF PrvDataTimeout, DataBusy, ReturnWith, CMD, remembered, buffer, hc,
       medium
<1>4. CASE FifoEmptied
  BY <1>4 DEF FifoEmptied, FifoAfterReset, CMD, remembered, buffer, hc, medium
<1>5. CASE FifoResetTimeout
  BY <1>5 DEF FifoResetTimeout, ReturnWith, CMD, remembered, buffer, hc, medium
<1>6. CASE SendCommand
  BY <1>6 DEF SendCommand, DelayOver, DataBusy, CMD, remembered, buffer, hc, medium
<1>7. CASE CommandEnds
  BY <1>7 DEF CommandEnds, ReturnWith, CMD, remembered, buffer, hc, medium
<1>8. CASE ReadChecks
  BY <1>8 DEF ReadChecks, ReturnWith, CMD, remembered, buffer, hc, medium
<1>9. CASE ReadPolls
  BY <1>9 DEF ReadPolls, CMD, remembered, buffer, hc, medium
<1>10. CASE ReadTimeout
  BY <1>10 DEF ReadTimeout, ReturnWith, CMD, remembered, buffer, hc, medium
<1>11. CASE ReadEnds
  BY <1>11 DEF ReadEnds, ReadResult, ReturnWith, CMD, remembered, buffer, hc, medium
<1>12. CASE ReadTakes
  BY <1>12 DEF ReadTakes, CMD, remembered, buffer, hc, medium
<1>13. CASE WritePushes
  BY <1>13 DEF WritePushes, CMD, remembered, buffer, hc, medium
<1>14. CASE WriteTimeout
  BY <1>14 DEF WriteTimeout, ReturnWith, CMD, remembered, buffer, hc, medium
<1>15. CASE WriteMask
  BY <1>15 DEF WriteMask, CMD, remembered, buffer, hc, medium
<1>16. CASE WriteEnds
  BY <1>16 DEF WriteEnds, WriteFails, ReturnWith, CMD, remembered, buffer, hc, medium
<1>17. CASE ClientDone
  BY <1>17 DEF ClientDone, CMD, remembered, buffer, hc, medium
<1>18. CASE HcCommand
  BY <1>18, CommandOneTransfer
<1>19. CASE HcReceive
  BY <1>19, ReceiveTypeOK
<1>20. CASE HcSend
  BY <1>20, SendTypeOK
<1>21. CASE HcCrc
  BY <1>21 DEF HcCrc, CMD, remembered, buffer, hc, medium
<1>22. CASE HcDto
  BY <1>22 DEF HcDto, CMD, remembered, buffer, hc, medium
<1>23. CASE HcDataError
  BY <1>23 DEF HcDataError, CMD, remembered, buffer, hc, medium
<1>24. CASE CardReady
  BY <1>24 DEF CardReady, CMD, remembered, buffer, hc, medium
<1>25. ASSUME NEW c \in {"status", "stop"}, ClientSends(c) PROVE Steps'
  BY <1>25 DEF ClientSends, CMD, remembered, buffer, hc, medium
<1>26. CASE UNCHANGED mshcVars
  BY <1>26 DEF mshcVars, CMD, remembered, buffer, hc, medium
<1> QED BY <1>1, <1>2, <1>3, <1>4, <1>5, <1>6, <1>7, <1>8, <1>9, <1>10, <1>11, <1>12,
           <1>13, <1>14, <1>15, <1>16, <1>17, <1>18, <1>19, <1>20, <1>21, <1>22,
           <1>23, <1>24, <1>25, <1>26 DEF MshcNext, CallSteps, Hc

LEMMA OneTransferStep == MshcInv /\ [MshcNext]_mshcVars => OneTransfer'
<1> SUFFICES ASSUME MshcInv, [MshcNext]_mshcVars PROVE OneTransfer'
  OBVIOUS
<1> USE DEF MshcInv, MshcTypeOK, Entry, Blocks, CmdErrors, DataErrors, Steps, OneTransfer,
      OneCommand, CardFollows, WriteOn, ReadOn, InTransfer, Quiet
<1>1. ASSUME NEW k \in {"read", "write"}, NEW b \in Blocks, NEW n \in 1 .. MaxLength,
             b + n <= Last + 1, MshcSendCommand(k, b, n)
      PROVE  OneTransfer'
  BY <1>1 DEF MshcSendCommand, CMD, remembered, buffer, hc, medium
<1>2. CASE PrvDataComplete
  BY <1>2 DEF PrvDataComplete, DataBusy, CMD, remembered, buffer, hc, medium
<1>3. CASE PrvDataTimeout
  BY <1>3 DEF PrvDataTimeout, DataBusy, ReturnWith, CMD, remembered, buffer, hc,
       medium
<1>4. CASE FifoEmptied
  BY <1>4 DEF FifoEmptied, FifoAfterReset, CMD, remembered, buffer, hc, medium
<1>5. CASE FifoResetTimeout
  BY <1>5 DEF FifoResetTimeout, ReturnWith, CMD, remembered, buffer, hc, medium
<1>6. CASE SendCommand
  BY <1>6 DEF SendCommand, DelayOver, DataBusy, CMD, remembered, buffer, hc, medium
<1>7. CASE CommandEnds
  BY <1>7 DEF CommandEnds, ReturnWith, CMD, remembered, buffer, hc, medium
<1>8. CASE ReadChecks
  BY <1>8 DEF ReadChecks, ReturnWith, CMD, remembered, buffer, hc, medium
<1>9. CASE ReadPolls
  BY <1>9 DEF ReadPolls, CMD, remembered, buffer, hc, medium
<1>10. CASE ReadTimeout
  BY <1>10 DEF ReadTimeout, ReturnWith, CMD, remembered, buffer, hc, medium
<1>11. CASE ReadEnds
  BY <1>11 DEF ReadEnds, ReadResult, ReturnWith, CMD, remembered, buffer, hc, medium
<1>12. CASE ReadTakes
  BY <1>12 DEF ReadTakes, CMD, remembered, buffer, hc, medium
<1>13. CASE WritePushes
  BY <1>13 DEF WritePushes, CMD, remembered, buffer, hc, medium
<1>14. CASE WriteTimeout
  BY <1>14 DEF WriteTimeout, ReturnWith, CMD, remembered, buffer, hc, medium
<1>15. CASE WriteMask
  BY <1>15 DEF WriteMask, CMD, remembered, buffer, hc, medium
<1>16. CASE WriteEnds
  BY <1>16 DEF WriteEnds, WriteFails, ReturnWith, CMD, remembered, buffer, hc, medium
<1>17. CASE ClientDone
  BY <1>17 DEF ClientDone, CMD, remembered, buffer, hc, medium
<1>18. CASE HcCommand
  BY <1>18, CommandOneTransfer
<1>19. CASE HcReceive
  BY SMTT(30), <1>19 DEF HcReceive, CMD, remembered, buffer, hc, medium
<1>20. CASE HcSend
  BY <1>20 DEF HcSend, CMD, remembered, buffer, hc, medium
<1>21. CASE HcCrc
  BY <1>21 DEF HcCrc, CMD, remembered, buffer, hc, medium
<1>22. CASE HcDto
  BY <1>22 DEF HcDto, CMD, remembered, buffer, hc, medium
<1>23. CASE HcDataError
  BY <1>23 DEF HcDataError, CMD, remembered, buffer, hc, medium
<1>24. CASE CardReady
  BY <1>24 DEF CardReady, CMD, remembered, buffer, hc, medium
<1>25. ASSUME NEW c \in {"status", "stop"}, ClientSends(c) PROVE OneTransfer'
  BY <1>25 DEF ClientSends, CMD, remembered, buffer, hc, medium
<1>26. CASE UNCHANGED mshcVars
  BY <1>26 DEF mshcVars, CMD, remembered, buffer, hc, medium
<1> QED BY <1>1, <1>2, <1>3, <1>4, <1>5, <1>6, <1>7, <1>8, <1>9, <1>10, <1>11, <1>12,
           <1>13, <1>14, <1>15, <1>16, <1>17, <1>18, <1>19, <1>20, <1>21, <1>22,
           <1>23, <1>24, <1>25, <1>26 DEF MshcNext, CallSteps, Hc

LEMMA OneCommandStep == MshcInv /\ [MshcNext]_mshcVars => OneCommand'
<1> SUFFICES ASSUME MshcInv, [MshcNext]_mshcVars PROVE OneCommand'
  OBVIOUS
<1> USE DEF MshcInv, MshcTypeOK, Entry, Blocks, CmdErrors, DataErrors, Steps, OneTransfer,
      OneCommand, Quiet
<1>1. ASSUME NEW k \in {"read", "write"}, NEW b \in Blocks, NEW n \in 1 .. MaxLength,
             b + n <= Last + 1, MshcSendCommand(k, b, n)
      PROVE  OneCommand'
  BY <1>1 DEF MshcSendCommand, CMD, remembered, buffer, hc, medium
<1>2. CASE PrvDataComplete
  BY <1>2 DEF PrvDataComplete, DataBusy, CMD, remembered, buffer, hc, medium
<1>3. CASE PrvDataTimeout
  BY <1>3 DEF PrvDataTimeout, DataBusy, ReturnWith, CMD, remembered, buffer, hc,
       medium
<1>4. CASE FifoEmptied
  BY <1>4 DEF FifoEmptied, FifoAfterReset, CMD, remembered, buffer, hc, medium
<1>5. CASE FifoResetTimeout
  BY <1>5 DEF FifoResetTimeout, ReturnWith, CMD, remembered, buffer, hc, medium
<1>6. CASE SendCommand
  BY <1>6 DEF SendCommand, DelayOver, DataBusy, CMD, remembered, buffer, hc, medium
<1>7. CASE CommandEnds
  BY <1>7 DEF CommandEnds, ReturnWith, CMD, remembered, buffer, hc, medium
<1>8. CASE ReadChecks
  BY <1>8 DEF ReadChecks, ReturnWith, CMD, remembered, buffer, hc, medium
<1>9. CASE ReadPolls
  BY <1>9 DEF ReadPolls, CMD, remembered, buffer, hc, medium
<1>10. CASE ReadTimeout
  BY <1>10 DEF ReadTimeout, ReturnWith, CMD, remembered, buffer, hc, medium
<1>11. CASE ReadEnds
  BY <1>11 DEF ReadEnds, ReadResult, ReturnWith, CMD, remembered, buffer, hc, medium
<1>12. CASE ReadTakes
  BY <1>12 DEF ReadTakes, CMD, remembered, buffer, hc, medium
<1>13. CASE WritePushes
  BY <1>13 DEF WritePushes, CMD, remembered, buffer, hc, medium
<1>14. CASE WriteTimeout
  BY <1>14 DEF WriteTimeout, ReturnWith, CMD, remembered, buffer, hc, medium
<1>15. CASE WriteMask
  BY <1>15 DEF WriteMask, CMD, remembered, buffer, hc, medium
<1>16. CASE WriteEnds
  BY <1>16 DEF WriteEnds, WriteFails, ReturnWith, CMD, remembered, buffer, hc, medium
<1>17. CASE ClientDone
  BY <1>17 DEF ClientDone, CMD, remembered, buffer, hc, medium
<1>18. CASE HcCommand
  BY <1>18, CommandOneTransfer
<1>19. CASE HcReceive
  BY <1>19 DEF HcReceive, CMD, remembered, buffer, hc, medium
<1>20. CASE HcSend
  BY <1>20 DEF HcSend, CMD, remembered, buffer, hc, medium
<1>21. CASE HcCrc
  BY <1>21 DEF HcCrc, CMD, remembered, buffer, hc, medium
<1>22. CASE HcDto
  BY <1>22 DEF HcDto, CMD, remembered, buffer, hc, medium
<1>23. CASE HcDataError
  BY <1>23 DEF HcDataError, CMD, remembered, buffer, hc, medium
<1>24. CASE CardReady
  BY <1>24 DEF CardReady, CMD, remembered, buffer, hc, medium
<1>25. ASSUME NEW c \in {"status", "stop"}, ClientSends(c) PROVE OneCommand'
  BY <1>25 DEF ClientSends, CMD, remembered, buffer, hc, medium
<1>26. CASE UNCHANGED mshcVars
  BY <1>26 DEF mshcVars, CMD, remembered, buffer, hc, medium
<1> QED BY <1>1, <1>2, <1>3, <1>4, <1>5, <1>6, <1>7, <1>8, <1>9, <1>10, <1>11, <1>12,
           <1>13, <1>14, <1>15, <1>16, <1>17, <1>18, <1>19, <1>20, <1>21, <1>22,
           <1>23, <1>24, <1>25, <1>26 DEF MshcNext, CallSteps, Hc

LEMMA CardFollowsStep == MshcInv /\ [MshcNext]_mshcVars => CardFollows'
<1> SUFFICES ASSUME MshcInv, [MshcNext]_mshcVars PROVE CardFollows'
  OBVIOUS
<1> USE DEF MshcInv, MshcTypeOK, Entry, Blocks, CmdErrors, DataErrors, Steps, OneTransfer,
      OneCommand, CardFollows, Quiet
<1>1. ASSUME NEW k \in {"read", "write"}, NEW b \in Blocks, NEW n \in 1 .. MaxLength,
             b + n <= Last + 1, MshcSendCommand(k, b, n)
      PROVE  CardFollows'
  BY <1>1 DEF MshcSendCommand, CMD, remembered, buffer, hc, medium
<1>2. CASE PrvDataComplete
  BY <1>2 DEF PrvDataComplete, DataBusy, CMD, remembered, buffer, hc, medium
<1>3. CASE PrvDataTimeout
  BY <1>3 DEF PrvDataTimeout, DataBusy, ReturnWith, CMD, remembered, buffer, hc,
       medium
<1>4. CASE FifoEmptied
  BY <1>4 DEF FifoEmptied, FifoAfterReset, CMD, remembered, buffer, hc, medium
<1>5. CASE FifoResetTimeout
  BY <1>5 DEF FifoResetTimeout, ReturnWith, CMD, remembered, buffer, hc, medium
<1>6. CASE SendCommand
  BY <1>6 DEF SendCommand, DelayOver, DataBusy, CMD, remembered, buffer, hc, medium
<1>7. CASE CommandEnds
  BY <1>7 DEF CommandEnds, ReturnWith, CMD, remembered, buffer, hc, medium
<1>8. CASE ReadChecks
  BY <1>8 DEF ReadChecks, ReturnWith, CMD, remembered, buffer, hc, medium
<1>9. CASE ReadPolls
  BY <1>9 DEF ReadPolls, CMD, remembered, buffer, hc, medium
<1>10. CASE ReadTimeout
  BY <1>10 DEF ReadTimeout, ReturnWith, CMD, remembered, buffer, hc, medium
<1>11. CASE ReadEnds
  BY <1>11 DEF ReadEnds, ReadResult, ReturnWith, CMD, remembered, buffer, hc, medium
<1>12. CASE ReadTakes
  BY <1>12 DEF ReadTakes, CMD, remembered, buffer, hc, medium
<1>13. CASE WritePushes
  BY <1>13 DEF WritePushes, CMD, remembered, buffer, hc, medium
<1>14. CASE WriteTimeout
  BY <1>14 DEF WriteTimeout, ReturnWith, CMD, remembered, buffer, hc, medium
<1>15. CASE WriteMask
  BY <1>15 DEF WriteMask, CMD, remembered, buffer, hc, medium
<1>16. CASE WriteEnds
  BY <1>16 DEF WriteEnds, WriteFails, ReturnWith, CMD, remembered, buffer, hc, medium
<1>17. CASE ClientDone
  BY <1>17 DEF ClientDone, CMD, remembered, buffer, hc, medium
<1>18. CASE HcCommand
  BY <1>18, CommandCardFollows
<1>19. CASE HcReceive
  BY <1>19 DEF HcReceive, CMD, remembered, buffer, hc, medium
<1>20. CASE HcSend
  BY <1>20 DEF HcSend, CMD, remembered, buffer, hc, medium
<1>21. CASE HcCrc
  BY <1>21 DEF HcCrc, CMD, remembered, buffer, hc, medium
<1>22. CASE HcDto
  BY <1>22 DEF HcDto, CMD, remembered, buffer, hc, medium
<1>23. CASE HcDataError
  BY <1>23 DEF HcDataError, CMD, remembered, buffer, hc, medium
<1>24. CASE CardReady
  BY <1>24 DEF CardReady, CMD, remembered, buffer, hc, medium
<1>25. ASSUME NEW c \in {"status", "stop"}, ClientSends(c) PROVE CardFollows'
  BY <1>25 DEF ClientSends, CMD, remembered, buffer, hc, medium
<1>26. CASE UNCHANGED mshcVars
  BY <1>26 DEF mshcVars, CMD, remembered, buffer, hc, medium
<1> QED BY <1>1, <1>2, <1>3, <1>4, <1>5, <1>6, <1>7, <1>8, <1>9, <1>10, <1>11, <1>12,
           <1>13, <1>14, <1>15, <1>16, <1>17, <1>18, <1>19, <1>20, <1>21, <1>22,
           <1>23, <1>24, <1>25, <1>26 DEF MshcNext, CallSteps, Hc

LEMMA ReadOnStep == MshcInv /\ [MshcNext]_mshcVars => ReadOn'
<1> SUFFICES ASSUME MshcInv, [MshcNext]_mshcVars PROVE ReadOn'
  OBVIOUS
<1> USE DEF MshcInv, MshcTypeOK, Entry, Blocks, CmdErrors, DataErrors, Steps, OneTransfer,
      OneCommand, CardFollows, ReadOn, InTransfer, Quiet, Accounted
<1>1. ASSUME NEW k \in {"read", "write"}, NEW b \in Blocks, NEW n \in 1 .. MaxLength,
             b + n <= Last + 1, MshcSendCommand(k, b, n)
      PROVE  ReadOn'
  BY <1>1 DEF MshcSendCommand, CMD, remembered, buffer, hc, medium
<1>2. CASE PrvDataComplete
  BY <1>2 DEF PrvDataComplete, DataBusy, CMD, remembered, buffer, hc, medium
<1>3. CASE PrvDataTimeout
  BY <1>3 DEF PrvDataTimeout, DataBusy, ReturnWith, CMD, remembered, buffer, hc,
       medium
<1>4. CASE FifoEmptied
  BY <1>4 DEF FifoEmptied, FifoAfterReset, CMD, remembered, buffer, hc, medium
<1>5. CASE FifoResetTimeout
  BY <1>5 DEF FifoResetTimeout, ReturnWith, CMD, remembered, buffer, hc, medium
<1>6. CASE SendCommand
  BY <1>6 DEF SendCommand, DelayOver, DataBusy, CMD, remembered, buffer, hc, medium
<1>7. CASE CommandEnds
  BY <1>7 DEF CommandEnds, ReturnWith, CMD, remembered, buffer, hc, medium
<1>8. CASE ReadChecks
  BY <1>8 DEF ReadChecks, ReturnWith, CMD, remembered, buffer, hc, medium
<1>9. CASE ReadPolls
  BY <1>9 DEF ReadPolls, CMD, remembered, buffer, hc, medium
<1>10. CASE ReadTimeout
  BY <1>10 DEF ReadTimeout, ReturnWith, CMD, remembered, buffer, hc, medium
<1>11. CASE ReadEnds
  BY <1>11 DEF ReadEnds, ReadResult, ReturnWith, CMD, remembered, buffer, hc, medium
<1>12. CASE ReadTakes
  BY <1>12, TakeReadOn
<1>13. CASE WritePushes
  BY <1>13 DEF WritePushes, CMD, remembered, buffer, hc, medium
<1>14. CASE WriteTimeout
  BY <1>14 DEF WriteTimeout, ReturnWith, CMD, remembered, buffer, hc, medium
<1>15. CASE WriteMask
  BY <1>15 DEF WriteMask, CMD, remembered, buffer, hc, medium
<1>16. CASE WriteEnds
  BY <1>16 DEF WriteEnds, WriteFails, ReturnWith, CMD, remembered, buffer, hc, medium
<1>17. CASE ClientDone
  BY <1>17 DEF ClientDone, CMD, remembered, buffer, hc, medium
<1>18. CASE HcCommand
  BY <1>18, CommandReadOn
<1>19. CASE HcReceive
  BY <1>19, ReceiveReadOn
<1>20. CASE HcSend
  BY <1>20 DEF HcSend, CMD, remembered, buffer, hc, medium
<1>21. CASE HcCrc
  BY <1>21 DEF HcCrc, CMD, remembered, buffer, hc, medium
<1>22. CASE HcDto
  BY <1>22 DEF HcDto, CMD, remembered, buffer, hc, medium
<1>23. CASE HcDataError
  BY <1>23 DEF HcDataError, CMD, remembered, buffer, hc, medium
<1>24. CASE CardReady
  BY <1>24 DEF CardReady, CMD, remembered, buffer, hc, medium
<1>25. ASSUME NEW c \in {"status", "stop"}, ClientSends(c) PROVE ReadOn'
  BY <1>25 DEF ClientSends, CMD, remembered, buffer, hc, medium
<1>26. CASE UNCHANGED mshcVars
  BY <1>26 DEF mshcVars, CMD, remembered, buffer, hc, medium
<1> QED BY <1>1, <1>2, <1>3, <1>4, <1>5, <1>6, <1>7, <1>8, <1>9, <1>10, <1>11, <1>12,
           <1>13, <1>14, <1>15, <1>16, <1>17, <1>18, <1>19, <1>20, <1>21, <1>22,
           <1>23, <1>24, <1>25, <1>26 DEF MshcNext, CallSteps, Hc

LEMMA WriteOnStep == MshcInv /\ [MshcNext]_mshcVars => WriteOn'
<1> SUFFICES ASSUME MshcInv, [MshcNext]_mshcVars PROVE WriteOn'
  OBVIOUS
<1> USE DEF MshcInv, MshcTypeOK, Entry, Blocks, CmdErrors, DataErrors, Steps, OneTransfer,
      OneCommand, CardFollows, WriteOn, InTransfer, Quiet
<1>1. ASSUME NEW k \in {"read", "write"}, NEW b \in Blocks, NEW n \in 1 .. MaxLength,
             b + n <= Last + 1, MshcSendCommand(k, b, n)
      PROVE  WriteOn'
  BY <1>1 DEF MshcSendCommand, CMD, remembered, buffer, hc, medium
<1>2. CASE PrvDataComplete
  BY <1>2 DEF PrvDataComplete, DataBusy, CMD, remembered, buffer, hc, medium
<1>3. CASE PrvDataTimeout
  BY <1>3 DEF PrvDataTimeout, DataBusy, ReturnWith, CMD, remembered, buffer, hc,
       medium
<1>4. CASE FifoEmptied
  BY <1>4 DEF FifoEmptied, FifoAfterReset, CMD, remembered, buffer, hc, medium
<1>5. CASE FifoResetTimeout
  BY <1>5 DEF FifoResetTimeout, ReturnWith, CMD, remembered, buffer, hc, medium
<1>6. CASE SendCommand
  BY <1>6 DEF SendCommand, DelayOver, DataBusy, CMD, remembered, buffer, hc, medium
<1>7. CASE CommandEnds
  BY <1>7 DEF CommandEnds, ReturnWith, CMD, remembered, buffer, hc, medium
<1>8. CASE ReadChecks
  BY <1>8 DEF ReadChecks, ReturnWith, CMD, remembered, buffer, hc, medium
<1>9. CASE ReadPolls
  BY <1>9 DEF ReadPolls, CMD, remembered, buffer, hc, medium
<1>10. CASE ReadTimeout
  BY <1>10 DEF ReadTimeout, ReturnWith, CMD, remembered, buffer, hc, medium
<1>11. CASE ReadEnds
  BY <1>11 DEF ReadEnds, ReadResult, ReturnWith, CMD, remembered, buffer, hc, medium
<1>12. CASE ReadTakes
  BY <1>12 DEF ReadTakes, CMD, remembered, buffer, hc, medium
<1>13. CASE WritePushes
  BY <1>13, PushWriteOn
<1>14. CASE WriteTimeout
  BY <1>14, TimeoutWriteOn
<1>15. CASE WriteMask
  BY <1>15 DEF WriteMask, CMD, remembered, buffer, hc, medium
<1>16. CASE WriteEnds
  BY <1>16 DEF WriteEnds, WriteFails, ReturnWith, CMD, remembered, buffer, hc, medium
<1>17. CASE ClientDone
  BY <1>17 DEF ClientDone, CMD, remembered, buffer, hc, medium
<1>18. CASE HcCommand
  BY <1>18, CommandWriteOn
<1>19. CASE HcReceive
  BY <1>19 DEF HcReceive, CMD, remembered, buffer, hc, medium
<1>20. CASE HcSend
  BY <1>20, SendWriteOn
<1>21. CASE HcCrc
  BY <1>21 DEF HcCrc, CMD, remembered, buffer, hc, medium
<1>22. CASE HcDto
  BY <1>22, DtoWriteOn
<1>23. CASE HcDataError
  BY <1>23 DEF HcDataError, CMD, remembered, buffer, hc, medium
<1>24. CASE CardReady
  BY <1>24 DEF CardReady, CMD, remembered, buffer, hc, medium
<1>25. ASSUME NEW c \in {"status", "stop"}, ClientSends(c) PROVE WriteOn'
  BY <1>25 DEF ClientSends, CMD, remembered, buffer, hc, medium
<1>26. CASE UNCHANGED mshcVars
  BY <1>26 DEF mshcVars, CMD, remembered, buffer, hc, medium
<1> QED BY <1>1, <1>2, <1>3, <1>4, <1>5, <1>6, <1>7, <1>8, <1>9, <1>10, <1>11, <1>12,
           <1>13, <1>14, <1>15, <1>16, <1>17, <1>18, <1>19, <1>20, <1>21, <1>22,
           <1>23, <1>24, <1>25, <1>26 DEF MshcNext, CallSteps, Hc

LEMMA TransfersRightStep == MshcInv /\ [MshcNext]_mshcVars => TransfersRight'
<1> SUFFICES ASSUME MshcInv, [MshcNext]_mshcVars PROVE TransfersRight'
  OBVIOUS
<1> USE DEF MshcInv, MshcTypeOK, Entry, Blocks, CmdErrors, DataErrors, Steps, OneTransfer,
      OneCommand, CardFollows, ReadOn, WriteOn, InTransfer, Quiet, TransfersRight, ReadRight,
      WriteRight, Succeeded
<1>1. ASSUME NEW k \in {"read", "write"}, NEW b \in Blocks, NEW n \in 1 .. MaxLength,
             b + n <= Last + 1, MshcSendCommand(k, b, n)
      PROVE  TransfersRight'
  BY <1>1 DEF MshcSendCommand, CMD, remembered, buffer, hc, medium
<1>2. CASE PrvDataComplete
  BY <1>2 DEF PrvDataComplete, DataBusy, CMD, remembered, buffer, hc, medium
<1>3. CASE PrvDataTimeout
  BY <1>3 DEF PrvDataTimeout, DataBusy, ReturnWith, CMD, remembered, buffer, hc,
       medium
<1>4. CASE FifoEmptied
  BY <1>4 DEF FifoEmptied, FifoAfterReset, CMD, remembered, buffer, hc, medium
<1>5. CASE FifoResetTimeout
  BY <1>5 DEF FifoResetTimeout, ReturnWith, CMD, remembered, buffer, hc, medium
<1>6. CASE SendCommand
  BY <1>6 DEF SendCommand, DelayOver, DataBusy, CMD, remembered, buffer, hc, medium
<1>7. CASE CommandEnds
  BY <1>7 DEF CommandEnds, ReturnWith, CMD, remembered, buffer, hc, medium
<1>8. CASE ReadChecks
  BY <1>8 DEF ReadChecks, ReturnWith, CMD, remembered, buffer, hc, medium
<1>9. CASE ReadPolls
  BY <1>9 DEF ReadPolls, CMD, remembered, buffer, hc, medium
<1>10. CASE ReadTimeout
  BY <1>10 DEF ReadTimeout, ReturnWith, CMD, remembered, buffer, hc, medium
<1>11. CASE ReadEnds
  BY <1>11, ReadEndsRight
<1>12. CASE ReadTakes
  BY <1>12 DEF ReadTakes, CMD, remembered, buffer, hc, medium
<1>13. CASE WritePushes
  BY <1>13 DEF WritePushes, CMD, remembered, buffer, hc, medium
<1>14. CASE WriteTimeout
  BY <1>14 DEF WriteTimeout, ReturnWith, CMD, remembered, buffer, hc, medium
<1>15. CASE WriteMask
  BY <1>15 DEF WriteMask, CMD, remembered, buffer, hc, medium
<1>16. CASE WriteEnds
  BY <1>16 DEF WriteEnds, WriteFails, ReturnWith, CMD, remembered, buffer, hc, medium
<1>17. CASE ClientDone
  BY <1>17 DEF ClientDone, CMD, remembered, buffer, hc, medium
<1>18. CASE HcCommand
  BY <1>18, CommandWriteOn
<1>19. CASE HcReceive
  BY <1>19 DEF HcReceive, CMD, remembered, buffer, hc, medium
<1>20. CASE HcSend
  BY <1>20, SendWriteOn
<1>21. CASE HcCrc
  BY <1>21 DEF HcCrc, CMD, remembered, buffer, hc, medium
<1>22. CASE HcDto
  BY <1>22 DEF HcDto, CMD, remembered, buffer, hc, medium
<1>23. CASE HcDataError
  BY <1>23 DEF HcDataError, CMD, remembered, buffer, hc, medium
<1>24. CASE CardReady
  BY <1>24 DEF CardReady, CMD, remembered, buffer, hc, medium
<1>25. ASSUME NEW c \in {"status", "stop"}, ClientSends(c) PROVE TransfersRight'
  BY <1>25 DEF ClientSends, CMD, remembered, buffer, hc, medium
<1>26. CASE UNCHANGED mshcVars
  BY <1>26 DEF mshcVars, CMD, remembered, buffer, hc, medium
<1> QED BY <1>1, <1>2, <1>3, <1>4, <1>5, <1>6, <1>7, <1>8, <1>9, <1>10, <1>11, <1>12,
           <1>13, <1>14, <1>15, <1>16, <1>17, <1>18, <1>19, <1>20, <1>21, <1>22,
           <1>23, <1>24, <1>25, <1>26 DEF MshcNext, CallSteps, Hc

\* The invariant holds when the driver starts.
LEMMA MshcInitially == MshcInit => MshcInv
<1> SUFFICES ASSUME MshcInit PROVE MshcInv
  OBVIOUS
<1> USE SizeAssumption DEF MshcInit, Quiet, InTransfer
<1>1. MshcTypeOK
  <2>1. <<>> \in Seq(Entry) /\ <<>> \in Seq([at : Blocks, block : Blocks])
    OBVIOUS
  <2>2. /\ mMshcArgument \in Blocks /\ length \in 1 .. MaxLength /\ left \in 0 .. MaxLength
        /\ bytcnt \in 0 .. MaxLength /\ pos \in 0 .. Last + 1
    BY DEF Blocks
  <2>3. got \in Seq(Entry) /\ fifo \in Seq(Entry) /\ stored \in Seq([at : Blocks, block : Blocks])
    BY <2>1
  <2> QED BY <2>2, <2>3 DEF MshcTypeOK
<1>2. Steps /\ OneTransfer /\ OneCommand /\ CardFollows /\ StateIsAnswered
  BY DEF Steps, OneTransfer, OneCommand, CardFollows, StateIsAnswered
<1>3. ReadOn /\ WriteOn
  BY DEF ReadOn, WriteOn
<1>4. TransfersRight
  BY DEF TransfersRight, ReadRight, WriteRight, Succeeded
<1> QED BY <1>1, <1>2, <1>3, <1>4 DEF MshcInv

(* The invariant holds of the block transfers, for any size of the card, any *)
(* length of a transfer, any depth of the FIFO, and whatever the card fails.  *)
THEOREM MshcInvariant == MshcSpec => []MshcInv
<1>1. MshcInit => MshcInv
  BY MshcInitially
<1>2. MshcInv /\ [MshcNext]_mshcVars => MshcInv'
  <2> SUFFICES ASSUME MshcInv, [MshcNext]_mshcVars PROVE MshcInv'
    OBVIOUS
  <2>1. StateIsAnswered'
    BY OneCommandStep DEF OneCommand, StateIsAnswered
  <2> QED BY <2>1, MshcTypeOKStep, StepsStep, OneTransferStep, OneCommandStep, CardFollowsStep,
             ReadOnStep, WriteOnStep, TransfersRightStep DEF MshcInv
<1> QED BY <1>1, <1>2, PTL DEF MshcSpec

(* The types of the transfers' state hold in every reachable state.          *)
THEOREM MshcTyped == MshcSpec => []MshcTypeOK
<1>1. MshcInv => MshcTypeOK
  BY DEF MshcInv
<1> QED BY <1>1, MshcInvariant, PTL

(* For any card, any length of a transfer and any depth of the FIFO: a        *)
(* transfer that succeeds is exactly the one asked for, after any transfers   *)
(* that failed, and the card never stores a block under another's number.     *)
THEOREM TransfersAreRight == MshcSpec => []TransfersRight
<1>1. MshcInv => TransfersRight
  BY DEF MshcInv
<1> QED BY <1>1, MshcInvariant, PTL

(* The state asked for after a transfer is the card's answer to CMD13 and not  *)
(* to an earlier command: the late DTO of the transfer does not end the wait.  *)
THEOREM StateIsAlwaysAnswered == MshcSpec => []StateIsAnswered
<1>1. MshcInv => StateIsAnswered
  BY DEF MshcInv
<1> QED BY <1>1, MshcInvariant, PTL
=============================================================================
