--------------------------------- MODULE Rtc ---------------------------------
(***************************************************************************)
(* The real-time clock (RtcLib.c), whose registers are read and written    *)
(* one I2C transfer each.  The chip sets the flag RTC_SECONDS_DL when its  *)
(* supply failed and the time in it is lost; any write of the seconds      *)
(* clears it.  The machine may be switched off between two transfers, and  *)
(* the supply of the clock may fail while it is off.                       *)
(*                                                                         *)
(* A register is "kept" (it counts since it was last set) or lost; what    *)
(* time it holds plays no part.                                            *)
(***************************************************************************)
EXTENDS Naturals, Sequences, I2c

VARIABLES
  rtc,     \* the chip: [DL, kept]
  rtcPc,   \* the running call, what it has left to do, what DL it has read
  told     \* a caller has been refused the time since it was lost

rtcVars == <<rtc, rtcPc, told>>

ReadOrder  == <<"seconds", "minutes", "hours", "days", "mon_century", "years">>
\* mutant: in the order of the registers, seconds first
SecondsFirst == <<"seconds", "minutes", "hours", "days", "mon_century", "years">>

WriteOrder == <<"years", "mon_century", "days", "hours", "minutes", "seconds">>
RtcRegisters == {ReadOrder[i] : i \in 1..6}

NoCall == [call |-> "none", todo |-> <<>>, DL |-> FALSE]
Returned(status) == [call |-> status, todo |-> <<>>, DL |-> FALSE]

RtcInit == rtc = [DL |-> TRUE, kept |-> {}] /\ rtcPc = NoCall /\ told = FALSE

\* What a write of a register does to the chip.
Stored(register) == [DL |-> IF register = "seconds" THEN FALSE ELSE rtc.DL,
                     kept |-> rtc.kept \cup {register}]

-----------------------------------------------------------------------------
GetTimeCall ==
  /\ rtcPc.call \in {"none", "time", "error"}
  /\ rtcPc' = [call |-> "get", todo |-> ReadOrder, DL |-> FALSE]
  /\ UNCHANGED <<rtc, told>>

\* RtcRead of the next register, or of none after one that failed.
LibGetTimeReads ==
  /\ rtcPc.call = "get" /\ rtcPc.todo # <<>>
  /\ \E t \in I2cRead :
       rtcPc' = IF I2cOk(t)
                THEN [rtcPc EXCEPT !.todo = Tail(@),
                        !.DL = IF Head(rtcPc.todo) = "seconds" THEN rtc.DL ELSE @]
                ELSE Returned("error")
  /\ UNCHANGED <<rtc, told>>

\* The flag is cleared, and the time refused, whether that write fails or not.
LibGetTimeRefuses ==
  /\ rtcPc.call = "get" /\ rtcPc.todo = <<>> /\ rtcPc.DL
  /\ \E t \in I2cWrite : rtc' = IF t.written THEN [rtc EXCEPT !.DL = FALSE] ELSE rtc
  /\ rtcPc' = Returned("error") /\ told' = TRUE

LibGetTime ==
  /\ rtcPc.call = "get" /\ rtcPc.todo = <<>> /\ ~rtcPc.DL
  /\ rtcPc' = Returned("time")
  /\ UNCHANGED <<rtc, told>>

\* A year outside 2000..2099 is refused before anything is written.
SetTimeCall ==
  /\ rtcPc.call \in {"none", "time", "error"}
  /\ \/ rtcPc' = [call |-> "set", todo |-> WriteOrder, DL |-> FALSE]
     \/ rtcPc' = Returned("error")
  /\ UNCHANGED <<rtc, told>>

\* RtcWrite of the next register.
LibSetTimeWrites ==
  /\ rtcPc.call = "set" /\ rtcPc.todo # <<>>
  /\ \E t \in I2cWrite :
       /\ rtc' = IF t.written THEN Stored(Head(rtcPc.todo)) ELSE rtc
       /\ rtcPc' = IF I2cOk(t) THEN [rtcPc EXCEPT !.todo = Tail(@)] ELSE Returned("error")
  /\ UNCHANGED told

LibSetTime ==
  /\ rtcPc.call = "set" /\ rtcPc.todo = <<>>
  /\ rtcPc' = NoCall
  /\ UNCHANGED <<rtc, told>>

\* The machine is switched off, and on again; the clock goes on or is lost.
SwitchedOff ==
  /\ rtcPc' = NoCall
  /\ \/ UNCHANGED <<rtc, told>>
     \/ rtc' = [DL |-> TRUE, kept |-> {}] /\ told' = FALSE

RtcNext ==
  \/ GetTimeCall \/ LibGetTimeReads \/ LibGetTimeRefuses \/ LibGetTime
  \/ SetTimeCall \/ LibSetTimeWrites \/ LibSetTime \/ SwitchedOff

RtcSpec == RtcInit /\ [][RtcNext]_rtcVars

-----------------------------------------------------------------------------
(* A time is returned only if it counts from one that was set whole, or    *)
(* after a caller was told that it was lost: neither a SetTime that fails  *)
(* half-way nor the power going between two of its writes takes the flag   *)
(* away and leaves the lost time to be believed.                           *)
LossIsDetected == rtcPc.call = "time" => rtc.kept = RtcRegisters \/ told
=============================================================================
