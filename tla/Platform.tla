------------------------------ MODULE Platform -------------------------------
(***************************************************************************)
(* The platform's drivers on one machine, for one run: the boards coming   *)
(* up, the accesses to PCI configuration space after that, the CPU clock,  *)
(* the real-time clock, and the SD and eMMC clocks beside a board's WiFi.  *)
(* They meet in the clock and reset unit, the I2C master and the windows   *)
(* of the root complex.  A session lets one of them run, for they share    *)
(* nothing else and their interleavings would only multiply the states.    *)
(***************************************************************************)
EXTENDS PciConfig, CpuClock, Rtc, CardClock

VARIABLE session

vars == <<session, hostVars, configVars, cpuVars, rtcVars, cardVars>>

AnyCru == CHOOSE c \in UniformCrus : TRUE
AnyRegulator == CHOOSE reg \in Regulators : TRUE
Resting == CHOOSE b \in Boards : b.calls[Len(b.calls)] = Call("wifi")

\* What a component holds in the sessions of the others.
CpuRests ==
  /\ CpuInit
  /\ setup = [created |-> {}, pages |-> FALSE]
  /\ cpu.mhz = Min(Rates) /\ cpu.reg = AnyRegulator
  /\ cpu.vsel = [high |-> {}, nsel |-> Selector(AnyRegulator, Opps[1][2])]
SdRests == SdInit /\ ~sd.liveEna /\ sd.liveDiv = 0 /\ ~sd.busy
EmmcRests == EmmcInit /\ emmc.source = 0 /\ emmc.dll = "off" /\ ~emmc.forced

\* What each session begins with: the boards, or none; a WiFi to set up.
Starts(s) ==
  /\ session = s
  /\ CASE s = "boards" -> HostInit
       [] s = "sd" -> HostState(Resting, AnyCru, <<Call("wifi")>>)
       [] OTHER -> HostState(Resting, AnyCru, <<>>)
  /\ IF s = "cpu" THEN CpuInit ELSE CpuRests
  /\ IF s = "sd" THEN SdInit ELSE SdRests
  /\ IF s = "emmc" THEN EmmcInit ELSE EmmcRests

Init ==
  /\ \E s \in {"boards", "config", "cpu", "rtc", "sd", "emmc"} : Starts(s)
  /\ ConfigInit /\ RtcInit

HostStep   == session \in {"boards", "sd"} /\ HostNext /\ UNCHANGED <<configVars, cpuVars, rtcVars, cardVars>>
ConfigStep == session = "config" /\ ConfigNext /\ UNCHANGED <<hostVars, cpuVars, rtcVars, cardVars>>
CpuStep    == session = "cpu" /\ CpuNext /\ UNCHANGED <<hostVars, configVars, rtcVars, cardVars>>
RtcStep    == session = "rtc" /\ RtcNext /\ UNCHANGED <<hostVars, configVars, cpuVars, cardVars>>
SdSession  == session = "sd" /\ SdNext /\ UNCHANGED <<configVars, cpuVars, rtcVars>>
EmmcSession == session = "emmc" /\ EmmcNext /\ UNCHANGED <<configVars, cpuVars, rtcVars>>

Next ==
  UNCHANGED session /\ (HostStep \/ ConfigStep \/ CpuStep \/ RtcStep \/ SdSession \/ EmmcSession)

Spec == Init /\ [][Next]_vars

=============================================================================
