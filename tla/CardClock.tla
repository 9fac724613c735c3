------------------------------ MODULE CardClock ------------------------------
(***************************************************************************)
(* The clocks of the SD card (MshcDxe) and of the eMMC (EmmcDxe), each the *)
(* source the clock unit selects (Cru), the first through a divider of the *)
(* controller.  The registers CLKENA and CLKDIV reach the card's clock     *)
(* only with a command of their own, which the controller may refuse.      *)
(* BoardInitDxe sets the source of another controller meanwhile (PciHost). *)
(* Frequencies are in kHz.                                                 *)
(***************************************************************************)
EXTENDS PciHost

VARIABLES
  sd,     \* the SD controller and the running call of MshcDxe
  emmc    \* the eMMC controller and EmmcDxe

cardVars == <<sd, emmc>>

\* What the MMC driver asks for; PcdMshcDxeMaxClockFreqInHz.
Frequencies == {0, 100, 400, 26000, 50000, 52000}
MaxClockFreq == 50000
Dividers == 256

-----------------------------------------------------------------------------
(***************************************************************************)
(* SD.  "ena" and "div" are the registers, "liveEna" and "liveDiv" what    *)
(* the card's clock runs on; "freq" and "after" belong to the running      *)
(* call, "asked" is what the last one that ended asked for (0: none yet).  *)
(***************************************************************************)
SdInit ==
  sd \in [pc : {"off"}, ena : {FALSE}, div : {0}, liveEna : BOOLEAN, liveDiv : {0, 1},
          freq : {0}, after : {"idle"}, asked : {0}, ctype : {0}, ddr : {FALSE},
          busy : BOOLEAN, failed : {FALSE}]

SdStep(from, sd1) == sd.pc = from /\ sd' = sd1 /\ UNCHANGED <<hostVars, emmc>>

MshcDxeInitialize ==
  /\ sd.pc = "off" /\ sd' = [sd EXCEPT !.pc = "installed"]
  /\ cru' = [cru EXCEPT !.sdmmc = CruSetSdmmcClockRate(@, 0, 100000)]
  /\ UNCHANGED <<board, gaveUp, calls, hostPc, polls, phy, pmic, gmac, pci, ahci, emmc>>

SetsClock(freq, after) == [sd EXCEPT !.pc = "divider", !.freq = freq, !.after = after]

\* MshcNotifyState: the card is powered and the controller reset first.
MshcNotifyState ==
  /\ sd.pc \in {"installed", "idle"}
  /\ SdStep(sd.pc, SetsClock(400, "setup"))

MshcNotifyStateEnds == SdStep("setup", [sd EXCEPT !.pc = "idle", !.ctype = 0])

\* MshcSetIos: the mode is written before the width is found to be no width.
MshcSetIos ==
  \E freq \in Frequencies, width \in {1, 3, 4, 8}, timing \in {"backward", "sdr", "ddr", "other"} :
    LET timed == CASE timing = "ddr" -> [sd EXCEPT !.ddr = TRUE]
                   [] timing = "sdr" -> [sd EXCEPT !.ddr = FALSE]
                   [] OTHER -> sd
        wide == [timed EXCEPT !.ctype = width] IN
    SdStep("idle", IF freq > MaxClockFreq \/ timing = "other" THEN sd
                   ELSE IF width = 3 THEN timed
                   ELSE IF freq = 0 THEN wide
                   ELSE [wide EXCEPT !.pc = "divider", !.freq = freq, !.after = "idle"])

-----------------------------------------------------------------------------
\* MshcSetClock: the divider, or EFI_NOT_FOUND.
Rate == CruGetSdmmcClockRate(cru.sdmmc, 0)
\* mutant: as if the register held the divider less one
LessOne(freq) == {d \in 1..Dividers - 1 : Rate \div (2 * (d + 1)) <= freq}

LowEnough(freq) == {d \in 1..Dividers - 1 : Rate \div (2 * d) <= freq}
Divider(freq) == IF Rate = freq THEN 0 ELSE CHOOSE d \in LowEnough(freq) : \A e \in LowEnough(freq) : d <= e
Found(freq) == Rate = freq \/ LowEnough(freq) # {}

MshcDividerNotFound == ~Found(sd.freq) /\ SdStep("divider", [sd EXCEPT !.pc = sd.after])

MshcCardIdle == sd.busy /\ SdStep(sd.pc, [sd EXCEPT !.busy = FALSE])

MshcDisableClock ==
  Found(sd.freq) /\ ~sd.busy /\ SdStep("divider", [sd EXCEPT !.ena = FALSE, !.pc = "disabled"])

MshcWriteDivider ==
  SdStep("divide", [sd EXCEPT !.div = Divider(sd.freq), !.pc = "divided"])

MshcEnableClock == SdStep("enable", [sd EXCEPT !.ena = TRUE, !.pc = "enabled"])

\* MshcUpdateClock after each of them: the registers reach the clock.
AfterUpdate == [disabled |-> "divide", divided |-> "enable", enabled |-> sd.after]
Updated(sd1) == [sd1 EXCEPT !.pc = AfterUpdate[sd.pc],
                            !.asked = IF sd.pc = "enabled" THEN sd.freq ELSE @]

MshcUpdateClock ==
  /\ sd.pc \in DOMAIN AfterUpdate
  /\ SdStep(sd.pc, Updated([sd EXCEPT !.liveEna = sd.ena, !.liveDiv = sd.div]))

\* DWEMMC_INT_HLE: an error only ASSERT looks at.
MshcUpdateFails ==
  /\ sd.pc \in DOMAIN AfterUpdate
  /\ \E sd1 \in {[sd EXCEPT !.pc = "stopped"], Updated(sd)} :
       SdStep(sd.pc, [sd1 EXCEPT !.failed = TRUE])

-----------------------------------------------------------------------------
(***************************************************************************)
(* eMMC: EmmcDxe hooks itself into the phases of the SDHCI driver.         *)
(***************************************************************************)
Modes == {"hs400", "hs200", "hsSdr", "hsDdr", "legacy"}
EmmcMaxClockFreq(mode) ==
  CASE mode \in {"hs400", "hs200"} -> 200000 [] mode \in {"hsSdr", "hsDdr"} -> 52000 [] OTHER -> 26000

EmmcInit ==
  emmc \in [pc : {"off"}, source : 0..5, dll : {"on", "off"}, sdclk : {FALSE}, power : {FALSE},
            mode : {"none"}, forced : BOOLEAN, modes : {{}}, polls : {0}, lock : {FALSE}]

EmmcStep(from, emmc1) == emmc.pc = from /\ emmc' = emmc1 /\ UNCHANGED <<hostVars, sd>>

EmmcDxeInitialize ==
  EmmcStep("off", [emmc EXCEPT !.pc = "registered", !.source = CruSetEmmcClockRate(375), !.dll = "off"])

\* PcdEmmcForceHighSpeed takes SDR104 (HS200), HS400 and DDR50 away.
EmmcSdMmcCapability ==
  EmmcStep("registered", [emmc EXCEPT !.pc = "ready", !.modes =
                            IF emmc.forced THEN {"hsSdr", "legacy"} ELSE Modes])

EmmcInitHostPost == EmmcStep("ready", [emmc EXCEPT !.sdclk = TRUE, !.power = TRUE])

Switched(mode) ==
  [emmc EXCEPT !.mode = mode, !.source = CruSetEmmcClockRate(EmmcMaxClockFreq(mode))]
DllOff(e) == [e EXCEPT !.dll = "off"]
DllStarts(e) == [e EXCEPT !.pc = "dll", !.dll = "starting", !.polls = 0, !.lock = FALSE]

EmmcSwitchClockFreqPost ==
  \E mode \in emmc.modes :
    EmmcStep("ready", IF EmmcMaxClockFreq(mode) <= 52000 THEN DllOff(Switched(mode))
                      ELSE DllStarts(Switched(mode)))

EmmcDllLocks == ~emmc.lock /\ EmmcStep("dll", [emmc EXCEPT !.lock = TRUE])
EmmcDllPoll ==
  ~emmc.lock /\ emmc.polls < MaxPolls /\ EmmcStep("dll", [emmc EXCEPT !.polls = @ + 1])

\* Locked, or given up: the delays are enabled all the same.
EmmcDllEnabled ==
  (emmc.lock \/ emmc.polls = MaxPolls) /\ EmmcStep("dll", [emmc EXCEPT !.pc = "ready", !.dll = "on"])

-----------------------------------------------------------------------------
SdNext ==
  \/ MshcDxeInitialize \/ MshcNotifyState \/ MshcNotifyStateEnds \/ MshcSetIos
  \/ MshcDividerNotFound \/ MshcCardIdle \/ MshcDisableClock \/ MshcWriteDivider
  \/ MshcEnableClock \/ MshcUpdateClock \/ MshcUpdateFails

EmmcNext ==
  \/ EmmcDxeInitialize \/ EmmcSdMmcCapability \/ EmmcInitHostPost
  \/ EmmcSwitchClockFreqPost \/ EmmcDllLocks \/ EmmcDllPoll \/ EmmcDllEnabled

-----------------------------------------------------------------------------
\* The rate behind a selection of the eMMC's source.
EmmcRate == EmmcSource[emmc.source + 1]

(* A card is never clocked faster than was asked for it or than its mode   *)
(* allows ("clock that could not be higher than 400KHz" while a card is    *)
(* identified), and its divider changes only while the clock is stopped,   *)
(* at every step of the changes and whatever the board does to the other   *)
(* sources; unless the controller has refused an update, which only        *)
(* ASSERT looks at.  The eMMC's DLL runs for the modes that need it.       *)
CardClockWithin ==
  /\ ~sd.failed /\ sd.liveEna /\ sd.asked # 0 =>
       IF sd.liveDiv = 0 THEN Rate <= sd.asked ELSE Rate <= sd.asked * 2 * sd.liveDiv
  /\ ~sd.failed /\ sd.pc \notin {"off", "installed", "divider", "disabled"} /\ sd.liveDiv # sd.div
       => ~sd.liveEna
  /\ emmc.pc # "off" /\ emmc.mode = "none" => EmmcRate <= 400 /\ emmc.dll = "off"
  /\ emmc.pc = "ready" /\ emmc.mode # "none" =>
       /\ EmmcRate <= EmmcMaxClockFreq(emmc.mode)
       /\ (emmc.dll = "on") = (EmmcRate > 52000)
  /\ emmc.pc = "ready" /\ emmc.forced => EmmcRate <= 52000
=============================================================================
