-------------------------------- MODULE Cru ---------------------------------
(***************************************************************************)
(* The clock and reset unit library (CruLib.c): the PLL of the PCIe, SATA  *)
(* and USB3 PHYs, whose divided output and the 24 MHz crystal are the two  *)
(* references of each PHY; the clock gates and soft resets; and the source *)
(* selectors of the SD and eMMC controllers.  The unit is one record of    *)
(* registers and every function of the library maps it to the next one.    *)
(* Rates are in kHz, which TLC's integers hold.                            *)
(***************************************************************************)
EXTENDS Integers, FiniteSets

CRU_CLKREF_RATE == 24000

CruPllRates ==
  { [rate |-> 1200000, RefDiv |-> 1, FbDiv |-> 100, PostDiv1 |-> 2, PostDiv2 |-> 1],
    [rate |-> 594000,  RefDiv |-> 1, FbDiv |-> 99,  PostDiv1 |-> 4, PostDiv2 |-> 1],
    [rate |-> 297000,  RefDiv |-> 1, FbDiv |-> 99,  PostDiv1 |-> 4, PostDiv2 |-> 2],
    [rate |-> 200000,  RefDiv |-> 1, FbDiv |-> 100, PostDiv1 |-> 3, PostDiv2 |-> 4],
    [rate |-> 148500,  RefDiv |-> 1, FbDiv |-> 99,  PostDiv1 |-> 4, PostDiv2 |-> 4],
    [rate |-> 74250,   RefDiv |-> 2, FbDiv |-> 99,  PostDiv1 |-> 4, PostDiv2 |-> 4] }

CruFindPllRate(rate) == CHOOSE r \in CruPllRates : r.rate = rate

-----------------------------------------------------------------------------
(***************************************************************************)
(* The PHY PLL.  Every row of the table is in integer mode, so the         *)
(* fraction is written as 0 and plays no part.  "normal" is its selection  *)
(* in PMUCRU_MODE_CON00, "locked" the LOCK_STATUS bit the hardware keeps:  *)
(* it falls when a divider is written and rises some time later.           *)
(***************************************************************************)
PmuCruGetPllRate(pll) ==
  IF pll.bypass THEN CRU_CLKREF_RATE
  ELSE (((CRU_CLKREF_RATE \div pll.RefDiv) * pll.FbDiv) \div pll.PostDiv1) \div pll.PostDiv2

SlowMode(c)   == [c EXCEPT !.pll = [@ EXCEPT !.normal = FALSE]]
WriteCon0(c, r) == [c EXCEPT !.pll = [@ EXCEPT !.FbDiv = r.FbDiv, !.PostDiv1 = r.PostDiv1,
                                               !.bypass = FALSE, !.locked = FALSE]]
WriteCon1(c, r) == [c EXCEPT !.pll = [@ EXCEPT !.RefDiv = r.RefDiv, !.PostDiv2 = r.PostDiv2,
                                               !.locked = FALSE]]
NormalMode(c) == [c EXCEPT !.pll = [@ EXCEPT !.normal = TRUE]]

\* What comes out of the PLL: the crystal in slow mode, nothing known while
\* it is unlocked.
NoClock == 0
PllOutput(pll) == IF ~pll.normal THEN CRU_CLKREF_RATE
                  ELSE IF pll.locked \/ pll.bypass THEN PmuCruGetPllRate(pll)
                  ELSE NoClock

-----------------------------------------------------------------------------
\* The reference of PHY n: what the registers say, and what it is.
CruSetPciePhySource(c, n, source) == [c EXCEPT !.sel = [@ EXCEPT ![n] = source]]
SetPciePhyDiv(c, n) == [c EXCEPT !.div = [@ EXCEPT ![n] = 0]]

CruGetPciePhyClockRate(c, n) ==
  IF c.sel[n] = 0 THEN CRU_CLKREF_RATE
  ELSE (PmuCruGetPllRate(c.pll) \div 2) \div (c.div[n] + 1)

PhyReference(c, n) ==
  IF c.sel[n] = 0 THEN CRU_CLKREF_RATE
  ELSE (PllOutput(c.pll) \div 2) \div (c.div[n] + 1)

-----------------------------------------------------------------------------
\* Gates and soft resets, each named by its register and bit.
CruEnableClock(c, gates)       == [c EXCEPT !.gates = @ \cup gates]
CruAssertSoftReset(c, resets)  == [c EXCEPT !.resets = @ \cup resets]
CruDeassertSoftReset(c, resets) == [c EXCEPT !.resets = @ \ resets]

-----------------------------------------------------------------------------
\* The source of SD controller 0, 1 or 2, the first two in one register, each
\* written under its own mask; and of the eMMC controller.
SdmmcSource == <<24000, 400000, 300000, 100000, 50000, 750>>

CruGetSdmmcClockRate(sel, i) == SdmmcSource[sel[i] + 1]

SdmmcSel(rate) == CASE rate <= 750 -> 5                [] rate \in 751..24000 -> 0
                    [] rate \in 24001..50000 -> 4     [] rate \in 50001..100000 -> 3
                    [] rate \in 100001..300000 -> 2   [] OTHER -> 1

CruSetSdmmcClockRate(sel, i, rate) == [sel EXCEPT ![i] = SdmmcSel(rate)]

EmmcSel(rate) == CASE rate >= 200000 -> 1              [] rate \in 150000..199999 -> 2
                   [] rate \in 100000..149999 -> 3   [] rate \in 50000..99999 -> 4
                   [] rate \in 24000..49999 -> 0     [] OTHER -> 5

\* The rates behind those selections.
EmmcSource == <<24000, 200000, 150000, 100000, 50000, 375>>
CruSetEmmcClockRate(rate) == EmmcSel(rate)
=============================================================================
