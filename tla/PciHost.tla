------------------------------ MODULE PciHost -------------------------------
(***************************************************************************)
(* The board comes up: BoardInitDxe (Boards), the combo PHYs and their     *)
(* shared PLL (MultiPhyLib, CruLib), the PCIe 3.0 PHY (Pcie30PhyLib), the  *)
(* PCIe root complex (PciHostBridgeInit, PciHostBridgeLib) and the AHCI    *)
(* controllers (SataDxe).  The drivers run one after the other; what runs  *)
(* beside them is the hardware they wait for: the PLL that locks, the PHY  *)
(* that loads its firmware, the link that trains, the controller that ends *)
(* its reset.                                                              *)
(*                                                                         *)
(* ASSERT stops a DEBUG build and does nothing in a RELEASE build: both    *)
(* are modelled.                                                           *)
(***************************************************************************)
EXTENDS Cru, I2c, Boards

CONSTANTS
  MaxPolls,   \* bound on the polls of a wait (100, 500 and 20 in the code)
  MaxFaults   \* bound on the I2C transfers that fail

ASSUME HostAssumption == MaxPolls \in Nat \ {0} /\ MaxFaults \in Nat

VARIABLES
  board,
  calls,    \* what is left to do, the call that runs first
  hostPc,   \* the step the running call is at
  polls,    \* the polls of the running wait
  gaveUp,   \* the last wait for the PLL ended without it
  cru,      \* clock and reset unit
  phy,      \* combo PHYs: the mode set, and PHY_CLK_SEL as a rate
  pmic,     \* [todo, vsel, on, faults]
  gmac,     \* [todo, configured, address]
  pci,      \* the root complex and its PHY
  ahci      \* the AHCI controllers [reset, enabled]

hostVars == <<board, calls, hostPc, polls, gaveUp, cru, phy, pmic, gmac, pci, ahci>>

Running == Head(calls)
Goto(step) == hostPc' = step
Return == calls' = Tail(calls) /\ hostPc' = "next"
Halt == hostPc' = "halted" /\ UNCHANGED calls

-----------------------------------------------------------------------------
\* Soft resets: of PHY n, of the PCIe 3.0 PHY, of a GMAC, and the power-up
\* reset of a PCIe controller.
PhyReset(n) == <<28, 5 + 2 * n>>
Pcie30PhyReset == <<27, 14>>
GmacReset(n) == IF n = 0 THEN <<13, 7>> ELSE <<14, 12>>
PowerupReset(segment) == <<10 + segment, 1>>

\* The six clock gates of a PCIe controller.
PcieGates(segment) ==
  { <<IF segment = 2 THEN 13 ELSE 12, bit + IF segment = 1 THEN 8 ELSE 0>> : bit \in 0..5 }

Pcie30PhyGates == {<<"pmu", 2, 13>>, <<"pmu", 2, 14>>, <<33, 8>>}

-----------------------------------------------------------------------------
\* What the boot loader leaves: any setting of the PHY clocks, the PLL of the
\* table or bypassed; the PCIe controllers in reset.
InitialPlls == [FbDiv : {100}, PostDiv1 : {2}, RefDiv : {2}, PostDiv2 : {1},
                bypass : BOOLEAN, normal : {TRUE}, locked : {TRUE}]
InitialCrus == [pll : InitialPlls, div : [0..2 -> {0, 3}], sel : [0..2 -> {0, 1}],
                gates : {{}}, resets : {{PowerupReset(s) : s \in 0..2}},
                sdmmc : {[i \in 0..2 |-> 0]}]
UniformCrus == { c \in InitialCrus : \A m, n \in 0..2 : c.div[m] = c.div[n] /\ c.sel[m] = c.sel[n] }

NoPci == [powered |-> FALSE, phyReady |-> FALSE, rc |-> FALSE, roWr |-> FALSE,
          bridge |-> FALSE, atu |-> {}, speed |-> 0, lanes |-> 0, perst |-> "floating",
          ltssm |-> FALSE, link |-> FALSE, bridges |-> 0]

(* PciHostBridgeDxe runs after BoardInitDxe, SataEndOfDxeCallback last.    *)
HostCalls(b) ==
  b.calls \o <<Call("pci")>> \o [i \in 1..Len(b.sata) |-> [call |-> "sata", n |-> b.sata[i]]]

HostState(b, c, todo) ==
  /\ board = b /\ calls = todo /\ hostPc = "next" /\ polls = 0 /\ gaveUp = FALSE
  /\ cru = c
  /\ phy = [n \in 0..2 |-> [mode |-> "none", clk |-> CRU_CLKREF_RATE]]
  /\ pmic = [todo |-> <<>>, vsel |-> [r \in 1..9 |-> "default"], on |-> {}, faults |-> 0]
  /\ gmac = [todo |-> <<>>, configured |-> {}, address |-> [n \in {0, 1} |-> "none"]]
  /\ pci = NoPci
  /\ ahci = [i \in 0..2 |-> "off"]

HostInit == \E b \in Boards, c \in UniformCrus : HostState(b, c, HostCalls(b))

-----------------------------------------------------------------------------
\* The next call begins.
Begins(name, step) == hostPc = "next" /\ calls # <<>> /\ Running.call = name /\ Goto(step)

(* BoardInitPmic: the chip is identified, and what was read is only looked *)
(* at by ASSERT.  No write looks at the status of the one before.          *)
PmicIdentify ==
  /\ Begins("pmic", "rails")
  /\ pmic' = [pmic EXCEPT !.todo = board.rails]
  /\ UNCHANGED <<board, gaveUp, calls, polls, cru, phy, gmac, pci, ahci>>

PmicUnidentified ==
  /\ Begins("pmic", "halted") /\ pmic.faults < MaxFaults
  /\ \E t \in I2cRead : ~I2cOk(t)
  /\ pmic' = [pmic EXCEPT !.faults = @ + 1]
  /\ UNCHANGED <<board, gaveUp, calls, polls, cru, phy, gmac, pci, ahci>>

PmicUnidentifiedRelease ==
  /\ Begins("pmic", "rails") /\ pmic.faults < MaxFaults
  /\ pmic' = [pmic EXCEPT !.todo = board.rails, !.faults = @ + 1]
  /\ UNCHANGED <<board, gaveUp, calls, polls, cru, phy, gmac, pci, ahci>>

Taken(w) == [pmic EXCEPT !.vsel = [r \in 1..9 |-> IF w.reg = "vsel" /\ r \in w.rails THEN w.v ELSE @[r]],
                         !.on = IF w.reg = "power_en" THEN @ \cup w.rails ELSE @]

PmicWrite ==
  /\ hostPc = "rails" /\ pmic.todo # <<>>
  /\ \E t \in I2cWrite :
       LET after == IF t.written THEN Taken(Head(pmic.todo)) ELSE pmic IN
       /\ I2cOk(t) \/ pmic.faults < MaxFaults
       /\ pmic' = [after EXCEPT !.todo = Tail(@), !.faults = IF I2cOk(t) THEN @ ELSE @ + 1]
  /\ UNCHANGED <<board, gaveUp, calls, hostPc, polls, cru, phy, gmac, pci, ahci>>

PmicReturns ==
  /\ hostPc = "rails" /\ pmic.todo = <<>> /\ Return
  /\ UNCHANGED <<board, gaveUp, polls, cru, phy, pmic, gmac, pci, ahci>>

(* BoardInitGmac, a step at a time, on all the controllers of the board.   *)
GmacBegin ==
  /\ Begins("gmac", "gmac")
  /\ gmac' = [gmac EXCEPT !.todo = board.gmac]
  /\ UNCHANGED <<board, gaveUp, calls, polls, cru, phy, pmic, pci, ahci>>

\* The last byte is even for GMAC0 and odd for GMAC1 where there are two.
MacAddress(n) == IF board.macs = {0, 1} THEN (IF n = 0 THEN "even" ELSE "odd") ELSE "otp"

GmacStep ==
  /\ hostPc = "gmac" /\ gmac.todo # <<>>
  /\ LET step == Head(gmac.todo)
         resets == {GmacReset(n) : n \in board.macs} IN
     /\ cru' = CASE step = "assert" -> CruAssertSoftReset(cru, resets)
                 [] step = "release" -> CruDeassertSoftReset(cru, resets)
                 [] OTHER -> cru
     /\ gmac' = [todo |-> Tail(gmac.todo),
                 configured |-> IF step = "configure" THEN board.macs ELSE gmac.configured,
                 address |-> IF step = "address"
                             THEN [n \in {0, 1} |-> IF n \in board.macs THEN MacAddress(n) ELSE "none"]
                             ELSE gmac.address]
  /\ UNCHANGED <<board, gaveUp, calls, hostPc, polls, phy, pmic, pci, ahci>>

GmacReturns ==
  /\ hostPc = "gmac" /\ gmac.todo = <<>> /\ Return
  /\ UNCHANGED <<board, gaveUp, polls, cru, phy, pmic, gmac, pci, ahci>>

BoardInitWiFi ==
  /\ hostPc = "next" /\ calls # <<>> /\ Running.call = "wifi" /\ Return
  /\ \E i \in board.sdmmc : cru' = [cru EXCEPT !.sdmmc = CruSetSdmmcClockRate(@, i, 100000)]
  /\ UNCHANGED <<board, gaveUp, polls, phy, pmic, gmac, pci, ahci>>

-----------------------------------------------------------------------------
(* MultiPhySetMode: CruSetPciePhyClockRate(100 MHz), whose PLL serves all  *)
(* the PHYs, runs before the reset of this one is asserted.                *)
\* mutant: the SATA PHY asks the shared PLL for a rate of its own
PhySetsPllOwnRate ==
  /\ Begins("phy", "lock") /\ polls' = 0 /\ gaveUp' = FALSE
  /\ LET r == CruFindPllRate(IF Running.mode = "sata" THEN 297000 ELSE 200000) IN
     cru' = WriteCon1(WriteCon0(SlowMode(cru), r), r)
  /\ UNCHANGED <<board, calls, phy, pmic, gmac, pci, ahci>>

PhySetsPll ==
  /\ Begins("phy", "lock") /\ polls' = 0 /\ gaveUp' = FALSE
  /\ LET r == CruFindPllRate(2 * 100000) IN
     cru' = WriteCon1(WriteCon0(SlowMode(cru), r), r)
  /\ UNCHANGED <<board, calls, phy, pmic, gmac, pci, ahci>>

PllLocks ==
  /\ ~cru.pll.locked
  /\ cru' = [cru EXCEPT !.pll.locked = TRUE]
  /\ UNCHANGED <<board, gaveUp, calls, hostPc, polls, phy, pmic, gmac, pci, ahci>>

PllPoll ==
  /\ hostPc = "lock" /\ ~cru.pll.locked /\ polls < MaxPolls
  /\ polls' = polls + 1
  /\ UNCHANGED <<board, gaveUp, calls, hostPc, cru, phy, pmic, gmac, pci, ahci>>

\* Given up: the PLL is selected all the same, for nobody looks at the status.
PllGivesUp ==
  /\ hostPc = "lock" /\ ~cru.pll.locked /\ polls = MaxPolls
  /\ hostPc' \in {"halted", "locked"} /\ gaveUp' = TRUE
  /\ UNCHANGED <<board, calls, polls, cru, phy, pmic, gmac, pci, ahci>>

PllLockSeen ==
  /\ hostPc = "lock" /\ cru.pll.locked /\ Goto("locked")
  /\ UNCHANGED <<board, gaveUp, calls, polls, cru, phy, pmic, gmac, pci, ahci>>

CruSetPciePhyClockRate(c, n) == CruSetPciePhySource(SetPciePhyDiv(NormalMode(c), n), n, 1)

PhyClocked ==
  /\ hostPc = "locked" /\ Goto("mode")
  /\ LET n == Running.n IN
     cru' = CruAssertSoftReset(CruSetPciePhyClockRate(cru, n), {PhyReset(n)})
  /\ UNCHANGED <<board, gaveUp, calls, polls, phy, pmic, gmac, pci, ahci>>

(* MultiPhySetModePcie and MultiPhySetModeSata write all of PIPE_CON1      *)
(* before the reference in it, MultiPhySetModeUsb3 the reference only; it  *)
(* falls back on the crystal where the rate is none of the three.          *)
References == {24000, 25000, 100000}

FallsBack == Running.mode = "usb3" /\ CruGetPciePhyClockRate(cru, Running.n) \notin References
Referenced == IF FallsBack THEN CruSetPciePhySource(cru, Running.n, 0) ELSE cru
PhyRate == CruGetPciePhyClockRate(Referenced, Running.n)

\* PHY_CLK_SEL is the rate, where it is one of the three.
PhySetting ==
  [mode |-> Running.mode,
   clk |-> IF PhyRate \in References THEN PhyRate
           ELSE IF Running.mode = "usb3" THEN phy[Running.n].clk ELSE CRU_CLKREF_RATE]

PhyMode ==
  /\ hostPc = "mode"
  /\ phy' = [phy EXCEPT ![Running.n] = PhySetting]
  /\ cru' = IF PhyRate \in References THEN CruDeassertSoftReset(Referenced, {PhyReset(Running.n)})
            ELSE Referenced
  /\ IF "then" \in DOMAIN Running THEN hostPc' = Running.then /\ calls' = Tail(calls)
     ELSE Return
  /\ UNCHANGED <<board, gaveUp, polls, pmic, gmac, pci, ahci>>

-----------------------------------------------------------------------------
(* InitializePciHost.  A step is a register of the root complex or of its  *)
(* PHY, or several with nothing between them.                              *)
Segment == board.pcie.segment

PciSteps(before, after, pci1) ==
  /\ hostPc = before /\ Goto(after) /\ pci' = pci1
  /\ UNCHANGED <<board, gaveUp, calls, polls, phy, pmic, gmac, ahci>>

PciPower ==
  /\ hostPc = "next" /\ calls # <<>> /\ Running.call = "pci"
  /\ pci' = [pci EXCEPT !.powered = board.pcie.powered]
  /\ IF Segment = 0
     THEN /\ calls' = <<[call |-> "phy", n |-> 2, mode |-> "pcie", then |-> "clocks"]>> \o calls
          /\ UNCHANGED <<hostPc, cru>>
     ELSE /\ Goto("pcie30phy") /\ UNCHANGED calls
          /\ cru' = CruAssertSoftReset(CruEnableClock(cru, Pcie30PhyGates), {Pcie30PhyReset})
  /\ UNCHANGED <<board, gaveUp, polls, phy, pmic, gmac, ahci>>

\* Pcie30PhyInit, after the reset: lanes and link numbers, then the firmware.
Pcie30PhyRelease ==
  /\ hostPc = "pcie30phy" /\ Goto("sram") /\ polls' = 0
  /\ cru' = CruDeassertSoftReset(cru, {Pcie30PhyReset})
  /\ UNCHANGED <<board, gaveUp, calls, phy, pmic, gmac, pci, ahci>>

SramInitDone ==
  /\ Segment # 0 /\ ~pci.phyReady /\ hostPc \in {"sram", "next"}
  /\ Pcie30PhyReset \notin cru.resets /\ Pcie30PhyGates \subseteq cru.gates
  /\ pci' = [pci EXCEPT !.phyReady = TRUE]
  /\ UNCHANGED <<board, gaveUp, calls, hostPc, polls, cru, phy, pmic, gmac, ahci>>

Pcie30PhyPoll ==
  /\ hostPc = "sram" /\ ~pci.phyReady /\ polls < MaxPolls /\ polls' = polls + 1
  /\ UNCHANGED <<board, gaveUp, calls, hostPc, cru, phy, pmic, gmac, pci, ahci>>

Pcie30PhyInitialized ==
  /\ hostPc = "sram" /\ pci.phyReady /\ Goto("clocks")
  /\ UNCHANGED <<board, gaveUp, calls, polls, cru, phy, pmic, gmac, pci, ahci>>

\* PciHostBridgeGetRootBridges: no root bridge where the host fails.
NoRootBridge(timeout) ==
  /\ timeout /\ Return
  /\ UNCHANGED <<board, gaveUp, polls, cru, phy, pmic, gmac, pci, ahci>>

Pcie30PhyTimeout == NoRootBridge(hostPc = "sram" /\ ~pci.phyReady /\ polls = MaxPolls)

\* mutant: only the first of the two PCIe 3.0 controllers is clocked
OneSegment == IF Segment = 0 THEN {0} ELSE {1}

ClockedSegments == IF Segment = 0 THEN {0} ELSE {1, 2}

PciSetupClocks ==
  /\ PciSteps("clocks", "rc", pci)
  /\ cru' = CruEnableClock(CruDeassertSoftReset(cru, {PowerupReset(s) : s \in ClockedSegments}),
                           UNION {PcieGates(s) : s \in ClockedSegments})

PciSetRcMode == PciSteps("rc", "dbi", [pci EXCEPT !.rc = TRUE]) /\ UNCHANGED cru

\* Read-only registers are made writable, and the class becomes a bridge's.
PciSetupBars ==
  PciSteps("dbi", "atu", [pci EXCEPT !.roWr = TRUE, !.bridge = TRUE]) /\ UNCHANGED cru

\* The windows, in units of 64 KB above PCIE_BASE: configuration of the
\* secondary bus, of the busses behind it, and I/O.
MB == 16
Windows ==
  << [type |-> "CFG0", base |-> MB, size |-> 1, shift |-> TRUE],
     [type |-> "CFG1", base |-> 2 * MB, size |-> 256 * MB - (2 * MB + 1), shift |-> TRUE],
     [type |-> "IO", base |-> 12287, size |-> 1, shift |-> FALSE] >>

PciSetupAtu ==
  /\ hostPc = "atu" /\ pci.atu # 1..3
  /\ pci' = [pci EXCEPT !.atu = @ \cup {Cardinality(@) + 1}]
  /\ UNCHANGED <<board, gaveUp, calls, hostPc, polls, cru, phy, pmic, gmac, ahci>>

\* PciSetupLinkSpeed and PciDirectSpeedChange; then read-only again.
LinkSpeedSet == [pci EXCEPT !.roWr = FALSE, !.speed = board.pcie.speed, !.lanes = board.pcie.lanes]
PciSetupLinkSpeed ==
  pci.atu = 1..3 /\ PciSteps("atu", "perst", LinkSpeedSet) /\ UNCHANGED cru

PciResetLow == PciSteps("perst", "ltssm", [pci EXCEPT !.perst = "low"]) /\ UNCHANGED cru
PciEnableLtssm == PciSteps("ltssm", "release", [pci EXCEPT !.ltssm = TRUE]) /\ UNCHANGED cru
PciResetHigh ==
  /\ hostPc = "release" /\ Goto("linkup") /\ polls' = 0
  /\ pci' = [pci EXCEPT !.perst = "high"]
  /\ UNCHANGED <<board, gaveUp, calls, cru, phy, pmic, gmac, ahci>>

LinkTrains ==
  /\ pci.ltssm /\ pci.perst = "high" /\ ~pci.link
  /\ pci' = [pci EXCEPT !.link = TRUE]
  /\ UNCHANGED <<board, gaveUp, calls, hostPc, polls, cru, phy, pmic, gmac, ahci>>

PciIsLinkUp == hostPc = "linkup" /\ pci.link

PciPoll ==
  /\ hostPc = "linkup" /\ ~pci.link /\ polls < MaxPolls /\ polls' = polls + 1
  /\ UNCHANGED <<board, gaveUp, calls, hostPc, cru, phy, pmic, gmac, pci, ahci>>

PciHostBridgeGetRootBridges ==
  /\ PciIsLinkUp /\ Return
  /\ pci' = [pci EXCEPT !.bridges = 1]
  /\ UNCHANGED <<board, gaveUp, polls, cru, phy, pmic, gmac, ahci>>

LinkUpTimeout == NoRootBridge(hostPc = "linkup" /\ ~pci.link /\ polls = MaxPolls)

-----------------------------------------------------------------------------
\* InitializeSataController: the wait for the end of the reset has no bound.
SataReset ==
  /\ Begins("sata", "hr") /\ ahci' = [ahci EXCEPT ![Running.n] = "reset"]
  /\ UNCHANGED <<board, gaveUp, calls, polls, cru, phy, pmic, gmac, pci>>

SataResetEnds ==
  /\ \E n \in 0..2 : ahci[n] = "reset" /\ ahci' = [ahci EXCEPT ![n] = "idle"]
  /\ UNCHANGED <<board, gaveUp, calls, hostPc, polls, cru, phy, pmic, gmac, pci>>

SataEnable ==
  /\ hostPc = "hr" /\ ahci[Running.n] = "idle" /\ Return
  /\ ahci' = [ahci EXCEPT ![Running.n] = "enabled"]
  /\ UNCHANGED <<board, gaveUp, polls, cru, phy, pmic, gmac, pci>>

-----------------------------------------------------------------------------
HostNext ==
  \/ PmicIdentify \/ PmicUnidentified \/ PmicUnidentifiedRelease \/ PmicWrite \/ PmicReturns
  \/ GmacBegin \/ GmacStep \/ GmacReturns \/ BoardInitWiFi
  \/ PhySetsPll \/ PllLocks \/ PllPoll \/ PllGivesUp \/ PllLockSeen \/ PhyClocked \/ PhyMode
  \/ PciPower \/ Pcie30PhyRelease \/ SramInitDone \/ Pcie30PhyPoll \/ Pcie30PhyInitialized
  \/ Pcie30PhyTimeout \/ PciSetupClocks \/ PciSetRcMode \/ PciSetupBars \/ PciSetupAtu
  \/ PciSetupLinkSpeed \/ PciResetLow \/ PciEnableLtssm \/ PciResetHigh \/ LinkTrains
  \/ PciPoll \/ PciHostBridgeGetRootBridges \/ LinkUpTimeout
  \/ SataReset \/ SataResetEnds \/ SataEnable

-----------------------------------------------------------------------------
(***************************************************************************)
(* One PLL serves the three combo PHYs, and each MultiPhySetMode programs  *)
(* it again while the PHYs set up before it run.  Once it is selected and  *)
(* locked, the reference each running PHY was told of (PHY_CLK_SEL) is the *)
(* one it gets, whatever the calls that came after its own.                *)
(***************************************************************************)
ReferenceMatches ==
  \A n \in 0..2 :
    phy[n].mode # "none" /\ PhyReset(n) \notin cru.resets
      /\ (cru.sel[n] = 0 \/ (cru.pll.normal /\ cru.pll.locked))
    => phy[n].clk = PhyReference(cru, n)

\* A combo PHY is out of reset, and its reference is the one it was told of.
\* MultiPhySetMode goes on where the PLL never locked: then nothing is said
\* of the reference, until a later call programs the PLL again.
PhyRuns(n) ==
  /\ phy[n].mode # "none" /\ PhyReset(n) \notin cru.resets
  /\ gaveUp \/ phy[n].clk = PhyReference(cru, n)

\* The DBI is reached only with the controller clocked, out of reset and in
\* RC mode, and its PHY up: an access to it would hang the bus otherwise.
DbiAnswers ==
  pci.bridge \/ pci.atu # {} \/ pci.speed # 0 =>
    /\ pci.rc
    /\ PcieGates(Segment) \subseteq cru.gates
    /\ PowerupReset(Segment) \notin cru.resets
    /\ IF Segment = 0 THEN phy[2].mode = "pcie" /\ PhyRuns(2) ELSE pci.phyReady

\* The link trains as the board wants it, towards windows that are all set,
\* with the device held in reset until then; no bridge without a link.
LinkConfigured ==
  /\ pci.ltssm => /\ pci.atu = 1..Len(Windows) /\ pci.bridge /\ ~pci.roWr
                  /\ pci.speed = board.pcie.speed /\ pci.lanes = board.pcie.lanes
                  /\ pci.perst # "floating"
  /\ pci.perst = "high" => pci.ltssm
  /\ pci.bridges = 1 => pci.link

\* A MAC takes its address configured and out of reset; two have two.
MacsReady ==
  /\ \A n \in board.macs : gmac.address[n] # "none" =>
       n \in gmac.configured /\ GmacReset(n) \notin cru.resets
  /\ gmac.address[0] = gmac.address[1] => gmac.address[0] = "none"

\* A rail is on at the voltage the board sets for it, unless a write failed.
RailsSetFirst ==
  \A r \in pmic.on : pmic.faults = 0 /\ (\E w \in {board.rails[i] : i \in DOMAIN board.rails} :
                                           w.reg = "vsel" /\ r \in w.rails)
                     => pmic.vsel[r] # "default"

\* An AHCI controller is reset and enabled on a PHY that runs.  It may have
\* been set up for USB, where a board asks for both.
AhciReady == \A n \in 0..2 : ahci[n] # "off" => PhyRuns(n)

(* A device is used only once what it depends on is up, in every order the *)
(* boards bring their devices up in: InitializePciHost, BoardInitGmac,     *)
(* BoardInitPmic and InitializeSataController.  The waits for the firmware *)
(* of a PHY and for the link may time out; of a PLL that never locked      *)
(* (gaveUp) only the reference of the PHYs is held apart, and of the PMIC  *)
(* the voltages once a transfer failed.                                    *)
DevicesReady == DbiAnswers /\ LinkConfigured /\ MacsReady /\ RailsSetFirst /\ AhciReady
=============================================================================
