------------------------------ MODULE CpuClock -------------------------------
(***************************************************************************)
(* The user's CPU clock (ConfigDxe) and the voltage it needs               *)
(* (CpuVoltageLib).  ConfigInitialize creates the variables it does not    *)
(* find, sets the clock, and installs the setup pages; on a faster clock   *)
(* the voltage goes up first, on a slower one it comes down after.         *)
(*                                                                         *)
(* The clock itself is the SCMI service of the secure firmware: a set of   *)
(* rates, of which it takes the highest that is not above the one asked    *)
(* for.  Frequencies are in MHz, voltages in microvolts.                   *)
(***************************************************************************)
EXTENDS Integers, Sequences, FiniteSetsExt, I2c

CONSTANTS
  Rates,        \* what the SCMI clock can be set to
  Customs,      \* the custom clocks: of the setup page, or set by an OS
  Regulators    \* [base, step] of the regulators the boards have

ASSUME RatesAssumption ==
  /\ Rates \subseteq Nat /\ IsFiniteSet(Rates) /\ Rates # {} /\ Customs \subseteq Nat
  /\ Regulators \subseteq [base : Nat, step : Nat \ {0}]

VARIABLES
  setup,      \* the variables set, and whether the pages are installed
  cpu,        \* [mhz, reg, vsel], the clock and the regulator's register
  setting     \* ApplyVariables: [pc, speed, cur, old, failed]

cpuVars == <<setup, cpu, setting>>

-----------------------------------------------------------------------------
Opps == << <<1200, 825000>>, <<1416, 900000>>, <<1608, 975000>>,
           <<1800, 1050000>>, <<1992, 1150000>> >>

Unsupported == 0
CpuVoltageHzToUVol(mhz) ==
  LET fit == {i \in DOMAIN Opps : mhz <= Opps[i][1]} IN
  IF fit = {} THEN Unsupported ELSE Opps[Min(fit)][2]

\* The register: a selector of six bits and two bits above it.
VSEL_NSEL_MASK == 63
Selector(reg, uvol) == (uvol - reg.base) \div reg.step
UVol(reg, vsel) == vsel.nsel * reg.step + reg.base

\* PcdCpuVoltageUVolBase and PcdCpuVoltageUVolStep of every board are such
\* that the regulator has each voltage of the table.
ASSUME RegulatorAssumption ==
  \A reg \in Regulators, i \in DOMAIN Opps :
    reg.base <= Opps[i][2] /\ (Opps[i][2] - reg.base) % reg.step = 0

\* OldValue without its selector, or-ed with the new one.
WithSelector(old, selector) ==
  [high |-> old.high \cup (IF selector > VSEL_NSEL_MASK THEN {6} ELSE {}),
   nsel |-> selector % (VSEL_NSEL_MASK + 1)]

-----------------------------------------------------------------------------
VariableNames == {"SystemTableMode", "CpuClock", "CustomCpuClock"}

\* The board boots on a rate the regulator's setting is enough for.
CpuInit ==
  /\ setup \in [created : SUBSET VariableNames, pages : {FALSE}]
  /\ \E reg \in Regulators, mhz \in Rates, i \in DOMAIN Opps, high \in {{}, {7}} :
       /\ CpuVoltageHzToUVol(mhz) \in 1..Opps[i][2]
       /\ Selector(reg, Opps[i][2]) <= VSEL_NSEL_MASK
       /\ cpu = [mhz |-> mhz, reg |-> reg,
                 vsel |-> [high |-> high, nsel |-> Selector(reg, Opps[i][2])]]
  /\ setting = [pc |-> "setup", speed |-> 0, cur |-> 0, old |-> cpu.vsel, failed |-> FALSE]

CpuGoto(from, to) == setting.pc = from /\ setting' = [setting EXCEPT !.pc = to]

\* ASSERT_EFI_ERROR: a DEBUG build ends here, a RELEASE build goes on.
Fault(from, to) ==
  /\ setting.pc = from
  /\ \E stop \in {"stopped", to} : setting' = [setting EXCEPT !.pc = stop, !.failed = TRUE]
  /\ UNCHANGED <<setup, cpu>>

SetupVariables ==
  /\ CpuGoto("setup", "choose")
  /\ setup' = [setup EXCEPT !.created = VariableNames] /\ UNCHANGED cpu

GetMinMaxCpuSpeed(low) == IF low THEN Min(Rates) ELSE Max(Rates)

\* CPUCLOCK_DEFAULT, or LOW or MAX whose rates cannot be had, is no speed.
Speeds == {0, GetMinMaxCpuSpeed(TRUE), GetMinMaxCpuSpeed(FALSE)} \cup Customs

ApplyVariables ==
  /\ setting.pc = "choose"
  /\ \E speed \in Speeds : setting' = [setting EXCEPT !.pc = "get", !.speed = speed]
  /\ UNCHANGED <<setup, cpu>>

\* mutant: the voltage comes down before the clock does
VoltageFirst ==
  /\ setting.pc = "get"
  /\ setting' = [setting EXCEPT !.cur = cpu.mhz, !.pc = IF setting.speed = 0 THEN "pages" ELSE "raise"]
  /\ UNCHANGED <<setup, cpu>>

GetCpuSpeed ==
  /\ setting.pc = "get"
  /\ setting' = [setting EXCEPT !.cur = cpu.mhz,
                   !.pc = IF setting.speed = 0 THEN "pages"
                          ELSE IF cpu.mhz < setting.speed THEN "raise" ELSE "speed"]
  /\ UNCHANGED <<setup, cpu>>

GetCpuSpeedFails == Fault("get", "pages")

-----------------------------------------------------------------------------
(***************************************************************************)
(* CpuVoltageSet, before the clock ("raise") and after it ("lower").  Its  *)
(* status is not looked at, nor that of the write in it.                   *)
(***************************************************************************)
VoltagePcs == {"raise", "lower"}
AfterVoltage(pc) == IF pc = "raise" THEN "speed" ELSE "pages"
Writing(pc) == IF pc = "raise" THEN "raising" ELSE "lowering"
Needed == CpuVoltageHzToUVol(setting.speed)

CpuVoltageUnsupported ==
  /\ setting.pc \in VoltagePcs /\ Needed = Unsupported
  /\ CpuGoto(setting.pc, AfterVoltage(setting.pc))
  /\ UNCHANGED <<setup, cpu>>

\* CpuVoltageReadReg: what a failed read leaves in OldValue is anything.
CpuVoltageRead ==
  /\ setting.pc \in VoltagePcs /\ Needed # Unsupported
  /\ LET next(old) == IF UVol(cpu.reg, old) = Needed THEN AfterVoltage(setting.pc)
                      ELSE Writing(setting.pc) IN
     \E t \in I2cRead :
       \/ /\ I2cOk(t)
          /\ setting' = [setting EXCEPT !.old = cpu.vsel, !.pc = next(cpu.vsel)]
       \/ /\ ~I2cOk(t)
          /\ \/ setting' = [setting EXCEPT !.failed = TRUE, !.pc = "stopped"]
             \/ \E old \in {cpu.vsel, [high |-> {6, 7}, nsel |-> 63], [high |-> {}, nsel |-> 0]} :
                  setting' = [setting EXCEPT !.failed = TRUE, !.old = old, !.pc = next(old)]
  /\ UNCHANGED <<setup, cpu>>

CpuVoltageWrite ==
  \E pc \in VoltagePcs, t \in I2cWrite :
    /\ setting.pc = Writing(pc)
    /\ setting' = [setting EXCEPT !.pc = AfterVoltage(pc), !.failed = @ \/ ~I2cOk(t)]
    /\ cpu' = IF t.written
              THEN [cpu EXCEPT !.vsel = WithSelector(setting.old, Selector(cpu.reg, Needed))]
              ELSE cpu
    /\ UNCHANGED setup

-----------------------------------------------------------------------------
\* RateSet: nothing to take below the lowest rate.
RatesUpTo(mhz) == {r \in Rates : r <= mhz}
AfterSpeed == IF setting.cur > setting.speed THEN "lower" ELSE "pages"

SetCpuSpeed ==
  /\ RatesUpTo(setting.speed) # {}
  /\ CpuGoto("speed", AfterSpeed)
  /\ cpu' = [cpu EXCEPT !.mhz = Max(RatesUpTo(setting.speed))]
  /\ UNCHANGED setup

SetCpuSpeedFails == Fault("speed", AfterSpeed)

\* InstallHiiPages, or nothing of it.
InstallHiiPages ==
  /\ CpuGoto("pages", "done")
  /\ \E installed \in BOOLEAN : setup' = [setup EXCEPT !.pages = installed]
  /\ UNCHANGED cpu

CpuNext ==
  \/ SetupVariables \/ ApplyVariables \/ GetCpuSpeed \/ GetCpuSpeedFails
  \/ CpuVoltageUnsupported \/ CpuVoltageRead \/ CpuVoltageWrite
  \/ SetCpuSpeed \/ SetCpuSpeedFails \/ InstallHiiPages

CpuSpec == CpuInit /\ [][CpuNext]_cpuVars

-----------------------------------------------------------------------------
(* The voltage is enough for the clock at every step of a change of both,  *)
(* up or down, unless a call has failed (no status is looked at on the     *)
(* way), no voltage is known for the speed, or its selector has more than  *)
(* the six bits kept for it.                                               *)
VoltageSuffices ==
  LET needed == CpuVoltageHzToUVol(setting.speed) IN
  ~setting.failed /\ needed # Unsupported /\ Selector(cpu.reg, needed) <= VSEL_NSEL_MASK
    => UVol(cpu.reg, cpu.vsel) >= CpuVoltageHzToUVol(cpu.mhz)
=============================================================================
