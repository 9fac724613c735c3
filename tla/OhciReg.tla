------------------------------ MODULE OhciReg ------------------------------
(***************************************************************************)
(* The register accessors of OhciDxe (OhciReg.c, OhciReg.h).  A register is  *)
(* a function from the names of its bit fields to numbers.  There are two    *)
(* families of setters: those that read the register and change the fields   *)
(* asked for, and those that write a word in which every other field is 0,   *)
(* for the registers where the controller ignores a 0.  What the controller  *)
(* makes of a word written is at the end.                                  *)
(***************************************************************************)
EXTENDS Naturals

\* the functional states of HcControl
HC_STATE_RESET == 0
HC_STATE_OPERATIONAL == 2
HC_STATE_SUSPEND == 3

HcCONTROL ==
  {"ControlBulkRatio", "PeriodicEnable", "IsochronousEnable", "ControlEnable",
   "BulkEnable", "FunctionalState", "InterruptRouting"}
HcCOMMAND_STATUS ==
  {"HcReset", "ControlListFilled", "BulkListFilled", "ChangeOwnerRequest",
   "ScheduleOverrunCount"}
HcINTERRUPT_STATUS ==
  {"SchedulingOverrun", "WriteBackDone", "Sof", "ResumeDetected",
   "UnrecoverableError", "FrameNumOverflow", "RHStatusChange", "OwnerChange"}
HcFRM_INTERVAL == {"FrameInterval", "FSMaxDataPacket", "FrmIntervalToggle"}
HcRH_DESC_A ==
  {"NumDownStrmPorts", "PowerSwitchMode", "NoPowerSwitch", "DeviceType",
   "OverCurrentProtMode", "NoOverCurrentProtMode", "PowerOnToPowerGoodTime"}
HcRH_DESC_B == {"DeviceRemovable", "PortPowerControlMask"}
HcRH_STATUS ==
  {"LocalPowerStat", "OverCurrentIndicator", "DevRemoteWakeupEnable",
   "LocalPowerStatChange", "OverCurrentIndicatorChange", "ClearRemoteWakeupEnable"}
HcRHPORT_STATUS ==
  {"CurrentConnectStat", "EnableStat", "SuspendStat", "OCIndicator", "ResetStat",
   "PowerStat", "LsDeviceAttached", "ConnectStatChange", "EnableStatChange",
   "SuspendStatChange", "OCIndicatorChange", "ResetStatChange"}

\* the bits of a field
Width(f) ==
  CASE f \in {"ControlBulkRatio", "FunctionalState", "ScheduleOverrunCount"} -> 2
    [] f \in {"NumDownStrmPorts", "PowerOnToPowerGoodTime"} -> 8
    [] f = "FrameInterval" -> 14
    [] f = "FSMaxDataPacket" -> 15
    [] f \in HcRH_DESC_B -> 16
    [] OTHER -> 1

Zero(Fields) == [f \in Fields |-> 0]

\* reg with Value, cut to their width, in the fields of Field
Assign(reg, Field, Value) ==
  [f \in DOMAIN reg |-> IF f \in Field THEN Value % 2 ^ Width(f) ELSE reg[f]]

-----------------------------------------------------------------------------
(* Read, change, write                                                     *)
OhciSetHcControl(reg, Field, Value) == Assign(reg, Field, Value)

\* A new interval comes with the other value of the toggle.
OhciSetFrameInterval(reg, Field, Value) ==
  LET toggled == IF "FrameInterval" \in Field
                 THEN [reg EXCEPT !.FrmIntervalToggle = 1 - @] ELSE reg
  IN  Assign(toggled, Field, Value)

\* Descriptor B if one of its fields is asked for, and then only B.
OhciSetRootHubDescriptor(rh, Field, Value) ==
  IF Field \cap HcRH_DESC_B # {}
  THEN [rh EXCEPT !.B = Assign(@, Field, Value)]
  ELSE [rh EXCEPT !.A = Assign(@, Field, Value)]

(* Write the fields alone                                                   *)
OhciSetHcCommandStatus(Field, Value) == Assign(Zero(HcCOMMAND_STATUS), Field, Value)
OhciClearInterruptStatus(Field) == Assign(Zero(HcINTERRUPT_STATUS), Field, 1)
OhciSetRootHubStatus(Field) == Assign(Zero(HcRH_STATUS), Field, 1)

\* The commands of a port are written to the bits that read as its status.
PortBit(Field) ==
  CASE Field = "RH_CLEAR_PORT_ENABLE" -> "CurrentConnectStat"
    [] Field = "RH_SET_PORT_ENABLE" -> "EnableStat"
    [] Field = "RH_SET_PORT_SUSPEND" -> "SuspendStat"
    [] Field = "RH_CLEAR_SUSPEND_STATUS" -> "OCIndicator"
    [] Field = "RH_SET_PORT_RESET" -> "ResetStat"
    [] Field = "RH_SET_PORT_POWER" -> "PowerStat"
    [] Field = "RH_CLEAR_PORT_POWER" -> "LsDeviceAttached"
    [] Field = "RH_CONNECT_STATUS_CHANGE" -> "ConnectStatChange"
    [] Field = "RH_PORT_ENABLE_STAT_CHANGE" -> "EnableStatChange"
    [] Field = "RH_PORT_SUSPEND_STAT_CHANGE" -> "SuspendStatChange"
    [] Field = "RH_OC_INDICATOR_CHANGE" -> "OCIndicatorChange"
    [] Field = "RH_PORT_RESET_STAT_CHANGE" -> "ResetStatChange"

OhciSetRootHubPortStatus(Field) == Assign(Zero(HcRHPORT_STATUS), {PortBit(Field)}, 1)

(* A getter takes one field of the register; that of the root hub            *)
(* descriptor takes it from A or B.                                         *)
OhciGetHcControl(reg, Field) == reg[Field]
OhciGetHcCommandStatus(reg, Field) == reg[Field]
OhciGetHcInterruptStatus(reg, Field) == reg[Field]
OhciGetRootHubDescriptor(rh, Field) ==
  IF Field \in HcRH_DESC_B THEN rh.B[Field] ELSE rh.A[Field]
OhciReadRootHubPortStatus(reg, Field) == reg[Field]

-----------------------------------------------------------------------------
(* The controller: the bits of a command written as 1 are set, the status    *)
(* bits written as 1 are cleared.                                           *)
CommandWritten(reg, word) == [f \in DOMAIN reg |-> IF word[f] = 1 THEN 1 ELSE reg[f]]
StatusWritten(reg, word) == [f \in DOMAIN reg |-> IF word[f] = 1 THEN 0 ELSE reg[f]]

ChangeBits ==
  {"ConnectStatChange", "EnableStatChange", "SuspendStatChange", "OCIndicatorChange",
   "ResetStatChange"}

(* A port: enable, suspend and reset need a device, and report a change of    *)
(* the connection if there is none.  With NoPowerSwitch the power stays.     *)
PortWritten(port, word, noSwitch) ==
  LET Wrote(f) == word[f] = 1
      command == \E f \in {"EnableStat", "SuspendStat", "ResetStat"} : Wrote(f)
      present == port.CurrentConnectStat = 1
  IN [f \in DOMAIN port |->
       CASE f \in ChangeBits /\ Wrote(f) -> 0
         [] f = "ConnectStatChange" /\ command /\ ~ present -> 1
         [] f \in {"EnableStat", "SuspendStat", "ResetStat"} /\ Wrote(f) /\ present -> 1
         [] f = "EnableStat" /\ Wrote("CurrentConnectStat") -> 0
         [] f = "PowerStat" /\ Wrote(f) -> 1
         [] f = "PowerStat" /\ Wrote("LsDeviceAttached") /\ ~ noSwitch -> 0
         [] OTHER -> port[f]]
=============================================================================
