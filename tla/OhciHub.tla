------------------------------ MODULE OhciHub ------------------------------
(***************************************************************************)
(* The root hub and the life of an OHCI controller (Ohci.c): the start of    *)
(* OhciInitialiseController and OhcInitHC, OhciReset, OhciSetState, the port  *)
(* features, OhciGetRootHubPortStatus, and OhcExitBootService.  The registers *)
(* are those of OhciReg.                                                   *)
(*                                                                         *)
(* One call runs at a time and takes as many steps as it gives the controller *)
(* a chance to act: it stalls, polls, or reads a register again.  Between    *)
(* two steps devices come and go and the controller ends what it was told    *)
(* to do.  A poll that lasts for 51 or 100 reads lasts for MaxPolls here.    *)
(*                                                                         *)
(* The client is the USB bus driver: it does not put a controller to work    *)
(* whose start or last reset has failed.                                    *)
(***************************************************************************)
EXTENDS OhciReg

CONSTANTS
  PortCount,  \* the ports of the root hub
  MaxPolls,   \* bound on the polls of a call
  MaxPlugs    \* bound on devices attached or removed

ASSUME HubAssumption ==
  /\ PortCount \in 1 .. 255
  /\ MaxPolls \in Nat \ {0} /\ MaxPlugs \in Nat

Ports == 0 .. PortCount - 1

VARIABLES
  HcControl, HcCommandStatus, HcInterruptStatus, HcFmInterval, HcPeriodicStart,
  HcHCCA,     \* it holds the address of HccaMemoryBlock
  HcRhDescriptor,
  port,       \* HcRhPortStatus
  resuming,   \* ports that leave the suspended state
  pc, op,     \* the step a call is at, and what it is
  at,         \* the port it works on
  polls,      \* RetryTimes, PowerOnGoodTime
  got,        \* the port status it has collected
  failed,     \* the last reset or the start has failed
  exited,     \* OhcExitBootService has returned
  fresh,      \* ports that have ended a reset no call has reported yet
  reported,   \* the last call has reported a reset of a port that is not fresh
  plugs

regs == <<HcControl, HcCommandStatus, HcInterruptStatus, HcFmInterval, HcPeriodicStart,
          HcHCCA, HcRhDescriptor>>
hub == <<port, resuming, fresh>>
call == <<pc, op, at, polls, got, reported>>
life == <<failed, exited>>
vars == <<regs, hub, call, life, plugs>>

NumOfPorts == OhciGetRootHubDescriptor(HcRhDescriptor, "NumDownStrmPorts")
FunctionalState == OhciGetHcControl(HcControl, "FunctionalState")
Operational == FunctionalState = HC_STATE_OPERATIONAL
Read(p, f) == OhciReadRootHubPortStatus(port[p], f)
Write(p, Field) ==
  [port EXCEPT ![p] =
     PortWritten(@, OhciSetRootHubPortStatus(Field),
                 OhciGetRootHubDescriptor(HcRhDescriptor, "NoPowerSwitch") = 1)]

\* The ports with some bits of one of them changed.
Changed(p, bits) ==
  [port EXCEPT ![p] = [f \in HcRHPORT_STATUS |-> IF f \in DOMAIN bits THEN bits[f] ELSE @[f]]]

NoCall == [name |-> "none", feature |-> "none", attributes |-> {}]

Init ==
  /\ HcControl = Zero(HcCONTROL) /\ HcCommandStatus = Zero(HcCOMMAND_STATUS)
  /\ HcInterruptStatus = Zero(HcINTERRUPT_STATUS)
  /\ HcFmInterval = Zero(HcFRM_INTERVAL) /\ HcPeriodicStart = 0
  /\ HcHCCA = FALSE
  /\ HcRhDescriptor =
       [A |-> [Zero(HcRH_DESC_A) EXCEPT !.NumDownStrmPorts = PortCount],
        B |-> Zero(HcRH_DESC_B)]
  /\ port = [p \in Ports |-> Zero(HcRHPORT_STATUS)]
  /\ resuming = {} /\ fresh = {}
  /\ pc = "start" /\ op = NoCall
  /\ at = 0 /\ polls = 0 /\ got = {} /\ reported = FALSE
  /\ failed = FALSE /\ exited = FALSE /\ plugs = 0

Go(next) ==
  /\ pc' = next /\ polls' = 0
  /\ IF next = "idle"
     THEN op' = NoCall /\ at' = 0 /\ got' = {}
     ELSE UNCHANGED <<op, at, got>>

-----------------------------------------------------------------------------
(* The features: what is written to the port, and what is waited for         *)
SetCommand(f) ==
  CASE f = "Power" -> "RH_SET_PORT_POWER"
    [] f = "Reset" -> "RH_SET_PORT_RESET"
    [] f = "Enable" -> "RH_SET_PORT_ENABLE"
    [] f = "Suspend" -> "RH_SET_PORT_SUSPEND"

SetVerified(p, f) ==
  CASE f = "Power" -> Read(p, "PowerStat") # 0
    [] f = "Reset" -> Read(p, "ResetStatChange") # 0 /\ Read(p, "ResetStat") # 1
    [] f = "Enable" -> Read(p, "EnableStat") # 0
    [] f = "Suspend" -> Read(p, "SuspendStat") # 0

ClearCommand(f) ==
  CASE f = "Enable" -> "RH_CLEAR_PORT_ENABLE"
    [] f = "Suspend" -> "RH_CLEAR_SUSPEND_STATUS"
    [] f = "Power" -> "RH_CLEAR_PORT_POWER"
    [] f = "ConnectChange" -> "RH_CONNECT_STATUS_CHANGE"
    [] f = "ResetChange" -> "RH_PORT_RESET_STAT_CHANGE"
    [] f = "EnableChange" -> "RH_PORT_ENABLE_STAT_CHANGE"
    [] f = "SuspendChange" -> "RH_PORT_SUSPEND_STAT_CHANGE"

ClearVerified(p, f) ==
  LET bit == CASE f = "Enable" -> "EnableStat"
               [] f = "Suspend" -> "SuspendStat"
               [] f = "Power" -> "PowerStat"
               [] OTHER -> PortBit(ClearCommand(f))
  IN  Read(p, bit) # 1

Verified == IF op.name = "clear" THEN ClearVerified(at, op.feature)
                                 ELSE SetVerified(at, op.feature)

SetRootHubPortFeature(p, f) ==
  /\ pc = "idle" /\ ~ exited
  /\ port' = Write(p, SetCommand(f))
  /\ pc' = "poll" /\ polls' = 0 /\ at' = p
  /\ op' = [name |-> "set", feature |-> f, attributes |-> {}]
  /\ UNCHANGED <<regs, resuming, fresh, got, reported, life, plugs>>

\* Clearing the reset does nothing at all.
ClearRootHubPortFeature(p, f) ==
  /\ pc = "idle" /\ ~ exited
  /\ port' = Write(p, ClearCommand(f))
  /\ resuming' = IF f = "Suspend" /\ Read(p, "SuspendStat") = 1
                 THEN resuming \cup {p} ELSE resuming
  /\ pc' = "poll" /\ polls' = 0 /\ at' = p
  /\ op' = [name |-> "clear", feature |-> f, attributes |-> {}]
  /\ UNCHANGED <<regs, fresh, got, reported, life, plugs>>

\* A poll that comes to the limit is a failure, whatever it reads.
\* mutant: RetryTimes stays what it is
NotCounted == polls
Counted == polls + 1
PollFails == Counted >= MaxPolls
PollEnds == PollFails \/ Verified
ResetSeen == op.feature = "Reset" /\ op.name # "clear" /\ Verified /\ ~ PollFails

\* mutant: the change bit of a reset stays set
KeepsResetChange == port' = port
ClearsResetChange == port' = Write(at, "RH_PORT_RESET_STAT_CHANGE")

PollAgain ==
  /\ pc = "poll" /\ ~ PollEnds
  /\ polls' = Counted
  /\ UNCHANGED <<regs, hub, pc, op, at, got, reported, life, plugs>>

(* The call, or the call made by the initialisation, ends.  There a port     *)
(* that was reset is enabled, and the next port follows.                    *)
\* mutant: the controller goes to work with the pointers of before
AfterPollNoPointers ==
  IF op.name \in {"set", "clear"} THEN "idle"
  ELSE IF ResetSeen THEN "enable"
  ELSE IF at + 1 < NumOfPorts THEN "ports" ELSE "operate"
AfterPoll ==
  IF op.name \in {"set", "clear"} THEN "idle"
  ELSE IF ResetSeen THEN "enable"
  ELSE IF at + 1 < NumOfPorts THEN "ports" ELSE "pointers"

PollDone ==
  /\ pc = "poll" /\ PollEnds
  /\ IF AfterPoll = "ports"
     THEN pc' = "ports" /\ at' = at + 1 /\ polls' = 0 /\ UNCHANGED <<op, got>>
     ELSE Go(AfterPoll)
  /\ IF ResetSeen
     THEN /\ ClearsResetChange
          /\ reported' = (at \notin fresh) /\ fresh' = fresh \ {at}
     ELSE UNCHANGED <<port, fresh, reported>>
  /\ UNCHANGED <<regs, resuming, life, plugs>>

-----------------------------------------------------------------------------
(* OhcInitHC, and OhciReset, which is OhcInitHC without the reset of the host  *)
(* controller or of the bus if it is not asked for; OhcExitBootService is a   *)
(* reset of the bus with the lists off before it and a halt after it.        *)
Enables == {"PeriodicEnable", "ControlEnable", "BulkEnable"}

Asked(a) == a \in op.attributes

ResetHost ==
  HcCommandStatus' =
    CommandWritten(HcCommandStatus, OhciSetHcCommandStatus({"HcReset"}, 1))

Begin(name, attributes) ==
  /\ op' = [name |-> name, feature |-> "none", attributes |-> attributes]
  /\ IF "host" \in attributes THEN pc' = "hostReset" /\ ResetHost
     ELSE pc' = "lists" /\ UNCHANGED HcCommandStatus
  /\ polls' = 0
  /\ UNCHANGED <<HcInterruptStatus, HcFmInterval, HcPeriodicStart, HcHCCA, HcRhDescriptor,
                 hub, at, got, reported, exited, plugs>>

OhcInitHC ==
  pc = "start" /\ Begin("init", {"host", "global"}) /\ UNCHANGED <<HcControl, failed>>

OhciReset(attributes) ==
  /\ pc = "idle" /\ ~ exited
  /\ Begin("reset", attributes)
  /\ failed' = FALSE
  /\ UNCHANGED HcControl

OhcExitBootService ==
  /\ pc = "idle" /\ ~ exited
  /\ HcControl' = OhciSetHcControl(HcControl, Enables \cup {"IsochronousEnable"}, 0)
  /\ Begin("exit", {"global"})
  /\ UNCHANGED failed

(* 51 polls, the last one of which still counts                             *)
WaitForReset ==
  /\ pc = "hostReset"
  /\ CASE HcCommandStatus.HcReset = 0 -> Go("lists") /\ UNCHANGED failed
       [] HcCommandStatus.HcReset = 1 /\ polls < MaxPolls ->
            polls' = polls + 1 /\ UNCHANGED <<pc, op, at, got, failed>>
       [] OTHER -> Go(IF op.name = "init" THEN "gone" ELSE "idle") /\ failed' = TRUE
  /\ UNCHANGED <<regs, hub, reported, exited, plugs>>

\* The controller in its reset state holds the bus in reset.
BusReset ==
  [p \in Ports |-> [port[p] EXCEPT !.EnableStat = 0, !.SuspendStat = 0, !.ResetStat = 0]]

Lists ==
  /\ pc = "lists"
  /\ HcFmInterval' = OhciSetFrameInterval(HcFmInterval, {"FrameInterval"}, 11999)
  /\ IF Asked("global")
     THEN /\ HcControl' = OhciSetHcControl(HcControl, {"FunctionalState"}, HC_STATE_RESET)
          /\ port' = BusReset /\ resuming' = {}
     ELSE UNCHANGED <<HcControl, port, resuming>>
  /\ Go("registers")
  /\ UNCHANGED <<HcCommandStatus, HcInterruptStatus, HcPeriodicStart, HcHCCA,
                 HcRhDescriptor, fresh, life, reported, plugs>>

\* The ports of a hub without power switches have power; the others have not,
\* but for port 0.
Registers ==
  /\ pc = "registers"
  /\ HcFmInterval' =
       OhciSetFrameInterval(
         OhciSetFrameInterval(HcFmInterval, {"FSMaxDataPacket"}, 10104),
         {"FrameInterval"}, 11999)
  /\ HcPeriodicStart' = 10799
  /\ HcControl' = OhciSetHcControl(HcControl, {"ControlBulkRatio"}, 3)
  /\ HcCommandStatus' =
       CommandWritten(HcCommandStatus,
         OhciSetHcCommandStatus({"ControlListFilled", "BulkListFilled"}, 0))
  /\ LET switches == OhciSetRootHubDescriptor(
           OhciSetRootHubDescriptor(HcRhDescriptor, {"PowerSwitchMode"}, 0),
           {"NoPowerSwitch", "NoOverCurrentProtMode"}, 1)
     IN HcRhDescriptor' = OhciSetRootHubDescriptor(
           OhciSetRootHubDescriptor(switches, {"DeviceRemovable"}, 0),
           {"PortPowerControlMask"}, 65535)
  /\ port' = [p \in Ports |-> [port[p] EXCEPT !.PowerStat = 1]]
  /\ at' = 0 /\ pc' = "ports"
  /\ UNCHANGED <<HcInterruptStatus, HcHCCA, resuming, fresh, op, polls, got,
                 reported, life, plugs>>

ResetPort ==
  /\ pc = "ports"
  /\ port' = Write(at, "RH_SET_PORT_RESET")
  /\ op' = [op EXCEPT !.feature = "Reset"]
  /\ pc' = "poll" /\ polls' = 0
  /\ UNCHANGED <<regs, resuming, fresh, at, got, reported, life, plugs>>

EnablePort ==
  /\ pc = "enable"
  /\ port' = Write(at, "RH_SET_PORT_ENABLE")
  /\ op' = [op EXCEPT !.feature = "Enable"]
  /\ pc' = "poll" /\ polls' = 0
  /\ UNCHANGED <<regs, resuming, fresh, at, got, reported, life, plugs>>

Pointers ==
  /\ pc = "pointers"
  /\ HcHCCA' = TRUE
  /\ Go("operate")
  /\ UNCHANGED <<HcControl, HcCommandStatus, HcInterruptStatus, HcFmInterval,
                 HcPeriodicStart, HcRhDescriptor, hub, life, reported, plugs>>

Operate ==
  /\ pc = "operate"
  /\ HcControl' =
       OhciSetHcControl(OhciSetHcControl(HcControl, Enables, 1),
                        {"FunctionalState"}, HC_STATE_OPERATIONAL)
  /\ Go("sof")
  /\ UNCHANGED <<HcCommandStatus, HcInterruptStatus, HcFmInterval, HcPeriodicStart,
                 HcHCCA, HcRhDescriptor, hub, life, reported, plugs>>

WaitForSof ==
  /\ pc = "sof"
  /\ OhciGetHcInterruptStatus(HcInterruptStatus, "Sof") # 0
  /\ HcInterruptStatus' =
       StatusWritten(HcInterruptStatus, OhciClearInterruptStatus({"Sof"}))
  /\ Go(IF op.name = "exit" THEN "halt" ELSE "idle")
  /\ UNCHANGED <<HcControl, HcCommandStatus, HcFmInterval, HcPeriodicStart, HcHCCA,
                 HcRhDescriptor, hub, life, reported, plugs>>

StateValue(State) ==
  CASE State = "Halt" -> HC_STATE_RESET
    [] State = "Operational" -> HC_STATE_OPERATIONAL
    [] State = "Suspend" -> HC_STATE_SUSPEND

\* mutant: the halt comes before the reset
HaltedTooEarly == HcControl
HaltedControl == OhciSetHcControl(HcControl, {"FunctionalState"}, StateValue("Halt"))

\* The end of OhcExitBootService
Halt ==
  /\ pc = "halt"
  /\ HcControl' = HaltedControl
  /\ port' = BusReset /\ resuming' = {}
  /\ exited' = TRUE
  /\ Go("idle")
  /\ UNCHANGED <<HcCommandStatus, HcInterruptStatus, HcFmInterval, HcPeriodicStart,
                 HcHCCA, HcRhDescriptor, fresh, failed, reported, plugs>>

OhciSetState(State) ==
  /\ pc = "idle" /\ ~ exited /\ (State = "Halt" \/ ~ failed)
  /\ HcControl' = OhciSetHcControl(HcControl, {"FunctionalState"}, StateValue(State))
  /\ IF State = "Halt" THEN port' = BusReset /\ resuming' = {} ELSE UNCHANGED <<port, resuming>>
  /\ UNCHANGED <<HcCommandStatus, HcInterruptStatus, HcFmInterval, HcPeriodicStart,
                 HcHCCA, HcRhDescriptor, fresh, call, life, plugs>>

-----------------------------------------------------------------------------
(* OhciGetRootHubPortStatus reads the register once for every bit.           *)
StatusOrder ==
  <<"CurrentConnectStat", "EnableStat", "SuspendStat", "OCIndicator", "ResetStat",
    "PowerStat", "LsDeviceAttached", "EnableStatChange", "ConnectStatChange",
    "SuspendStatChange", "OCIndicatorChange", "ResetStatChange">>
Bits == DOMAIN StatusOrder

GetRootHubPortStatus(p) ==
  /\ pc = "idle" /\ ~ exited
  /\ pc' = "status" /\ at' = p /\ polls' = 0 /\ got' = {}
  /\ op' = [name |-> "status", feature |-> "none", attributes |-> {}]
  /\ UNCHANGED <<regs, hub, reported, life, plugs>>

ReadStatusBit ==
  /\ pc = "status" /\ polls + 1 \in Bits
  /\ polls' = polls + 1
  /\ got' = got \cup {bit \in {StatusOrder[polls + 1]} : Read(at, bit) # 0}
  /\ UNCHANGED <<regs, hub, pc, op, at, reported, life, plugs>>

StatusDone ==
  /\ pc = "status" /\ polls + 1 \notin Bits
  /\ Go("idle")
  /\ UNCHANGED <<regs, hub, reported, life, plugs>>

-----------------------------------------------------------------------------
(* The controller and the devices.  The controller ends its reset in time or  *)
(* never, and is then suspended with the registers of its host part cleared.  *)
HostResetEnds ==
  /\ pc = "hostReset" /\ HcCommandStatus.HcReset = 1
  /\ HcCommandStatus' = Zero(HcCOMMAND_STATUS)
  /\ HcControl' = [Zero(HcCONTROL) EXCEPT !.FunctionalState = HC_STATE_SUSPEND]
  /\ HcInterruptStatus' = Zero(HcINTERRUPT_STATUS)
  /\ HcFmInterval' = Zero(HcFRM_INTERVAL) /\ HcPeriodicStart' = 0
  /\ HcHCCA' = FALSE
  /\ UNCHANGED <<HcRhDescriptor, hub, call, life, plugs>>

StartOfFrame ==
  /\ Operational /\ HcInterruptStatus.Sof = 0
  /\ HcInterruptStatus' = [HcInterruptStatus EXCEPT !.Sof = 1]
  /\ UNCHANGED <<HcControl, HcCommandStatus, HcFmInterval, HcPeriodicStart, HcHCCA,
                 HcRhDescriptor, hub, call, life, plugs>>

PortResetEnds(p) ==
  /\ port[p].ResetStat = 1
  /\ port' = Changed(p, [ResetStat |-> 0, ResetStatChange |-> 1,
       EnableStat |-> IF port[p].CurrentConnectStat = 1 THEN 1 ELSE port[p].EnableStat])
  /\ fresh' = fresh \cup {p}
  /\ UNCHANGED <<regs, resuming, call, life, plugs>>

ResumeEnds(p) ==
  /\ p \in resuming
  /\ resuming' = resuming \ {p}
  /\ port' = Changed(p, [SuspendStat |-> 0, SuspendStatChange |-> 1])
  /\ UNCHANGED <<regs, fresh, call, life, plugs>>

Plug(p) ==
  /\ plugs < MaxPlugs /\ port[p].CurrentConnectStat = 0
  /\ plugs' = plugs + 1
  /\ port' = Changed(p, [CurrentConnectStat |-> 1, ConnectStatChange |-> 1])
  /\ UNCHANGED <<regs, resuming, fresh, call, life>>

Unplug(p) ==
  /\ plugs < MaxPlugs /\ port[p].CurrentConnectStat = 1
  /\ plugs' = plugs + 1
  /\ port' = Changed(p, [CurrentConnectStat |-> 0, ConnectStatChange |-> 1, SuspendStat |-> 0,
       EnableStat |-> 0,
       EnableStatChange |-> IF port[p].EnableStat = 1 THEN 1 ELSE port[p].EnableStatChange])
  /\ resuming' = resuming \ {p}
  /\ UNCHANGED <<regs, fresh, call, life>>

-----------------------------------------------------------------------------
SetFeatures == {"Power", "Reset", "Enable", "Suspend"}
ClearFeatures ==
  {"Enable", "Suspend", "Power", "ConnectChange", "ResetChange", "EnableChange",
   "SuspendChange"}

Client ==
  \/ \E p \in Ports, f \in SetFeatures : SetRootHubPortFeature(p, f)
  \/ \E p \in Ports, f \in ClearFeatures : ClearRootHubPortFeature(p, f)
  \/ \E p \in Ports : GetRootHubPortStatus(p)
  \/ \E attributes \in SUBSET {"host", "global"} : OhciReset(attributes)
  \/ \E State \in {"Halt", "Operational", "Suspend"} : OhciSetState(State)
  \/ OhcExitBootService

Call ==
  \/ OhcInitHC \/ WaitForReset \/ Lists \/ Registers \/ ResetPort \/ EnablePort
  \/ PollAgain \/ PollDone \/ Pointers \/ Operate \/ WaitForSof \/ Halt
  \/ ReadStatusBit \/ StatusDone

Controller ==
  \/ HostResetEnds \/ StartOfFrame
  \/ \E p \in Ports : PortResetEnds(p) \/ ResumeEnds(p) \/ Plug(p) \/ Unplug(p)

Next == Client \/ Call \/ Controller

Spec == Init /\ [][Next]_vars

\* A call goes on, and a controller at work starts a frame every millisecond.
FairSpec == Spec /\ WF_vars(Call) /\ WF_vars(StartOfFrame)

-----------------------------------------------------------------------------
(* A controller that works has its communication area and its frame timing:   *)
(* whatever resets, suspends and fails before, it never writes the frame      *)
(* number through the address that a reset has left (OhcInitHC, OhciReset).   *)
WorksPrepared ==
  Operational =>
    /\ HcHCCA
    /\ HcPeriodicStart = 10799
    /\ HcFmInterval.FrameInterval = 11999 /\ HcFmInterval.FSMaxDataPacket = 10104

(* The success of a port reset is reported for a reset that has ended and has  *)
(* not been reported before: the change bit that OhciSetRootHubPortFeature     *)
(* waits for is not one that an earlier call has left.                       *)
ResetReportedOnce == ~ reported

(* Once OhcExitBootService has returned the controller stays in reset, though  *)
(* the reset it asks for has put it to work.                                *)
QuietAfterExit == exited => FunctionalState = HC_STATE_RESET

(* Every call returns: the polls are bounded, and the wait for a frame, which  *)
(* is not, comes after the controller has been put to work.                  *)
CallsReturn == pc \notin {"idle", "gone"} ~> pc \in {"idle", "gone"}
=============================================================================
