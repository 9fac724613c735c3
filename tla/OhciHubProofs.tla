---------------------------- MODULE OhciHubProofs ----------------------------
(***************************************************************************)
(* Proofs about the root hub and the life of an OHCI controller, for any   *)
(* number of ports, polls and plugged devices.                             *)
(*                                                                         *)
(* Three invariants, each on top of the types: that nothing runs after     *)
(* ExitBootServices (Silent); that a port showing the end of a reset has   *)
(* ended one that no call has reported (ChangeIsFresh); and how far each   *)
(* step of a reset has prepared the controller (PreparedBefore), which is  *)
(* what makes WorksPrepared inductive.                                     *)
(***************************************************************************)
EXTENDS OhciHub, Integers, TLAPS

Resetting ==
  {"hostReset", "lists", "registers", "ports", "enable", "pointers", "operate", "sof", "halt"}
Steps == Resetting \cup {"start", "poll", "status", "idle", "gone"}
Features == {"none"} \cup SetFeatures \cup ClearFeatures
Ops == [name : {"none", "set", "clear", "status", "init", "reset", "exit"},
        feature : Features, attributes : SUBSET {"host", "global"}]
PortType == [HcRHPORT_STATUS -> Int]

(* Type correctness of the registers the driver works on, and of its call;  *)
(* the number of ports it reads is the number there is.                     *)
HubTypeOK ==
  /\ HcControl \in [HcCONTROL -> Int]
  /\ HcFmInterval \in [HcFRM_INTERVAL -> Int]
  /\ HcRhDescriptor \in [A : [HcRH_DESC_A -> Int], B : [HcRH_DESC_B -> Int]]
  /\ HcRhDescriptor.A["NumDownStrmPorts"] = PortCount
  /\ port \in [Ports -> PortType]
  /\ pc \in Steps /\ op \in Ops /\ at \in Ports
  /\ failed \in BOOLEAN /\ exited \in BOOLEAN
  /\ pc \in Resetting => op.name \in {"init", "reset", "exit"}
  /\ pc = "poll" => op.name \notin {"none", "status"}

Silent == exited => pc = "idle" /\ FunctionalState = HC_STATE_RESET

ChangeIsFresh ==
  ResetReportedOnce /\ \A p \in Ports : port[p].ResetStatChange # 0 => p \in fresh

Timing ==
  /\ HcPeriodicStart = 10799
  /\ HcFmInterval.FrameInterval = 11999 /\ HcFmInterval.FSMaxDataPacket = 10104

OfClient == op.name \in {"set", "clear"}

PreparedBefore ==
  /\ WorksPrepared
  /\ pc \in {"idle", "status"} /\ ~failed => HcHCCA /\ Timing
  /\ pc = "poll" /\ OfClient /\ ~failed => HcHCCA /\ Timing
  /\ pc \in {"ports", "enable", "pointers"} => Timing
  /\ pc = "poll" /\ ~OfClient => Timing
  /\ pc \in {"operate", "sof", "halt"} => HcHCCA /\ Timing

-----------------------------------------------------------------------------
(* What the setters do to the fields (OhciReg.c).                           *)
LEMMA Powers == \A f : 2 ^ Width(f) \in Nat \ {0}
<1> SUFFICES ASSUME NEW f PROVE 2 ^ Width(f) \in Nat \ {0}
  OBVIOUS
<1>1. Width(f) \in {1, 2, 8, 14, 15, 16}
  BY DEF Width
<1>2. 2 ^ 1 = 2 /\ 2 ^ 2 = 4 /\ 2 ^ 8 = 256
  OBVIOUS
<1>3. 2 ^ 14 = 16384 /\ 2 ^ 15 = 32768 /\ 2 ^ 16 = 65536
  OBVIOUS
<1>4. CASE Width(f) \in {1, 2, 8}
  <2>1. Width(f) = 1 \/ Width(f) = 2 \/ Width(f) = 8
    BY <1>4
  <2>2. 2 ^ Width(f) = 2 ^ 1 \/ 2 ^ Width(f) = 2 ^ 2 \/ 2 ^ Width(f) = 2 ^ 8
    BY <2>1
  <2> QED BY <1>2, <2>2
<1>5. CASE Width(f) \in {14, 15, 16}
  <2>1. Width(f) = 14 \/ Width(f) = 15 \/ Width(f) = 16
    BY <1>5
  <2>2. 2 ^ Width(f) = 2 ^ 14 \/ 2 ^ Width(f) = 2 ^ 15 \/ 2 ^ Width(f) = 2 ^ 16
    BY <2>1
  <2> QED BY <1>3, <2>2
<1> QED BY <1>1, <1>4, <1>5

LEMMA ZeroType == \A Fields : Zero(Fields) \in [Fields -> Int]
BY DEF Zero

LEMMA AssignType ==
  ASSUME NEW Fields, NEW reg \in [Fields -> Int], NEW Field, NEW Value \in Nat
  PROVE  /\ Assign(reg, Field, Value) \in [Fields -> Int]
         /\ \A f \in Fields \ Field : Assign(reg, Field, Value)[f] = reg[f]
         /\ \A f \in Fields \cap Field : Assign(reg, Field, Value)[f] = Value % 2 ^ Width(f)
<1>1. \A f : Value % 2 ^ Width(f) \in Int
  BY Powers
<1> QED BY <1>1 DEF Assign

\* The root hub descriptor has its fields, and counts the ports there are.
DescriptorOK(rh) == /\ rh \in [A : [HcRH_DESC_A -> Int], B : [HcRH_DESC_B -> Int]]
                    /\ rh.A["NumDownStrmPorts"] = PortCount

(* Setting other fields of the descriptor leaves the number of ports          *)
(* (OhciSetRootHubDescriptor).                                               *)
LEMMA DescriptorSet ==
  ASSUME NEW rh, DescriptorOK(rh), NEW Field, "NumDownStrmPorts" \notin Field,
         NEW Value \in Nat
  PROVE  DescriptorOK(OhciSetRootHubDescriptor(rh, Field, Value))
<1>1. /\ rh \in [A : [HcRH_DESC_A -> Int], B : [HcRH_DESC_B -> Int]]
      /\ rh.A["NumDownStrmPorts"] = PortCount
  BY DEF DescriptorOK
<1>2. rh.A \in [HcRH_DESC_A -> Int] /\ "NumDownStrmPorts" \in HcRH_DESC_A
  BY <1>1 DEF HcRH_DESC_A
<1>3. /\ Assign(rh.A, Field, Value) \in [HcRH_DESC_A -> Int]
      /\ Assign(rh.A, Field, Value)["NumDownStrmPorts"] = PortCount
  BY <1>1, <1>2, AssignType
<1>4. Assign(rh.B, Field, Value) \in [HcRH_DESC_B -> Int]
  BY <1>1, AssignType
<1> QED BY <1>1, <1>3, <1>4 DEF DescriptorOK, OhciSetRootHubDescriptor

LEMMA ControlSet ==
  ASSUME HubTypeOK, NEW Value \in Nat
  PROVE  /\ \A Field : OhciSetHcControl(HcControl, Field, Value) \in [HcCONTROL -> Int]
         /\ \A Field : "FunctionalState" \notin Field =>
              OhciSetHcControl(HcControl, Field, Value).FunctionalState = HcControl.FunctionalState
         /\ Value < 4 =>
              OhciSetHcControl(HcControl, {"FunctionalState"}, Value).FunctionalState = Value
<1>1. "FunctionalState" \in HcCONTROL /\ 2 ^ Width("FunctionalState") = 4
  <2>1. Width("FunctionalState") = 2
    BY DEF Width, HcRH_DESC_B
  <2>2. 2 ^ 2 = 4
    OBVIOUS
  <2> QED BY <2>1, <2>2 DEF HcCONTROL
<1>2. Value < 4 => Value % 4 = Value
  OBVIOUS
<1> QED BY <1>1, <1>2, AssignType DEF OhciSetHcControl, HubTypeOK

LEMMA IntervalSet ==
  ASSUME NEW reg \in [HcFRM_INTERVAL -> Int]
  PROVE  LET large == OhciSetFrameInterval(reg, {"FSMaxDataPacket"}, 10104)
             frame == OhciSetFrameInterval(reg, {"FrameInterval"}, 11999) IN
         /\ large \in [HcFRM_INTERVAL -> Int] /\ large.FSMaxDataPacket = 10104
         /\ frame \in [HcFRM_INTERVAL -> Int] /\ frame.FrameInterval = 11999
         /\ frame.FSMaxDataPacket = reg.FSMaxDataPacket
<1> DEFINE toggled == [reg EXCEPT !.FrmIntervalToggle = 1 - @]
<1>1. /\ {"FSMaxDataPacket", "FrameInterval", "FrmIntervalToggle"} = HcFRM_INTERVAL
      /\ toggled \in [HcFRM_INTERVAL -> Int] /\ toggled.FSMaxDataPacket = reg.FSMaxDataPacket
  BY DEF HcFRM_INTERVAL
<1>2. 10104 % 2 ^ Width("FSMaxDataPacket") = 10104
  <2>1. Width("FSMaxDataPacket") = 15
    BY DEF Width, HcRH_DESC_B
  <2>2. 10104 % 2 ^ 15 = 10104
    OBVIOUS
  <2>3. 2 ^ Width("FSMaxDataPacket") = 2 ^ 15
    BY <2>1
  <2> QED BY <2>2, <2>3
<1>3. 11999 % 2 ^ Width("FrameInterval") = 11999
  <2>1. Width("FrameInterval") = 14
    BY DEF Width, HcRH_DESC_B
  <2>2. 11999 % 2 ^ 14 = 11999
    OBVIOUS
  <2>3. 2 ^ Width("FrameInterval") = 2 ^ 14
    BY <2>1
  <2> QED BY <2>2, <2>3
<1>4. OhciSetFrameInterval(reg, {"FSMaxDataPacket"}, 10104) = Assign(reg, {"FSMaxDataPacket"}, 10104)
  BY DEF OhciSetFrameInterval
<1>5. OhciSetFrameInterval(reg, {"FrameInterval"}, 11999) = Assign(toggled, {"FrameInterval"}, 11999)
  BY DEF OhciSetFrameInterval
<1>6. /\ Assign(reg, {"FSMaxDataPacket"}, 10104) \in [HcFRM_INTERVAL -> Int]
      /\ Assign(reg, {"FSMaxDataPacket"}, 10104).FSMaxDataPacket = 10104
  BY <1>1, <1>2, AssignType
<1>7. /\ Assign(toggled, {"FrameInterval"}, 11999) \in [HcFRM_INTERVAL -> Int]
      /\ Assign(toggled, {"FrameInterval"}, 11999).FrameInterval = 11999
      /\ Assign(toggled, {"FrameInterval"}, 11999).FSMaxDataPacket = toggled.FSMaxDataPacket
  <2> HIDE DEF toggled
  <2> QED BY <1>1, <1>3, AssignType
<1> QED BY <1>1, <1>4, <1>5, <1>6, <1>7

(* A command to a port never makes it show the end of a reset.              *)
LEMMA PortCommand ==
  ASSUME HubTypeOK, NEW p \in Ports, NEW Field
  PROVE  /\ Write(p, Field) \in [Ports -> PortType]
         /\ \A q \in Ports : Write(p, Field)[q].ResetStatChange \in {0, port[q].ResetStatChange}
         /\ Field = "RH_PORT_RESET_STAT_CHANGE" => Write(p, Field)[p].ResetStatChange = 0
<1> DEFINE word == OhciSetRootHubPortStatus(Field)
           noSwitch == OhciGetRootHubDescriptor(HcRhDescriptor, "NoPowerSwitch") = 1
           new == PortWritten(port[p], word, noSwitch)
<1>1. word \in [HcRHPORT_STATUS -> Int]
  BY ZeroType, AssignType DEF OhciSetRootHubPortStatus
<1>2. Field = "RH_PORT_RESET_STAT_CHANGE" => word.ResetStatChange = 1
  <2>1. PortBit("RH_PORT_RESET_STAT_CHANGE") = "ResetStatChange"
    BY DEF PortBit
  <2>2. Width("ResetStatChange") = 1
    BY DEF Width, HcRH_DESC_B
  <2>3. 2 ^ 1 = 2 /\ 1 % 2 = 1
    OBVIOUS
  <2>4. "ResetStatChange" \in HcRHPORT_STATUS
    BY DEF HcRHPORT_STATUS
  <2> QED BY <2>1, <2>2, <2>3, <2>4 DEF OhciSetRootHubPortStatus, Assign, Zero
<1>3. port[p] \in PortType /\ DOMAIN port[p] = HcRHPORT_STATUS
  BY DEF HubTypeOK, PortType
<1> HIDE DEF word, noSwitch
<1>4. new \in PortType
  BY <1>3 DEF PortWritten, PortType
<1>5. /\ new.ResetStatChange \in {0, port[p].ResetStatChange}
      /\ word.ResetStatChange = 1 => new.ResetStatChange = 0
  BY <1>3 DEF PortWritten, PortType, ChangeBits, HcRHPORT_STATUS
<1> HIDE DEF new
<1>6. Write(p, Field) = [port EXCEPT ![p] = new]
  BY DEF Write, new, word, noSwitch
<1> QED BY <1>2, <1>4, <1>5, <1>6 DEF HubTypeOK

LEMMA PortExcept ==
  ASSUME NEW x \in PortType, NEW f \in HcRHPORT_STATUS, NEW v \in Int
  PROVE  /\ [x EXCEPT ![f] = v] \in PortType
         /\ \A g \in HcRHPORT_STATUS : g # f => [x EXCEPT ![f] = v][g] = x[g]
         /\ [x EXCEPT ![f] = v][f] = v
BY DEF PortType

LEMMA BusResetType ==
  ASSUME HubTypeOK
  PROVE  /\ BusReset \in [Ports -> PortType]
         /\ \A p \in Ports : BusReset[p].ResetStatChange = port[p].ResetStatChange
<1> SUFFICES ASSUME NEW p \in Ports
             PROVE /\ BusReset[p] \in PortType
                   /\ BusReset[p].ResetStatChange = port[p].ResetStatChange
  BY DEF BusReset
<1> DEFINE a == [port[p] EXCEPT !["EnableStat"] = 0]
           b == [a EXCEPT !["SuspendStat"] = 0]
           c == [b EXCEPT !["ResetStat"] = 0]
<1>1. port[p] \in PortType
  BY DEF HubTypeOK
<1>2. {"EnableStat", "SuspendStat", "ResetStat", "ResetStatChange"} \subseteq HcRHPORT_STATUS
  BY DEF HcRHPORT_STATUS
<1>3. a \in PortType /\ a["ResetStatChange"] = port[p]["ResetStatChange"]
  BY <1>1, <1>2, PortExcept
<1>4. a \in PortType => b \in PortType /\ b["ResetStatChange"] = a["ResetStatChange"]
  <2> HIDE DEF a
  <2> QED BY <1>2, PortExcept
<1>5. b \in PortType => c \in PortType /\ c["ResetStatChange"] = b["ResetStatChange"]
  <2> HIDE DEF b
  <2> QED BY <1>2, PortExcept
<1>6. BusReset[p] = c
  BY DEF BusReset
<1> HIDE DEF a, b, c
<1> QED BY <1>3, <1>4, <1>5, <1>6

LEMMA ChangedType ==
  ASSUME HubTypeOK, NEW p \in Ports, NEW bits, \A f \in DOMAIN bits : bits[f] \in Int
  PROVE  /\ Changed(p, bits) \in [Ports -> PortType]
         /\ \A q \in Ports \ {p} : Changed(p, bits)[q] = port[q]
         /\ "ResetStatChange" \notin DOMAIN bits =>
              Changed(p, bits)[p].ResetStatChange = port[p].ResetStatChange
<1> DEFINE new == [f \in HcRHPORT_STATUS |-> IF f \in DOMAIN bits THEN bits[f] ELSE port[p][f]]
<1>1. port[p] \in PortType
  BY DEF HubTypeOK
<1>2. new \in PortType
  BY <1>1 DEF PortType
<1>3. "ResetStatChange" \notin DOMAIN bits => new.ResetStatChange = port[p].ResetStatChange
  BY DEF HcRHPORT_STATUS
<1>4. Changed(p, bits) = [port EXCEPT ![p] = new]
  BY DEF Changed
<1> HIDE DEF new
<1> QED BY <1>2, <1>3, <1>4 DEF HubTypeOK

(* A device that comes, goes or resumes leaves the end of a reset alone.      *)
LEMMA DeviceMoves ==
  ASSUME HubTypeOK, NEW p \in Ports, ResumeEnds(p) \/ Plug(p) \/ Unplug(p)
  PROVE  /\ port' \in [Ports -> PortType]
         /\ \A q \in Ports : port'[q].ResetStatChange = port[q].ResetStatChange
<1>1. port[p] \in PortType
  BY DEF HubTypeOK
<1>2. PICK bits :
        /\ port' = Changed(p, bits) /\ "ResetStatChange" \notin DOMAIN bits
        /\ \A f \in DOMAIN bits : bits[f] \in Int
  <2>1. CASE ResumeEnds(p)
    BY <2>1 DEF ResumeEnds
  <2>2. CASE Plug(p)
    BY <2>2 DEF Plug
  <2>3. CASE Unplug(p)
    <3> DEFINE bits ==
          [CurrentConnectStat |-> 0, ConnectStatChange |-> 1, SuspendStat |-> 0, EnableStat |-> 0,
           EnableStatChange |-> IF port[p].EnableStat = 1 THEN 1 ELSE port[p].EnableStatChange]
    <3>1. port[p].EnableStatChange \in Int
      BY <1>1 DEF PortType, HcRHPORT_STATUS
    <3>2. \A f \in DOMAIN bits : bits[f] \in Int
      BY <3>1
    <3> QED BY <2>3, <3>2 DEF Unplug
  <2> QED BY <2>1, <2>2, <2>3
<1> QED BY <1>1, <1>2, ChangedType

LEMMA NumberOfPorts == HubTypeOK => NumOfPorts = PortCount
BY DEF HubTypeOK, NumOfPorts, OhciGetRootHubDescriptor, HcRH_DESC_B

-----------------------------------------------------------------------------
(* Types                                                                    *)
LEMMA TypesInit == Init => HubTypeOK
<1> SUFFICES ASSUME Init PROVE HubTypeOK
  OBVIOUS
<1>1. port \in [Ports -> PortType]
  BY ZeroType DEF Init, PortType
<1>2. HcRhDescriptor \in [A : [HcRH_DESC_A -> Int], B : [HcRH_DESC_B -> Int]]
  <2>1. [Zero(HcRH_DESC_A) EXCEPT !.NumDownStrmPorts = PortCount] \in [HcRH_DESC_A -> Int]
    BY ZeroType, HubAssumption
  <2> QED BY <2>1, ZeroType DEF Init
<1>3. HcRhDescriptor.A["NumDownStrmPorts"] = PortCount
  BY ZeroType DEF Init, HcRH_DESC_A
<1>4. at \in Ports /\ op \in Ops /\ pc \in Steps /\ pc \notin Resetting
  <2>1. 0 \in Ports
    BY HubAssumption DEF Ports
  <2>2. at = 0 /\ op = NoCall /\ pc = "start"
    BY DEF Init
  <2>3. NoCall \in Ops
    BY DEF NoCall, Ops, Features
  <2> QED BY <2>1, <2>2, <2>3 DEF Steps, Resetting
<1> QED BY <1>1, <1>2, <1>3, <1>4, ZeroType DEF Init, HubTypeOK

(* Go leads to any step; a call that is over is forgotten.                   *)
LEMMA GoTypes ==
  ASSUME HubTypeOK, NEW next \in Steps, Go(next),
         next \in Resetting => op.name \in {"init", "reset", "exit"}
  PROVE  /\ pc' = next /\ op' \in Ops /\ at' \in Ports
         /\ next \in Resetting => op'.name \in {"init", "reset", "exit"}
         /\ next # "idle" => op' = op
BY HubAssumption DEF Go, HubTypeOK, NoCall, Ops, Features, Ports, Resetting, Steps

LEMMA TypesStep == HubTypeOK /\ [Next]_vars => HubTypeOK'
<1> SUFFICES ASSUME HubTypeOK, [Next]_vars PROVE HubTypeOK'
  OBVIOUS
<1> USE DEF regs, hub, call, life
<1>1. CASE UNCHANGED vars
  BY <1>1 DEF vars, HubTypeOK
<1>2. ASSUME NEW p \in Ports, NEW f \in SetFeatures, SetRootHubPortFeature(p, f) PROVE HubTypeOK'
  <2>1. port' \in [Ports -> PortType]
    BY <1>2, PortCommand DEF SetRootHubPortFeature
  <2>2. op' \in Ops /\ op'.name = "set"
    BY <1>2 DEF SetRootHubPortFeature, Ops, Features
  <2> QED BY <1>2, <2>1, <2>2 DEF SetRootHubPortFeature, HubTypeOK, Steps, Resetting
<1>3. ASSUME NEW p \in Ports, NEW f \in ClearFeatures, ClearRootHubPortFeature(p, f) PROVE HubTypeOK'
  <2>1. port' \in [Ports -> PortType]
    BY <1>3, PortCommand DEF ClearRootHubPortFeature
  <2>2. op' \in Ops /\ op'.name = "clear"
    BY <1>3 DEF ClearRootHubPortFeature, Ops, Features
  <2> QED BY <1>3, <2>1, <2>2 DEF ClearRootHubPortFeature, HubTypeOK, Steps, Resetting
<1>4. ASSUME NEW p \in Ports, GetRootHubPortStatus(p) PROVE HubTypeOK'
  <2>1. op' \in Ops
    BY <1>4 DEF GetRootHubPortStatus, Ops, Features
  <2> QED BY <1>4, <2>1 DEF GetRootHubPortStatus, HubTypeOK, Steps, Resetting
<1>5. ASSUME NEW attributes \in SUBSET {"host", "global"}, NEW name \in {"init", "reset", "exit"},
             Begin(name, attributes), HcControl' \in [HcCONTROL -> Int], failed' \in BOOLEAN
      PROVE  HubTypeOK'
  <2>1. op' \in Ops /\ op'.name \in {"init", "reset", "exit"}
    BY <1>5 DEF Begin, Ops, Features
  <2>2. pc' \in Steps
    BY <1>5 DEF Begin, Steps, Resetting
  <2> QED BY <1>5, <2>1, <2>2 DEF Begin, HubTypeOK
<1>6. CASE OhcInitHC
  BY <1>5, <1>6 DEF OhcInitHC, HubTypeOK
<1>7. ASSUME NEW attributes \in SUBSET {"host", "global"}, OhciReset(attributes) PROVE HubTypeOK'
  BY <1>5, <1>7 DEF OhciReset, HubTypeOK
<1>8. CASE OhcExitBootService
  <2>1. HcControl' \in [HcCONTROL -> Int]
    BY <1>8, ControlSet DEF OhcExitBootService
  <2> QED BY <1>5, <1>8, <2>1 DEF OhcExitBootService, HubTypeOK
<1>9. ASSUME NEW State \in {"Halt", "Operational", "Suspend"}, OhciSetState(State) PROVE HubTypeOK'
  <2>1. StateValue(State) \in Nat
    BY <1>9 DEF StateValue, HC_STATE_RESET, HC_STATE_OPERATIONAL, HC_STATE_SUSPEND
  <2>2. HcControl' \in [HcCONTROL -> Int] /\ port' \in [Ports -> PortType]
    BY <1>9, <2>1, ControlSet, BusResetType DEF OhciSetState, HubTypeOK
  <2> QED BY <1>9, <2>2 DEF OhciSetState, HubTypeOK
<1>10. CASE WaitForReset
  <2>1. CASE pc' = pc /\ op' = op /\ at' = at
    BY <1>10, <2>1 DEF WaitForReset, HubTypeOK
  <2>2. ASSUME NEW next \in {"lists", "gone", "idle"}, Go(next) PROVE HubTypeOK'
    <3>1. pc = "hostReset" /\ failed' \in BOOLEAN
      BY <1>10 DEF WaitForReset, HubTypeOK
    <3> QED BY <1>10, <2>2, <3>1, GoTypes DEF WaitForReset, HubTypeOK, Steps, Resetting
  <2> QED BY <1>10, <2>1, <2>2 DEF WaitForReset
<1>11. CASE Lists
  <2>1. HcFmInterval' \in [HcFRM_INTERVAL -> Int]
    BY <1>11, IntervalSet DEF Lists, HubTypeOK
  <2>2. HcControl' \in [HcCONTROL -> Int] /\ port' \in [Ports -> PortType]
    <3>1. \/ HcControl' = HcControl /\ port' = port
          \/ HcControl' = OhciSetHcControl(HcControl, {"FunctionalState"}, 0) /\ port' = BusReset
      BY <1>11 DEF Lists, HC_STATE_RESET
    <3> QED BY <3>1, ControlSet, BusResetType DEF HubTypeOK
  <2> QED BY <1>11, <2>1, <2>2, GoTypes DEF Lists, HubTypeOK, Steps, Resetting
<1>12. CASE Registers
  <2>1. HcFmInterval' \in [HcFRM_INTERVAL -> Int]
    BY <1>12, IntervalSet DEF Registers, HubTypeOK
  <2>2. HcControl' \in [HcCONTROL -> Int]
    <3>1. HcControl' = OhciSetHcControl(HcControl, {"ControlBulkRatio"}, 3)
      BY <1>12 DEF Registers
    <3> QED BY <3>1, ControlSet
  <2>3. port' \in [Ports -> PortType]
    <3> SUFFICES ASSUME NEW p \in Ports PROVE [port[p] EXCEPT !.PowerStat = 1] \in PortType
      BY <1>12 DEF Registers
    <3> QED BY DEF HubTypeOK, PortType
  <2>4. DescriptorOK(HcRhDescriptor')
    <3> DEFINE a == OhciSetRootHubDescriptor(HcRhDescriptor, {"PowerSwitchMode"}, 0)
               b == OhciSetRootHubDescriptor(a, {"NoPowerSwitch", "NoOverCurrentProtMode"}, 1)
               c == OhciSetRootHubDescriptor(b, {"DeviceRemovable"}, 0)
               d == OhciSetRootHubDescriptor(c, {"PortPowerControlMask"}, 65535)
    <3>1. HcRhDescriptor' = d
      BY <1>12 DEF Registers
    <3>2. DescriptorOK(HcRhDescriptor)
      BY DEF HubTypeOK, DescriptorOK
    <3>3. DescriptorOK(a)
      BY <3>2, DescriptorSet
    <3>4. DescriptorOK(b)
      <4> HIDE DEF a
      <4> QED BY <3>3, DescriptorSet
    <3>5. DescriptorOK(c)
      <4> HIDE DEF b
      <4> QED BY <3>4, DescriptorSet
    <3>6. DescriptorOK(d)
      <4> HIDE DEF c
      <4> QED BY <3>5, DescriptorSet
    <3> HIDE DEF d
    <3> QED BY <3>1, <3>6
  <2>5. at' \in Ports
    <3>1. 0 \in Ports
      BY HubAssumption DEF Ports
    <3>2. at' = 0
      BY <1>12 DEF Registers
    <3> QED BY <3>1, <3>2
  <2> QED BY <1>12, <2>1, <2>2, <2>3, <2>4, <2>5
      DEF Registers, HubTypeOK, DescriptorOK, Steps, Resetting
<1>13. CASE ResetPort \/ EnablePort
  <2>1. port' \in [Ports -> PortType]
    BY <1>13, PortCommand DEF ResetPort, EnablePort, HubTypeOK
  <2>2. op' \in Ops /\ pc' = "poll" /\ op'.name \notin {"none", "status"}
    BY <1>13 DEF ResetPort, EnablePort, HubTypeOK, Ops, Features, SetFeatures, Resetting
  <2> QED BY <1>13, <2>1, <2>2 DEF ResetPort, EnablePort, HubTypeOK, Steps, Resetting
<1>14. CASE PollAgain \/ ReadStatusBit
  BY <1>14 DEF PollAgain, ReadStatusBit, HubTypeOK
<1>15. CASE PollDone
  <2>1. port' \in [Ports -> PortType]
    BY <1>15, PortCommand DEF PollDone, ClearsResetChange, HubTypeOK
  <2>2. CASE AfterPoll = "ports"
    <3>1. at + 1 < PortCount /\ op.name \in {"init", "reset", "exit"}
      <4>1. op.name \notin {"set", "clear"} /\ at + 1 < NumOfPorts
        BY <2>2 DEF AfterPoll
      <4>2. op.name \in {"init", "reset", "exit"}
        BY <1>15, <4>1 DEF PollDone, HubTypeOK, Ops
      <4> QED BY <4>1, <4>2, NumberOfPorts
    <3>2. at + 1 \in Ports
      BY <3>1, HubAssumption DEF HubTypeOK, Ports
    <3> QED BY <1>15, <2>1, <2>2, <3>1, <3>2 DEF PollDone, HubTypeOK, Steps, Resetting
  <2>3. CASE AfterPoll # "ports"
    <3>1. AfterPoll \in {"idle", "enable", "operate", "pointers"} /\ Go(AfterPoll)
      BY <1>15, <2>3 DEF PollDone, AfterPoll
    <3>2. AfterPoll # "idle" => op.name \in {"init", "reset", "exit"}
      <4>1. AfterPoll # "idle" => op.name \notin {"set", "clear"}
        BY DEF AfterPoll
      <4>2. op.name \notin {"none", "status"} /\ op \in Ops
        BY <1>15 DEF PollDone, HubTypeOK
      <4> QED BY <4>1, <4>2 DEF Ops
    <3>3. /\ pc' \in Steps /\ pc' # "poll" /\ op' \in Ops /\ at' \in Ports
          /\ pc' \in Resetting => op'.name \in {"init", "reset", "exit"}
      BY <3>1, <3>2, GoTypes DEF Steps, Resetting
    <3> QED BY <1>15, <2>1, <3>3 DEF PollDone, HubTypeOK
  <2> QED BY <2>2, <2>3
<1>16. CASE Pointers
  BY <1>16, GoTypes DEF Pointers, HubTypeOK, Steps, Resetting
<1>17. CASE Operate
  <2>1. HcControl' \in [HcCONTROL -> Int]
    BY <1>17, ControlSet, AssignType DEF Operate, OhciSetHcControl, HC_STATE_OPERATIONAL
  <2> QED BY <1>17, <2>1, GoTypes DEF Operate, HubTypeOK, Steps, Resetting
<1>18. CASE WaitForSof
  BY <1>18, GoTypes DEF WaitForSof, HubTypeOK, Steps, Resetting
<1>19. CASE Halt
  <2>1. HcControl' \in [HcCONTROL -> Int] /\ port' \in [Ports -> PortType]
    <3>1. StateValue("Halt") \in Nat
      BY DEF StateValue, HC_STATE_RESET
    <3> QED BY <1>19, <3>1, ControlSet, BusResetType DEF Halt, HaltedControl
  <2> QED BY <1>19, <2>1, GoTypes DEF Halt, HubTypeOK, Steps, Resetting
<1>20. CASE StatusDone
  BY <1>20, GoTypes DEF StatusDone, HubTypeOK, Steps, Resetting
<1>21. CASE HostResetEnds
  BY <1>21, ZeroType DEF HostResetEnds, HubTypeOK, HC_STATE_SUSPEND
<1>22. CASE StartOfFrame
  BY <1>22 DEF StartOfFrame, HubTypeOK
<1>23. ASSUME NEW p \in Ports, PortResetEnds(p) PROVE HubTypeOK'
  <2>1. port[p] \in PortType
    BY DEF HubTypeOK
  <2> DEFINE bits == [ResetStat |-> 0, ResetStatChange |-> 1,
                      EnableStat |-> IF port[p].CurrentConnectStat = 1 THEN 1 ELSE port[p].EnableStat]
  <2>2. port[p].EnableStat \in Int
    BY <2>1 DEF PortType, HcRHPORT_STATUS
  <2>3. \A f \in DOMAIN bits : bits[f] \in Int
    BY <2>2
  <2>4. port' = Changed(p, bits)
    BY <1>23 DEF PortResetEnds
  <2> HIDE DEF bits
  <2>7. port' \in [Ports -> PortType]
    BY <2>3, <2>4, ChangedType
  <2> QED BY <1>23, <2>7 DEF PortResetEnds, HubTypeOK
<1>24. ASSUME NEW p \in Ports, ResumeEnds(p) \/ Plug(p) \/ Unplug(p) PROVE HubTypeOK'
  <2>1. port' \in [Ports -> PortType]
    BY <1>24, DeviceMoves
  <2> QED BY <1>24, <2>1 DEF ResumeEnds, Plug, Unplug, HubTypeOK
<1> QED
  BY <1>1, <1>2, <1>3, <1>4, <1>6, <1>7, <1>8, <1>9, <1>10, <1>11, <1>12, <1>13, <1>14, <1>15,
     <1>16, <1>17, <1>18, <1>19, <1>20, <1>21, <1>22, <1>23, <1>24
  DEF Next, Client, Call, Controller

-----------------------------------------------------------------------------
(* After ExitBootServices                                                   *)
LEMMA SilentStep == HubTypeOK /\ Silent /\ [Next]_vars => Silent'
<1> SUFFICES ASSUME HubTypeOK, Silent, [Next]_vars PROVE Silent'
  OBVIOUS
<1> USE DEF regs, hub, call, life
<1>1. CASE UNCHANGED vars
  BY <1>1 DEF vars, Silent, FunctionalState, OhciGetHcControl
<1>2. CASE Client
  BY <1>2 DEF Client, SetRootHubPortFeature, ClearRootHubPortFeature, GetRootHubPortStatus, OhciReset,
             OhciSetState, OhcExitBootService, Begin, Silent
<1>3. CASE Halt
  <2>1. HcControl' = OhciSetHcControl(HcControl, {"FunctionalState"}, 0) /\ pc' = "idle"
    BY <1>3 DEF Halt, HaltedControl, StateValue, HC_STATE_RESET, Go
  <2>2. HcControl'.FunctionalState = 0
    BY <2>1, ControlSet
  <2> QED BY <2>1, <2>2 DEF Silent, FunctionalState, OhciGetHcControl, HC_STATE_RESET
<1>4. CASE Call /\ ~Halt
  <2>1. pc # "idle"
    BY <1>4 DEF Call, OhcInitHC, WaitForReset, Lists, Registers, ResetPort, EnablePort, PollAgain,
                PollDone, Pointers, Operate, WaitForSof, ReadStatusBit, StatusDone
  <2>2. exited' = exited
    BY <1>4 DEF Call, OhcInitHC, WaitForReset, Lists, Registers, ResetPort, EnablePort, PollAgain,
                PollDone, Pointers, Operate, WaitForSof, ReadStatusBit, StatusDone, Begin
  <2> QED BY <2>1, <2>2 DEF Silent
<1>5. CASE HostResetEnds
  BY <1>5 DEF HostResetEnds, Silent
<1>6. CASE Controller /\ ~HostResetEnds
  <2>1. HcControl' = HcControl /\ pc' = pc /\ exited' = exited
    BY <1>6 DEF Controller, StartOfFrame, PortResetEnds, ResumeEnds, Plug, Unplug
  <2> QED BY <2>1 DEF Silent, FunctionalState, OhciGetHcControl
<1> QED BY <1>1, <1>2, <1>3, <1>4, <1>5, <1>6 DEF Next

(* The end of a reset                                                       *)
LEMMA ChangeStep == HubTypeOK /\ ChangeIsFresh /\ [Next]_vars => ChangeIsFresh'
<1> SUFFICES ASSUME HubTypeOK, ChangeIsFresh, [Next]_vars PROVE ChangeIsFresh'
  OBVIOUS
<1> USE DEF regs, hub, call, life
<1>1. ASSUME fresh' = fresh, reported' = reported,
             \A p \in Ports : port'[p].ResetStatChange \in {0, port[p].ResetStatChange}
      PROVE  ChangeIsFresh'
  BY <1>1 DEF ChangeIsFresh, ResetReportedOnce
<1>2. ASSUME fresh' = fresh, reported' = reported, port' = port PROVE ChangeIsFresh'
  BY <1>2 DEF ChangeIsFresh, ResetReportedOnce
<1>3. CASE UNCHANGED vars
  BY <1>2, <1>3 DEF vars
<1>4. ASSUME NEW p \in Ports, NEW f, SetRootHubPortFeature(p, f) \/ ClearRootHubPortFeature(p, f)
      PROVE ChangeIsFresh'
  BY <1>1, <1>4, PortCommand DEF SetRootHubPortFeature, ClearRootHubPortFeature
<1>5. ASSUME NEW p, GetRootHubPortStatus(p) PROVE ChangeIsFresh'
  BY <1>2, <1>5 DEF GetRootHubPortStatus
<1>6. ASSUME NEW name, NEW attributes, Begin(name, attributes) PROVE ChangeIsFresh'
  BY <1>2, <1>6 DEF Begin
<1>7. ASSUME NEW State, OhciSetState(State) PROVE ChangeIsFresh'
  BY <1>1, <1>2, <1>7, BusResetType DEF OhciSetState
<1>8. CASE Lists \/ Halt
  BY <1>1, <1>2, <1>8, BusResetType DEF Lists, Halt
<1>9. CASE WaitForReset \/ PollAgain \/ ReadStatusBit \/ StatusDone \/ Pointers \/ Operate
           \/ WaitForSof \/ HostResetEnds \/ StartOfFrame
  BY <1>2, <1>9 DEF WaitForReset, PollAgain, ReadStatusBit, StatusDone, Pointers, Operate, WaitForSof,
                    HostResetEnds, StartOfFrame
<1>10. CASE Registers
  <2>1. \A p \in Ports : port'[p].ResetStatChange = port[p].ResetStatChange
    <3> SUFFICES ASSUME NEW p \in Ports PROVE port'[p].ResetStatChange = port[p].ResetStatChange
      OBVIOUS
    <3>1. port'[p] = [port[p] EXCEPT !["PowerStat"] = 1] /\ port[p] \in PortType
      BY <1>10 DEF Registers, HubTypeOK
    <3>2. {"PowerStat", "ResetStatChange"} \subseteq HcRHPORT_STATUS
      BY DEF HcRHPORT_STATUS
    <3> QED BY <3>1, <3>2, PortExcept
  <2>2. fresh' = fresh /\ reported' = reported
    BY <1>10 DEF Registers
  <2> QED BY <1>1, <2>1, <2>2
<1>11. CASE ResetPort \/ EnablePort
  BY <1>1, <1>11, PortCommand DEF ResetPort, EnablePort, HubTypeOK
<1>12. CASE PollDone
  <2>1. CASE ~ResetSeen
    BY <1>2, <1>12, <2>1 DEF PollDone
  <2>2. CASE ResetSeen
    <3>1. at \in Ports /\ port' = Write(at, "RH_PORT_RESET_STAT_CHANGE")
          /\ reported' = (at \notin fresh) /\ fresh' = fresh \ {at}
      BY <1>12, <2>2 DEF PollDone, ClearsResetChange, HubTypeOK
    <3>2. at \in fresh
      <4>1. op.feature = "Reset" /\ op.name # "clear" /\ SetVerified(at, "Reset")
        BY <2>2 DEF ResetSeen, Verified
      <4>2. port[at].ResetStatChange # 0
        BY <4>1 DEF SetVerified, Read, OhciReadRootHubPortStatus
      <4> QED BY <3>1, <4>2 DEF ChangeIsFresh
    <3>3. \A p \in Ports : port'[p].ResetStatChange # 0 => p \in fresh'
      BY <3>1, PortCommand DEF ChangeIsFresh
    <3> QED BY <3>1, <3>2, <3>3 DEF ChangeIsFresh, ResetReportedOnce
  <2> QED BY <2>1, <2>2
<1>13. ASSUME NEW p \in Ports, PortResetEnds(p) PROVE ChangeIsFresh'
  <2> DEFINE bits == [ResetStat |-> 0, ResetStatChange |-> 1,
                      EnableStat |-> IF port[p].CurrentConnectStat = 1 THEN 1 ELSE port[p].EnableStat]
  <2>1. port' = Changed(p, bits) /\ fresh' = fresh \cup {p} /\ reported' = reported
    BY <1>13 DEF PortResetEnds
  <2>2. port[p].EnableStat \in Int
    BY DEF HubTypeOK, PortType, HcRHPORT_STATUS
  <2>3. \A f \in DOMAIN bits : bits[f] \in Int
    BY <2>2
  <2> HIDE DEF bits
  <2>4. \A q \in Ports \ {p} : port'[q] = port[q]
    BY <2>1, <2>3, ChangedType
  <2> QED BY <2>1, <2>4 DEF ChangeIsFresh, ResetReportedOnce
<1>14. ASSUME NEW p \in Ports, ResumeEnds(p) \/ Plug(p) \/ Unplug(p) PROVE ChangeIsFresh'
  BY <1>1, <1>14, DeviceMoves DEF ResumeEnds, Plug, Unplug
<1> QED
  BY <1>3, <1>4, <1>5, <1>6, <1>7, <1>8, <1>9, <1>10, <1>11, <1>12, <1>13, <1>14
  DEF Next, Client, Call, Controller, OhcInitHC, OhciReset, OhcExitBootService

-----------------------------------------------------------------------------
(* How far the controller is prepared                                       *)
Ready == HcHCCA /\ Timing

LEMMA PreparedStep == HubTypeOK /\ PreparedBefore /\ [Next]_vars => PreparedBefore'
<1> SUFFICES ASSUME HubTypeOK, PreparedBefore, [Next]_vars PROVE PreparedBefore'
  OBVIOUS
<1> USE DEF regs, hub, call, life
<1>0. /\ Operational => Ready
      /\ pc \in {"idle", "status"} /\ ~failed => Ready
      /\ pc = "poll" /\ OfClient /\ ~failed => Ready
      /\ pc \in {"ports", "enable", "pointers"} => Timing
      /\ pc = "poll" /\ ~OfClient => Timing
      /\ pc \in {"operate", "sof", "halt"} => Ready
  BY DEF PreparedBefore, WorksPrepared, Ready, Timing
<1>1. ASSUME /\ Operational' => Ready'
             /\ pc' \in {"idle", "status"} /\ ~failed' => Ready'
             /\ pc' = "poll" /\ OfClient' /\ ~failed' => Ready'
             /\ pc' \in {"ports", "enable", "pointers"} => Timing'
             /\ pc' = "poll" /\ ~OfClient' => Timing'
             /\ pc' \in {"operate", "sof", "halt"} => Ready'
      PROVE  PreparedBefore'
  BY <1>1 DEF PreparedBefore, WorksPrepared, Ready, Timing
<1> DEFINE Same == /\ HcControl' = HcControl /\ HcHCCA' = HcHCCA /\ HcFmInterval' = HcFmInterval
                   /\ HcPeriodicStart' = HcPeriodicStart
<1>2. Same => Operational' = Operational /\ Ready' = Ready /\ Timing' = Timing
  BY DEF Operational, FunctionalState, OhciGetHcControl, Ready, Timing
<1>3. ASSUME Same, pc' = pc, op' = op, failed' = failed PROVE PreparedBefore'
  BY <1>0, <1>1, <1>2, <1>3 DEF OfClient
<1>4. CASE UNCHANGED vars
  BY <1>3, <1>4 DEF vars
<1>5. ASSUME NEW p, NEW f, SetRootHubPortFeature(p, f) \/ ClearRootHubPortFeature(p, f)
                           \/ GetRootHubPortStatus(p)
      PROVE PreparedBefore'
  <2>1. Same /\ failed' = failed /\ pc = "idle" /\ pc' \in {"poll", "status"} /\ (pc' = "poll" => OfClient')
    BY <1>5 DEF SetRootHubPortFeature, ClearRootHubPortFeature, GetRootHubPortStatus, OfClient
  <2> QED BY <1>0, <1>1, <1>2, <2>1
<1>6. ASSUME NEW name, NEW attributes, Begin(name, attributes), Operational' => Operational,
             HcHCCA' = HcHCCA, HcFmInterval' = HcFmInterval, HcPeriodicStart' = HcPeriodicStart
      PROVE PreparedBefore'
  <2>1. pc' \in {"hostReset", "lists"} /\ Ready' = Ready
    BY <1>6 DEF Begin, Ready, Timing
  <2> QED BY <1>0, <1>1, <1>6, <2>1
<1>7. CASE OhcInitHC
  BY <1>2, <1>6, <1>7 DEF OhcInitHC, Begin
<1>8. ASSUME NEW attributes, OhciReset(attributes) PROVE PreparedBefore'
  BY <1>2, <1>6, <1>8 DEF OhciReset, Begin
<1>9. CASE OhcExitBootService
  <2>1. HcControl'.FunctionalState = HcControl.FunctionalState
    <3>1. HcControl' = OhciSetHcControl(HcControl, Enables \cup {"IsochronousEnable"}, 0)
      BY <1>9 DEF OhcExitBootService
    <3>2. "FunctionalState" \notin Enables \cup {"IsochronousEnable"}
      BY DEF Enables
    <3> QED BY <3>1, <3>2, ControlSet
  <2> QED BY <1>6, <1>9, <2>1 DEF OhcExitBootService, Begin, Operational, FunctionalState, OhciGetHcControl
<1>10. ASSUME NEW State, OhciSetState(State), State \in {"Halt", "Operational", "Suspend"} PROVE PreparedBefore'
  <2>1. /\ pc = "idle" /\ (State = "Halt" \/ ~failed) /\ failed' = failed /\ pc' = pc
        /\ HcHCCA' = HcHCCA /\ HcFmInterval' = HcFmInterval /\ HcPeriodicStart' = HcPeriodicStart
    BY <1>10 DEF OhciSetState
  <2>2. Ready' = Ready
    BY <2>1 DEF Ready, Timing
  <2>3. ~failed => Ready
    BY <1>0, <2>1
  <2>4. State = "Halt" => ~Operational'
    <3>1. StateValue("Halt") = 0
      BY DEF StateValue, HC_STATE_RESET
    <3>2. State = "Halt" => HcControl'.FunctionalState = 0
      BY <1>10, <3>1, ControlSet DEF OhciSetState
    <3> QED BY <3>2 DEF Operational, FunctionalState, OhciGetHcControl, HC_STATE_OPERATIONAL
  <2> QED BY <1>1, <2>1, <2>2, <2>3, <2>4
<1>11. CASE WaitForReset
  <2>1. Same /\ pc = "hostReset"
    BY <1>11 DEF WaitForReset
  <2>2. CASE pc' = pc /\ op' = op /\ failed' = failed
    BY <1>3, <2>1, <2>2
  <2>3. CASE pc' \in {"lists", "gone"}
    BY <1>0, <1>1, <1>2, <2>1, <2>3
  <2>4. CASE pc' = "idle" /\ failed' = TRUE
    BY <1>0, <1>1, <1>2, <2>1, <2>4
  <2> QED BY <1>11, <2>2, <2>3, <2>4 DEF WaitForReset, Go
<1>12. CASE Lists
  <2>1. pc' = "registers" /\ HcHCCA' = HcHCCA /\ HcPeriodicStart' = HcPeriodicStart
    BY <1>12 DEF Lists, Go
  <2>2. Timing => Timing'
    <3>1. HcFmInterval' = OhciSetFrameInterval(HcFmInterval, {"FrameInterval"}, 11999)
      BY <1>12 DEF Lists
    <3> QED BY <2>1, <3>1, IntervalSet DEF HubTypeOK, Timing
  <2>3. Operational' => Operational
    <3>1. HcControl' = HcControl \/ HcControl' = OhciSetHcControl(HcControl, {"FunctionalState"}, 0)
      BY <1>12 DEF Lists, HC_STATE_RESET
    <3>2. HcControl' = HcControl \/ HcControl'.FunctionalState = 0
      BY <3>1, ControlSet
    <3> QED BY <3>2 DEF Operational, FunctionalState, OhciGetHcControl, HC_STATE_OPERATIONAL
  <2> QED BY <1>0, <1>1, <2>1, <2>2, <2>3 DEF Ready
<1>13. CASE Registers
  <2>1. pc' = "ports" /\ HcHCCA' = HcHCCA /\ HcPeriodicStart' = 10799
    BY <1>13 DEF Registers
  <2>2. Timing'
    <3> DEFINE large == OhciSetFrameInterval(HcFmInterval, {"FSMaxDataPacket"}, 10104)
    <3>1. HcFmInterval' = OhciSetFrameInterval(large, {"FrameInterval"}, 11999)
      BY <1>13 DEF Registers
    <3>2. large \in [HcFRM_INTERVAL -> Int] /\ large.FSMaxDataPacket = 10104
      BY IntervalSet DEF HubTypeOK
    <3> HIDE DEF large
    <3> QED BY <2>1, <3>1, <3>2, IntervalSet DEF Timing
  <2>3. Operational' => Operational
    <3>1. HcControl' = OhciSetHcControl(HcControl, {"ControlBulkRatio"}, 3)
      BY <1>13 DEF Registers
    <3>2. HcControl'.FunctionalState = HcControl.FunctionalState
      BY <3>1, ControlSet
    <3> QED BY <3>2 DEF Operational, FunctionalState, OhciGetHcControl
  <2> QED BY <1>0, <1>1, <2>1, <2>2, <2>3 DEF Ready
<1>14. CASE ResetPort \/ EnablePort
  <2>1. Same /\ failed' = failed /\ pc' = "poll" /\ pc \in {"ports", "enable"}
    BY <1>14 DEF ResetPort, EnablePort
  <2>2. op'.name = op.name /\ op.name \in {"init", "reset", "exit"}
    BY <1>14, <2>1 DEF ResetPort, EnablePort, HubTypeOK, Resetting, Ops
  <2> QED BY <1>0, <1>1, <1>2, <2>1, <2>2 DEF OfClient
<1>15. CASE PollAgain \/ ReadStatusBit \/ StartOfFrame
  BY <1>3, <1>15 DEF PollAgain, ReadStatusBit, StartOfFrame
<1>16. CASE PollDone
  <2>1. Same /\ failed' = failed /\ pc = "poll"
    BY <1>16 DEF PollDone
  <2>2. CASE OfClient
    <3>1. pc' = "idle"
      BY <1>16, <2>2 DEF PollDone, AfterPoll, OfClient, Go
    <3> QED BY <1>0, <1>1, <1>2, <2>1, <2>2, <3>1
  <2>3. CASE ~OfClient
    <3>1. pc' \in {"enable", "ports", "pointers"}
      BY <1>16, <2>3 DEF PollDone, AfterPoll, OfClient, Go
    <3> QED BY <1>0, <1>1, <1>2, <2>1, <2>3, <3>1
  <2> QED BY <2>2, <2>3
<1>17. CASE Pointers
  <2>1. /\ pc = "pointers" /\ pc' = "operate" /\ HcHCCA' = TRUE /\ HcFmInterval' = HcFmInterval
        /\ HcPeriodicStart' = HcPeriodicStart
    BY <1>17 DEF Pointers, Go
  <2>2. Timing'
    BY <1>0, <2>1 DEF Timing
  <2> QED BY <1>1, <2>1, <2>2 DEF Ready
<1>18. CASE Operate
  <2>1. /\ pc = "operate" /\ pc' = "sof" /\ HcHCCA' = HcHCCA /\ HcFmInterval' = HcFmInterval
        /\ HcPeriodicStart' = HcPeriodicStart
    BY <1>18 DEF Operate, Go
  <2>2. Ready'
    BY <1>0, <2>1 DEF Ready, Timing
  <2> QED BY <1>1, <2>1, <2>2
<1>19. CASE WaitForSof
  <2>1. Same /\ failed' = failed /\ pc = "sof" /\ pc' \in {"halt", "idle"}
    BY <1>19 DEF WaitForSof, Go
  <2> QED BY <1>0, <1>1, <1>2, <2>1
<1>20. CASE Halt
  <2>1. /\ pc = "halt" /\ pc' = "idle" /\ HcHCCA' = HcHCCA /\ HcFmInterval' = HcFmInterval
        /\ HcPeriodicStart' = HcPeriodicStart
    BY <1>20 DEF Halt, Go
  <2>2. Ready'
    BY <1>0, <2>1 DEF Ready, Timing
  <2> QED BY <1>1, <2>1, <2>2
<1>21. CASE StatusDone
  <2>1. Same /\ failed' = failed /\ pc = "status" /\ pc' = "idle"
    BY <1>21 DEF StatusDone, Go
  <2> QED BY <1>0, <1>1, <1>2, <2>1
<1>22. CASE HostResetEnds
  <2>1. pc = "hostReset" /\ pc' = pc
    BY <1>22 DEF HostResetEnds
  <2>2. HcControl'.FunctionalState = 3
    BY <1>22, ZeroType DEF HostResetEnds, HC_STATE_SUSPEND, HcCONTROL
  <2> QED BY <1>1, <2>1, <2>2 DEF Operational, FunctionalState, OhciGetHcControl, HC_STATE_OPERATIONAL
<1>23. ASSUME NEW p, PortResetEnds(p) \/ ResumeEnds(p) \/ Plug(p) \/ Unplug(p) PROVE PreparedBefore'
  BY <1>3, <1>23 DEF PortResetEnds, ResumeEnds, Plug, Unplug
<1> QED
  BY <1>4, <1>5, <1>7, <1>8, <1>9, <1>10, <1>11, <1>12, <1>13, <1>14, <1>15, <1>16, <1>17, <1>18,
     <1>19, <1>20, <1>21, <1>22, <1>23
  DEF Next, Client, Call, Controller

-----------------------------------------------------------------------------
HubInv == HubTypeOK /\ Silent /\ ChangeIsFresh /\ PreparedBefore

LEMMA HubInvInit == Init => HubInv
<1> SUFFICES ASSUME Init PROVE HubInv
  OBVIOUS
<1>1. pc = "start" /\ ~exited /\ ~reported
  BY DEF Init
<1>2. HcControl.FunctionalState = 0
  BY DEF Init, Zero, HcCONTROL
<1>3. \A p \in Ports : port[p].ResetStatChange = 0
  BY DEF Init, Zero, HcRHPORT_STATUS
<1> QED
  BY <1>1, <1>2, <1>3, TypesInit
  DEF HubInv, Silent, ChangeIsFresh, ResetReportedOnce, PreparedBefore, WorksPrepared, Operational,
      FunctionalState, OhciGetHcControl, HC_STATE_OPERATIONAL

LEMMA HubInvStep == HubInv /\ [Next]_vars => HubInv'
BY TypesStep, SilentStep, ChangeStep, PreparedStep DEF HubInv

(* OhcExitBootService leaves the controller in reset, and nothing the       *)
(* driver does afterwards takes it out of it.                               *)
THEOREM StaysQuietAfterExit == Spec => []QuietAfterExit
<1>1. HubInv => QuietAfterExit
  BY DEF HubInv, Silent, QuietAfterExit
<1> QED BY HubInvInit, HubInvStep, <1>1, PTL DEF Spec

(* OhciSetRootHubPortFeature and the initialisation never report the end of *)
(* a reset twice, for any number of ports.                                  *)
THEOREM ResetsReportedOnce == Spec => []ResetReportedOnce
<1>1. HubInv => ResetReportedOnce
  BY DEF HubInv, ChangeIsFresh
<1> QED BY HubInvInit, HubInvStep, <1>1, PTL DEF Spec

(* Whatever sequence of resets, suspends and failures precedes it, a        *)
(* controller that works has its communication area and frame timing.       *)
THEOREM AlwaysWorksPrepared == Spec => []WorksPrepared
<1>1. HubInv => WorksPrepared
  BY DEF HubInv, PreparedBefore
<1> QED BY HubInvInit, HubInvStep, <1>1, PTL DEF Spec
=============================================================================
