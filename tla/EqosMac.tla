------------------------------ MODULE EqosMac ------------------------------
(***************************************************************************)
(* The registers of the Ethernet MAC that DwcEqosSnpDxe programs, against    *)
(* what SnpMode tells the client: station address, receive filters, link    *)
(* and interrupts.  A soft reset of the MAC, at the start of every           *)
(* Initialize() and Reset(), loses all of them.                             *)
(***************************************************************************)
EXTENDS Naturals, FiniteSets

CONSTANTS
  Addresses,          \* station addresses
  PermanentAddress,
  Groups,             \* multicast addresses
  Hash,               \* the bit of the hash table for each of them
  FilterChoices,      \* the Enable and Disable masks of the client
  MAX_MCAST_FILTER_CNT,
  Speeds              \* of the link

NoAddress == "none"
NoLink == 0

ASSUME AddressAssumption == PermanentAddress \in Addresses /\ NoAddress \notin Addresses
ASSUME GroupAssumption == Groups = DOMAIN Hash /\ MAX_MCAST_FILTER_CNT \in Nat
ASSUME LinkAssumption == NoLink \notin Speeds

Filters ==
  {"unicast", "multicast", "broadcast", "promiscuous", "promiscuousMulticast"}
Interrupts == {"RI", "TI"}

ASSUME ChoiceAssumption == FilterChoices \subseteq SUBSET Filters

VARIABLES
  \* SnpMode
  State, CurrentAddress, ReceiveFilterSetting, MCastFilter, MediaPresent,
  \* MAC and DMA registers
  macAddress, PacketFilter, hashTable, linkConfig, dmaStatus,
  running,      \* transmitter, receiver and DMA are enabled
  fresh,        \* no filters were set since Initialize
  phy,          \* the link the PHY reports, or NoLink
  unreported,   \* interrupts raised and not yet reported by a GetStatus
  gs            \* a GetStatus has read the interrupt status

mode == <<State, CurrentAddress, ReceiveFilterSetting, MCastFilter, MediaPresent>>
filter == <<PacketFilter, hashTable>>
intr == <<dmaStatus, unreported, gs>>
vars == <<mode, macAddress, filter, linkConfig, running, fresh, phy, intr>>

-----------------------------------------------------------------------------
(* The packet filter register for a setting; all bits clear after a reset *)
FilterFor(s) ==
  LET pr == "promiscuous" \in s
      pm == ~pr /\ "promiscuousMulticast" \in s
  IN  [PR |-> pr, PM |-> pm, HMC |-> ~pr /\ ~pm /\ "multicast" \in s,
       DBF |-> "broadcast" \notin s]
DefaultFilter == [PR |-> FALSE, PM |-> FALSE, HMC |-> FALSE, DBF |-> FALSE]

(* The hash table after EqosSetRxFilters: bits are added to those there are, *)
(* unless it is reset.  Mutant: the bits of the list are forgotten.          *)
HashesForgotten(old, s, reset, list) == IF reset THEN {} ELSE old
Hashes(old, s, reset, list) ==
  (IF reset THEN {} ELSE old)
    \union (IF FilterFor(s).HMC THEN {Hash[a] : a \in list} ELSE {})

SoftReset ==
  /\ linkConfig' = NoLink
  /\ dmaStatus' = {} /\ unreported' = {}

(* EqosReset with EqosSetMacAddress as its last register; mutant: with the   *)
(* permanent address                                                        *)
AddressForgotten == PermanentAddress
AddressProgrammed == CurrentAddress

(* EqosStart fails when the soft reset times out, or later when a receive    *)
(* buffer cannot be mapped                                                  *)
EqosStart ==
  /\ SoftReset
  /\ macAddress' = AddressProgrammed
  /\ running' = TRUE
EqosStartFails ==
  /\ SoftReset
  /\ macAddress' \in {NoAddress, AddressProgrammed}
  /\ PacketFilter' = DefaultFilter /\ hashTable' = {}
  /\ running' = FALSE

EqosDisableTxRx == running' = FALSE

-----------------------------------------------------------------------------
EqosDriverBindingStart ==
  /\ State = "absent"
  /\ State' = "stopped"
  /\ CurrentAddress' = PermanentAddress
  /\ ReceiveFilterSetting' = {"unicast", "broadcast"}
  /\ MCastFilter' = {}
  /\ MediaPresent' = FALSE
  /\ UNCHANGED <<macAddress, filter, linkConfig, running, fresh, phy, intr>>

EqosDriverBindingStop ==
  /\ State \in {"stopped", "started", "initialized"} /\ ~gs
  /\ EqosDisableTxRx
  /\ State' = "absent"
  /\ UNCHANGED <<CurrentAddress, ReceiveFilterSetting, MCastFilter, MediaPresent,
                 macAddress, filter, linkConfig, fresh, phy, intr>>

EqosSnpStart ==
  /\ State = "stopped"
  /\ State' = "started"
  /\ UNCHANGED <<CurrentAddress, ReceiveFilterSetting, MCastFilter, MediaPresent,
                 macAddress, filter, linkConfig, running, fresh, phy, intr>>

EqosSnpStop ==
  /\ State = "started"
  /\ State' = "stopped"
  /\ UNCHANGED <<CurrentAddress, ReceiveFilterSetting, MCastFilter, MediaPresent,
                 macAddress, filter, linkConfig, running, fresh, phy, intr>>

EqosSnpInitialize ==
  /\ State = "started"
  /\ fresh' = TRUE
  /\ \/ /\ EqosStart
        /\ PacketFilter' = DefaultFilter /\ hashTable' = {}
        /\ State' = "initialized"
     \/ EqosStartFails /\ UNCHANGED State
  /\ UNCHANGED <<CurrentAddress, ReceiveFilterSetting, MCastFilter, MediaPresent,
                 phy, gs>>

(* Reset sets the filters of SnpMode again, on top of the empty hash table *)
EqosSnpReset ==
  /\ State = "initialized" /\ ~gs
  /\ \/ /\ EqosStart
        /\ PacketFilter' = FilterFor(ReceiveFilterSetting)
        /\ hashTable' = Hashes({}, ReceiveFilterSetting, MCastFilter = {}, MCastFilter)
        /\ fresh' = FALSE
     \/ EqosStartFails /\ UNCHANGED fresh
  /\ UNCHANGED <<mode, phy, gs>>

EqosSnpShutdown ==
  /\ State = "initialized" /\ ~gs
  /\ EqosDisableTxRx
  /\ State' = "started"
  /\ UNCHANGED <<CurrentAddress, ReceiveFilterSetting, MCastFilter, MediaPresent,
                 macAddress, filter, linkConfig, fresh, phy, intr>>

EqosNotifyExitBootServices ==
  /\ State \in {"stopped", "started", "initialized"} /\ ~gs
  /\ EqosDisableTxRx
  /\ State' = "exited"
  /\ UNCHANGED <<CurrentAddress, ReceiveFilterSetting, MCastFilter, MediaPresent,
                 macAddress, filter, linkConfig, fresh, phy, intr>>

(* A list the client may give *)
ListFits(list) == list # {} /\ Cardinality(list) <= MAX_MCAST_FILTER_CNT

(* The list of SnpMode is replaced whenever the new setting has multicast    *)
EqosSnpReceiveFilters(enable, disable, reset, list) ==
  /\ State = "initialized" /\ ~gs
  /\ LET s == (ReceiveFilterSetting \union enable) \ disable
         listed == "multicast" \in s /\ ~reset
     IN  /\ listed => ListFits(list)
         /\ MCastFilter' = IF reset THEN {} ELSE IF listed THEN list ELSE MCastFilter
         /\ ReceiveFilterSetting' = s
         /\ PacketFilter' = FilterFor(s)
         /\ hashTable' = Hashes(hashTable, s, reset, list)
  /\ fresh' = FALSE
  /\ UNCHANGED <<State, CurrentAddress, MediaPresent, macAddress, linkConfig, running,
                 phy, intr>>

EqosSnpStationAddress(new) ==
  /\ State = "initialized" /\ ~gs
  /\ CurrentAddress' = new
  /\ macAddress' = new
  /\ UNCHANGED <<State, ReceiveFilterSetting, MCastFilter, MediaPresent, filter,
                 linkConfig, running, fresh, phy, intr>>

(* EqosUpdateLink: the MAC is set up for the link when the link comes up *)
EqosUpdateLink ==
  /\ MediaPresent' = (phy # NoLink)
  /\ linkConfig' = IF ~MediaPresent /\ phy # NoLink THEN phy ELSE linkConfig

\* EqosAipGetInformation, in whatever state the interface is
EqosAipGetInformation ==
  /\ State \in {"stopped", "started", "initialized"} /\ ~gs
  /\ EqosUpdateLink
  /\ UNCHANGED <<State, CurrentAddress, ReceiveFilterSetting, MCastFilter, macAddress,
                 filter, running, fresh, phy, intr>>

(* GetStatus, up to where EqosGetDmaInterruptStatus has read the status; the *)
(* client may ask for it or not.  TI is assigned over RI.                    *)
InterruptStatus == IF "TI" \in dmaStatus THEN {"TI"} ELSE dmaStatus
GetStatusRead(asks) ==
  /\ State = "initialized" /\ ~gs
  /\ EqosUpdateLink
  /\ unreported' = IF asks THEN unreported \ InterruptStatus ELSE unreported
  /\ gs' = TRUE
  /\ UNCHANGED <<State, CurrentAddress, ReceiveFilterSetting, MCastFilter, macAddress,
                 filter, running, fresh, phy, dmaStatus>>

(* ... and from where it reads the status again, ORs in Mask, and writes the *)
(* result to the register, whose bits are cleared by writing 1.  Mutant: the *)
(* interrupt that was reported is masked out of what is written.             *)
WrittenBackMasked == dmaStatus \ InterruptStatus
WrittenBack == dmaStatus
GetStatusClear ==
  /\ gs
  /\ dmaStatus' = dmaStatus \ WrittenBack
  /\ gs' = FALSE
  /\ UNCHANGED <<mode, macAddress, filter, linkConfig, running, fresh, phy, unreported>>

-----------------------------------------------------------------------------
(* The link goes up, down, or changes its speed *)
PhyChanges ==
  /\ phy' \in Speeds \union {NoLink}
  /\ UNCHANGED <<mode, macAddress, filter, linkConfig, running, fresh, intr>>

RaiseInterrupt(i) ==
  /\ running
  /\ dmaStatus' = dmaStatus \union {i} /\ unreported' = unreported \union {i}
  /\ UNCHANGED <<mode, macAddress, filter, linkConfig, running, fresh, phy, gs>>

Init ==
  /\ State = "absent" /\ CurrentAddress = PermanentAddress
  /\ ReceiveFilterSetting = {"unicast", "broadcast"} /\ MCastFilter = {}
  /\ MediaPresent = FALSE
  /\ macAddress = NoAddress /\ PacketFilter = DefaultFilter /\ hashTable = {}
  /\ linkConfig = NoLink /\ dmaStatus = {} /\ running = FALSE
  /\ fresh = TRUE /\ phy = NoLink /\ unreported = {} /\ gs = FALSE

Next ==
  \/ EqosDriverBindingStart
  \/ EqosDriverBindingStop
  \/ EqosSnpStart
  \/ EqosSnpStop
  \/ EqosSnpInitialize
  \/ EqosSnpReset
  \/ EqosSnpShutdown
  \/ EqosNotifyExitBootServices
  \/ \E enable, disable \in FilterChoices, reset \in BOOLEAN, list \in SUBSET Groups :
       EqosSnpReceiveFilters(enable, disable, reset, list)
  \/ \E new \in Addresses : EqosSnpStationAddress(new)
  \/ EqosAipGetInformation
  \/ \E asks \in BOOLEAN : GetStatusRead(asks)
  \/ GetStatusClear
  \/ PhyChanges
  \/ \E i \in Interrupts : RaiseInterrupt(i)

Spec == Init /\ [][Next]_vars

-----------------------------------------------------------------------------
TypeOK ==
  /\ State \in {"absent", "stopped", "started", "initialized", "exited"}
  /\ CurrentAddress \in Addresses /\ ReceiveFilterSetting \subseteq Filters
  /\ MCastFilter \subseteq Groups /\ Cardinality(MCastFilter) <= MAX_MCAST_FILTER_CNT
  /\ MediaPresent \in BOOLEAN
  /\ macAddress \in Addresses \union {NoAddress}
  /\ PacketFilter \in [{"PR", "PM", "HMC", "DBF"} -> BOOLEAN]
  /\ hashTable \subseteq {Hash[a] : a \in Groups}
  /\ linkConfig \in Speeds \union {NoLink} /\ phy \in Speeds \union {NoLink}
  /\ dmaStatus \subseteq Interrupts /\ unreported \subseteq Interrupts
  /\ running \in BOOLEAN /\ fresh \in BOOLEAN /\ gs \in BOOLEAN

(* A receiver that runs answers to the address SnpMode shows, after any       *)
(* sequence of changes, resets and restarts (EqosUtil.c:250).                *)
AnswersToAddress == running => macAddress = CurrentAddress

(* The frames for a group that the filter registers let in *)
LetsIn(a) == PacketFilter.PR \/ PacketFilter.PM \/ (PacketFilter.HMC /\ Hash[a] \in hashTable)

(* The frames SnpMode promises *)
Wanted(a) ==
  \/ ReceiveFilterSetting \intersect {"promiscuous", "promiscuousMulticast"} # {}
  \/ "multicast" \in ReceiveFilterSetting /\ a \in MCastFilter

(* Once the filters were set, the receiver lets in everything SnpMode          *)
(* promises, across calls that turn multicast and the promiscuous modes on   *)
(* and off, and across Reset (SimpleNetwork.c:311-335, 194-200).              *)
WantedIsLetIn ==
  running /\ ~fresh =>
    /\ \A a \in Groups : Wanted(a) => LetsIn(a)
    /\ "broadcast" \in ReceiveFilterSetting => ~PacketFilter.DBF

(* No interrupt is reported twice: what a GetStatus finds was raised after    *)
(* the last GetStatus that reported it, also when it was raised while one    *)
(* was clearing the status (EqosUtil.c:849-916).                             *)
ReportedOnce == ~gs => dmaStatus \subseteq unreported
=============================================================================
