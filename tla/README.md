# A TLA+ verification project for the RK356x UEFI firmware

This directory keeps TLA+ models of the firmware in `src/`, the TLC configurations
that check them on small instances, and theorems about them that TLAPS checks. Paths
below are relative to `src/edk2-rockchip/`; P is `Platform/Rockchip/Rk356x`, S is
`Silicon/Rockchip/Rk356x` and D is `Silicon/Synopsys/DesignWare/Drivers/DwcEqosSnpDxe`.

`tlc -config X.cfg M` checks a run (`PROJECT.json` lists module and configuration),
`tlapm XProofs.tla` checks proofs (PlatformProofs takes about ten minutes). `PROJECT.json`
also maps each definition to the
lines it stands for, and names for each property a mutation of a definition that
breaks it. Definitions whose comment begins with "mutant" are these mutations.

## 1. The system

The repository is an EDK2 port for boards with a Rockchip RK3566 or RK3568. After the
vendor's first stage loaders, UEFI runs on one processor, in one address space, with
cooperative drivers: there are no threads. What makes it hard is

- *task priority levels (TPL)*: an event handler or a timer preempts code of a lower
  level between any two of its statements, unless that code has raised its level;
- *devices that run concurrently*: the DMA engine of the network controller, the USB
  host controller and its devices, the card behind the SD controller;
- *lifecycles*: a driver is started, stopped, reset, and told of ExitBootServices, in
  every state, and a step of each of these may fail half way;
- *power*: the variables live in RAM and are written to the card at a few moments.

An ASSERT stops a DEBUG build and does nothing in a RELEASE build. The driver models go
on after it, as a RELEASE build does, or state it as a property; the platform models
take both ways (`"halted"`, `"stopped"`).

| Component | State it keeps | Operations | Talks to | Status |
|---|---|---|---|---|
| Firmware volume block protocol (P/Drivers/VarBlockServiceDxe/VarBlockService.c, FvbInfo.c) | RAM image of the volume with its own header, Dirty | FvbInitialize, SetAttributes, Write, EraseBlocks | variable driver (caller); persistence (Dirty, image) | modelled: FvbVolume |
| Persistence of variables and reset (VarBlockServiceDxe.c, P/Library/ResetLib) | Device, MediaId, Dirty, three events | OnDiskIoInstall, DumpVars and its events, LibResetSystem | DiskIo/BlockIo of the card, event services, PCD behind a variable | modelled: VarStore |
| EQOS Ethernet, rings (D/SimpleNetwork.c, EqosUtil.c, DwcEqosSnpDxe.c) | SNP state, two descriptor rings, mapped buffers | driver start/stop, Start, Stop, Initialize, Reset, Shutdown, Transmit, GetStatus, Receive, ExitBootServices | network stack (client), DMA engine | modelled: EqosRings, SnpQueue |
| EQOS Ethernet, MAC (same files, AdapterInfo.c) | SnpMode, MAC registers, link, interrupt status | the same lifecycle, ReceiveFilters, StationAddress, GetStatus, media query | client, PHY | modelled: EqosMac |
| OHCI USB 1.1 host controller driver (S/Drivers/OhciDxe) | descriptor pool, control/bulk/periodic lists, contexts of interrupt transfers, controller and port registers | control, bulk, sync and async interrupt transfers, house keeper timer, Reset, SetState, root hub calls, ExitBootServices | USB bus driver and class drivers, controller, devices | partly: UsbHcMem, OhciPipe, OhciPeriodic, OhciReg, OhciHub |
| SD host controller (S/Drivers/MshcDxe) | a remembered data command, bus width, clock | SendCommand, Read/WriteBlockData, SetIos, NotifyState | MmcDxe, card | modelled: Mshc, CardClock |
| eMMC (S/Drivers/EmmcDxe) | clock and DLL | override notifications | SdMmcPciHcDxe | partly: CardClock |
| I2C and RTC (S/Library/I2cLib, Hym8563RtcLib) | the clock chip | Read, Write; GetTime, SetTime | I2C controller | modelled: I2c, Rtc |
| Platform configuration (P/Drivers/ConfigDxe, S/Library/Tsc4525CpuVoltageLib) | configuration variables, CPU voltage and clock | apply settings once | SCMI, I2C, HII | partly: CpuClock |
| Clock, reset and PHY libraries (S/Library/CruLib, MultiPhyLib) | PLL of the PHYs, gates, resets, clock sources | set modes and rates | every platform driver | partly: Cru, PciHost |
| Board initialisation (P/*/Drivers/BoardInitDxe, nine boards) | PMIC rails, PHYs, MACs | one pass in the board's order | I2C, CRU | partly: Boards, PciHost |
| PCIe (S/Library/Rk356xPciHostBridgeLib, Rk356xPciSegmentLib, Pcie30PhyLib) | address windows, link | link training, configuration access | PCI bus driver | modelled: PciHost, PciConfig |
| AHCI (S/Drivers/SataDxe) | controllers enabled | reset and enable at the end of DXE | - | modelled: PciHost |
| Device tree (P/Drivers/FdtDxe), GMAC platform driver, Display, UsbHcd, Trng, Tsadc, other register libraries, tables | see section 6 | one pass, or accessors | - | not modelled |

Correctness of the components, in a sentence each: the block protocol changes exactly
the cells it is asked to, or none; no variable the user has set is lost by a reset that
finds a clean image, and no foreign card is written; a buffer lent to the network driver
comes back once and in order and a frame received is returned once and in order; the
MAC's registers agree with what SnpMode tells the client; descriptors and buffers of USB
transfers outlive the controller's use of them, leave nothing behind, and the data
toggles of caller, controller and device stay in step; a controller works only prepared
and is silent once the operating system owns the memory; no device of a board is touched
before what it depends on is up; a configuration access reaches the register it names
and no other; the CPU is never clocked above its voltage, nor a card above its mode; a
lost time is not believed.

The `hazards` of `PROJECT.json` list, with their lines, the places where this is hard
to test, and the properties that watch them.

## 2. Modules

### FvbVolume: the block protocol

`mem` is the RAM image in cells; cell 0 is the header, because `VolumeHeader` and
`FvBase` are two names of one word. `FvbInitialize` loads the image or rebuilds the
volume over a bad header; `FvbSetVolumeAttributes` follows the chain of checks of the
flags; `FvbProtocolWrite` cuts a write at the block boundary, which it finds with a sum
of two UINTNs (`Crosses`);
`FvbProtocolEraseBlocks`, `FvbEraseBlock`, `EraseNextRange` and `EraseReturn` are the
two loops of EraseBlocks, the second one a block at a time because each step reads the
block map again, through a header the step before may have erased. `Modulus` and
`U32Max` keep the width of `EFI_LBA` and UINTN, and of the block map's words. The flags
of an intact header are `hdrAttr`, beside `mem`, because FvbSetVolumeAttributes writes
them without Dirty and without a new checksum: `summed` holds the flags the checksum was
taken over, and `HeaderStaysValid` asks that no request brings the three apart. `stray`
says that an erase or a write has gone past the volume.

### VarStore: from RAM to the card

An image maps cells to values. `ResetDelay` is a variable in that image
(`PcdPlatformResetDelay`), which DumpVars raises *after* it has stored the image.
`DiskIoInstall` to discovery (`Handlers`), `Signal`, `LibResetSystem`, `ResetDone`,
`ExitBootServices`, `PowerLoss`, `PullCard`, `InsertOther` and `PowerOn` are the
operations and the environment. Handlers run at TPL_CALLBACK one after another in the
order they were signalled; a reset called at TPL_CALLBACK or above queues its dump and
does not wait for it. A card has a write cache (`cache`) and what it keeps without
power (`perm`); a reset delay of at least `PLATFORM_RESET_DELAY` lets it flush. A failed
transfer stores any part of the image.

### SnpQueue and EqosRings: the rings

SnpQueue is the promise of a Simple Network driver about lent buffers. EqosRings is
the driver and the DMA engine: the rings with their indices, OWN bits, mapped buffers
and the counter `TxQueued` of 32 bits. Transmit and Receive are one step (they hold a
lock at TPL_CALLBACK); GetStatus takes no lock and has four steps. A mapping may fail
in Initialize, Reset, Transmit and Receive. `RingIsQueue` says that EqosRings
implements SnpQueue: the refinement mapping reads the lent buffers off the ring from
`TxCurrent` to `TxNext`.

### EqosMac: the registers

SnpMode against MAC registers. A soft reset, at the start of Initialize and Reset,
loses all registers. `GetStatusRead` and `GetStatusClear` are the two halves of
GetStatus, between which the device may raise an interrupt. The CRC that picks a hash
bit is the constant `Hash`. `fresh` marks an interface whose filters were not set since
Initialize: what applies then is promised by nothing in the code.

### UsbHcMem: the descriptor pool

A list of DMA blocks with one bit per unit of 64 bytes. An allocation searches the
blocks in order (`UsbHcAllocMemFromBlock`), or makes a block (`UsbHcAllocateMem`); a
free inverts the bits and releases the block if it is empty and not the head
(`UsbHcFreeMem`). With `Preempt`, an allocation is two steps, `FindUnits` and
`MarkUnits`, with other calls in between.

### OhciPipe: control and bulk transfers

One call at a time, in the steps of the code from the stall at its start over
creating the ED, mapping, building the TDs, starting, polling and clean-up, each of
which may fail and jump to its label. Beside it runs the controller: it samples the
enabled lists at the start of a frame (`HcFrame`), walks from head to current
(`HcWalk`), serves a TD (`HcServe`) and ends it with success, a lost acknowledgement,
a stall or an error (`HcEnd`), or after the call has freed the TD (`HcEndLate`).
`gaveUp` records that a call has timed out, `skewed` that a bulk call has failed since
the endpoint was reset.

### OhciPeriodic: interrupt transfers

The tree of 32 lists that meet on 5 levels, with the bit-reversed leaves of the code;
`OhciFindMinInterruptEDList` picks the node with the fewest EDs of the level for an
interval. A submission is `Submit`, `AttachTds`, `Activate`, or `SubmitFails`; the
house keeper, from a timer at TPL_NOTIFY, may run between these steps, entry by entry
(`HouseKeeperTimer`, `SkipEntry`, `Resubmit`, `ErrorCallback`, `ReturnFromError`), and no
other call runs inside it. After an error callback it holds an entry that is freed
(`Dangling`), reads it once more and returns. A device repeats a packet whose
acknowledgement was lost, and the controller
throws a repeated packet away by its toggle. Clients cancel a transfer in the callback
that reports an error, as UsbKbDxe and UsbMouseDxe do. `skewed` marks an endpoint that
a failed submission or a cancellation in the middle has put out of step.

### OhciReg and OhciHub: registers, root hub, life of the controller

OhciReg is the register accessors: a register is a function from the names of its
fields to numbers, `Assign` cuts a value to the width of a field, and the two families
of setters differ in whether the other fields are read back or written as 0.
`CommandWritten`, `StatusWritten` and `PortWritten` are what the controller makes of it.
OhciHub runs one call at a time: `OhcInitHC`, `OhciReset` and `OhcExitBootService` share
the steps from `WaitForReset` over `Lists`, `Registers`, the reset and enabling of each
port, `Pointers` and `Operate` to `WaitForSof`; port features are a write and a poll
(`SetRootHubPortFeature`, `ClearRootHubPortFeature`, `PollAgain`, `PollDone`), and the
status of a port is read a bit at a time (`ReadStatusBit`). Beside it the controller ends
its reset in time or never, ends port resets and starts frames, and devices come and go.
`fresh` holds the ports with a reset no call has reported.

### Cru, Boards and PciHost: a board comes up

Cru is the clock and reset unit as one record that each function of CruLib maps to the
next; the PLL loses its lock when a divider is written. Boards is data: for each board
the calls of its BoardInitDxe and the writes to its PMIC. PciHost runs them, then
InitializePciHost and SataDxe, a register at a time: a PHY
(`PhySetsPll`, `PllLockSeen` or `PllGivesUp`, `PhyClocked`, `PhyMode`), the MACs
(`GmacStep`), the rails (`PmicWrite`), the PCIe 3.0 PHY, the root complex from
`PciSetupClocks` to `PciHostBridgeGetRootBridges`. Beside it run the PLL that locks, the
PHY that loads its firmware, the link that trains and the AHCI reset; waits end or time
out. `gaveUp` records that the last wait for the PLL ended without it. `DevicesReady` asks
the PHY of the root complex and of an AHCI controller to run (`PhyRuns`): set up, out of
reset, and, unless gaveUp, at the reference it was told of.

### PciConfig: configuration accesses

A configuration space is a set of bits; `Reached` takes an address through
`PciSegmentLibGetConfigBase` and the windows PciHost has set, to a function or to
nothing. A call is one cycle (`PciSegmentRead`, `PciSegmentWrite`), two for the
read-modify-write functions (`Modified`), or the cycles of a buffer (`BufferWidth`).
`AccessExact` compares what was read and what is left in configuration space with the
meaning of the call.

### I2c, Rtc, CpuClock and CardClock

I2c is the set of outcomes of a transfer: a failed write may have been taken by the
device or not. Rtc runs GetTime and SetTime a register at a time, with the machine
switched off in between and the chip's supply lost. CpuClock follows ConfigInitialize:
the voltage (`CpuVoltageRead`, `CpuVoltageWrite`) before a faster clock and after a
slower one. CardClock has the three updates of an SD clock change with the registers and
what the card's clock really runs on (`MshcDisableClock`, `MshcWriteDivider`,
`MshcEnableClock`, `MshcUpdateClock`), and EmmcDxe's clock and DLL.

### Platform: on one machine

Platform composes these: all share the clock unit, the I2C outcomes or the windows. The
variable `session` picks the one that runs: the boards, accesses after them, the CPU,
the clock chip, the SD clock while a board sets up its WiFi (both write the same clock
register), or the eMMC. Drivers of this phase run one after another, so nothing is lost.

### Mshc: block transfers of the SD host

`MshcSendCommand` remembers a data command; MshcReadBlockData and MshcWriteBlockData
wait for the card (`PrvDataComplete`), empty the FIFO (`FifoEmptied`), call
`SendCommand` and move the data, with a time-out in each wait that has one. Beside them
run the controller, which holds back a command during a transfer (`HcCommand`), fills
and drains the FIFO and raises the bits of RINTSTS, and the card; both are modelled
from what the driver relies on. The client, as MmcDxe does, asks for the card's state
after a transfer and stops one that failed. Assumed of the hardware: the 100 µs with
which SendCommand begins outlast a command on the wire and the CRC and end bit that
follow the last word, and a stop reaches a card that is sending or receiving. Without
the delay `StateIsAnswered` fails: the late DTO of a read ends the wait of the next
command, which is a likely answer to the question in the comment at MshcDxe.c:306.

## 3. Runs

| Run | Distinct states | What it asks |
|---|---|---|
| FvbVolume | 5,022 | block protocol: attributes, writes (one that wraps too) and erases in any order |
| VarStore | 83,485 | dumps, resets, power loss, exchanged cards; a reset terminates |
| VarStoreFound | violation | a partition can be taken for the store |
| EqosRings | 86,077 | both rings with failing mappings and restarts, refinement of SnpQueue, buffers come back |
| EqosTxPreempt | violation | a GetStatus interrupted by another |
| EqosMac | 255,320 | filters, addresses, resets, links and interrupts |
| UsbHcMem | 233,797 | allocations and frees of several sizes |
| OhciPipe | 302,146 | control and bulk transfers that fail at each step |
| OhciPeriodic | 137,360 | interrupt transfers, house keeper, errors and cancellations |
| OhciHub | 160,441 | start, resets, states, port features, exit, with devices that come and go |
| Mshc | 62,745 | block transfers that fail at each step, and what the next one sees |
| Platform | 117,965 | nine boards come up; configuration accesses; CPU, RTC, SD and eMMC clocks |

The type invariants were checked with TLC on the same instances before they were proved;
the runs check the properties that say something about the code.

### Bounds, and why they are enough

- FvbVolume: three blocks of two cells (a header block, and two to cross between),
  offsets and lengths up to one past a block and a length one short of the modulus, which
  is 16. The erase lists leave the header block alone and do not wrap; see section 5 for
  those that do.
- VarStore: one variable with two values, one SetVariable per behaviour, delays below
  and above the platform's, a second card, two pending handlers besides the one that
  signals: each property is about one variable and the last dump.
- EqosRings: a transmit ring of 4 descriptors that holds 3 frames, 2 buffers: full, wrapped
  and with both owners; 2 receive descriptors and 4 frames: each descriptor is used twice.
  A client either sends or receives (`traffic` in MCEqosRings): the rings share only the
  calls that start and stop DMA.
- EqosMac: 2 groups for a list of one, so that a list must be replaced; 2 addresses,
  one filter switched per call.
- UsbHcMem: blocks of 3 units, sizes 1, 2 and 4 (the last needs a block of its own), 3
  interchangeable blocks (SYMMETRY; only invariants are checked).
- OhciPipe: up to 2 data TDs, so that a toggle goes both ways within a call.
- OhciPeriodic: a keyboard polled every 10 ms with one packet per report, a mouse every
  2 ms with two; synchronous transfers ask for every frame.
- Mshc: four blocks, transfers of up to three, a FIFO of two: a transfer is given up
  with blocks in the FIFO and blocks still to come, and another of other blocks follows.

- OhciHub: one port (ports do not share state but the loop over them, which the proofs
  cover for any number), a wait of 2 polls for 51 or 100, 2 devices attached or removed.
- Platform: waits of 2 polls, one failing I2C transfer in a board's start (any number in
  the sessions of the clock chip and of the CPU), bytes 12 to 25 of configuration space
  (the registers before, of, and after the hidden base address registers) with buffers
  of up to 9 bytes: each alignment with each remainder.

CHECK_DEADLOCK is off where the system really stops: the machine is off and the boot
card is gone (VarStore); the operating system owns the device (EqosRings, EqosMac,
OhciHub, where a controller whose start has failed also stays as it is); an ASSERT has
stopped a DEBUG build, or everything is set up (Platform); a write has gone past the
volume, after which nothing is known of the memory behind it (FvbVolume).

### Fairness

- `Mshc!MshcSpec`: the driver runs, the controller ends what it has begun (a transfer with
  DTO or an error, a command with or without a response), the card ends programming.
- `VarStore!FairSpec`: the event dispatcher runs queued handlers, and a reset that was
  begun goes on: one processor executes both. Environment steps are not fair.
- `EqosRings!Fairness`, in `MCSpec`: the DMA engine goes on with what it owns, and the
  client goes on polling GetStatus, as MnpDxe does while buffers are lent.
- `OhciHub!FairSpec`: a call goes on, for one processor executes it, and a controller that
  works starts a frame every millisecond. Devices, and the end of a reset, are not fair.
- `OhciPeriodic!PeriodicSpec`: the house keeper's timer is periodic and its loop terminates.
  Neither controller nor clients are fair: a device may stay silent.

## 4. Proofs

Every theorem holds for all values of the constants, under their assumptions and,
where stated, a further hypothesis.

- **FvbVolumeProofs.** Types; `AlwaysWritable`, from the invariant that the header's
  flags hold both status bits and are either locked or lack the disabling
  capabilities; from the same invariant `HeaderAlwaysValid`, because of such a header
  SetAttributes changes no flag at all; `EraseIsAllOrNothing` if no range of a list wraps
  (`NoWrap`); `ErasesExactly` and `WritesStopAtBlock` if also the header block is left alone
  (`HeaderLeftAlone`), the second for the writes whose offset and length do not wrap;
  `NothingStrays` if all writes are such (`NoWriteWrap`). These hypotheses are necessary
  (section 5).
  `ErasedInv` is what each step of an erase keeps: a cell that what is left of the list
  names is named by the list, and every other cell is as it will be at the end.
- **VarStoreProofs.** Types; `CleanVariablesAreStored`; `ResetKeeps`, with the
  invariant that a clean image whose delay is shorter than the platform's was on the
  card before this boot; `OtherCardsUntouched`, with the invariant that the remembered
  media id is that of the card the store was found on.
- **EqosRingsProofs.** Types; `RingAccounted` and `OutstandingStayMapped`, for clients
  that do not interrupt each other (`~Preempt`): what a GetStatus has read still holds
  at its end because the others are kept out; `OwnedAreMapped`, `ReceivesInStep`,
  `ReceivesInOrder`: the frames stored and not yet received fill the descriptors from
  RxCurrent to the engine's in order, which a failed mapping or a failed restart leaves
  true. `TxQueued` never wraps, for rings of any length. `RingImplementsQueue`, again
  for `~Preempt`: mapped by `LentFrames`, each step is one of SnpQueue or leaves it alone.
  No two places of the queue are the same descriptor (`SlotsApart`), and recycling moves
  each up by one (`SlotMovesUp`); it needs that a descriptor GetStatus has found sent
  is still sent when it is recycled (`CheckedIsSent`).
- **EqosMacProofs.** `AlwaysAnswersToAddress` and `PromisesAreKept`, from one invariant
  about a running receiver; `NothingReportedTwice`.
- **OhciMemoryProofs**, of what OhciDxe shares with the controller in memory. The pool:
  `PoolAccounted` and `EmptyBlocksReleased`, for allocations that are not interrupted,
  inductive only together with: a block is listed once, and the place found is still free
  when it is marked. The interrupt transfers, for any finite set of endpoints, intervals and
  numbers of packets: `ContextsHaveEds`, `EdsArePolledInTime` (the lists that pass a node of
  each level, by cases on the 32 lists; the node with the fewest EDs exists because the
  library's theorem on well-founded orders gives a least element), and `PacketsAreInStep`.
  `PeriodicInv` adds to them that an ED is in the tree exactly as long as its transfer
  (`EdOfTransfer`), how many TDs are retired in each state of a transfer and what that has
  left in the ED (`TdsRetired`), and, between calls too, which packet the device sends next
  for the caller's toggle (`InStep`).
- **OhciPipeProofs.** Types; `NothingStaysBehind`, `HeadAlwaysReady`, `NoTdFreedInFlight`,
  `TogglesAgree`, for any number of TDs. The invariant adds what each step of a call
  owns, that the controller is off a list while a call builds it, that it has nothing
  left to execute once polling has ended, and the toggle of each TD in flight.

- **OhciHubProofs.** `StaysQuietAfterExit`, `ResetsReportedOnce` and `AlwaysWorksPrepared`, for
  any number of ports, polls and devices. `WorksPrepared` is inductive only with what each
  step of a reset has prepared (`PreparedBefore`): a client may put to work what it finds
  idle, so idle and not failed must already mean prepared. `ChangeIsFresh` says that a
  port showing the end of a reset has ended one no call has reported.
- **PlatformProofs**, of the drivers on one machine (`Platform`), each by itself first, and
  of the block transfers of the SD host.
  - The clock chip (`RtcInv`): `LossAlwaysDetected` and `FlagAlwaysTrue`. A call that sets
    the time has written a prefix of its order, whose last write alone clears the flag; a
    call that gets it has read the flag before all else.
  - The CPU (`CpuInv`): `VoltageAlwaysSuffices`, for any rates, settings and regulators, but
    only while no call has failed, and for a speed with a voltage in the table and a selector
    of six bits (section 5 says what the code does beyond them).
    Until the clock is set the boot's pair stands (`BootsSupplied`); the choice between
    raising and lowering was made on this clock (`ClockRead`) and this selector
    (`VselRead`); before a faster clock the voltage is already there (`SuppliedFirst`),
    and before a lower voltage the clock is already down (`LoweredLast`). It needs that
    a regulator can output the table's voltages exactly (`RegulatorAssumption`), which
    Rk356x.dec:84-85 (600 mV and up, in steps of 6.25 mV) and OrangePi3B.dsc:102-103 (712.5 mV
    and up, in steps of 12.5 mV) give.
  - The cards (`CardInv`): `CardClockAlwaysWithin`. What a driver has asked of the clock
    source is what the unit has (`SourceSet`), the clock is stopped while its divider is
    wrong (`ClockStopped`), and outside a change it is as slow as asked (`Settled`,
    `SlowEnough`). The other drivers write the other fields of the same register. Once the
    controller has refused an update (`sd.failed`) nothing is promised.
  - The boards (`HostInv`): `ReferencesAlwaysMatch` and `DevicesAlwaysReady`, of the nine
    boards with the data of their BoardInitDxe, any number of polls and of failing
    transfers, and any state the boot loader leaves. `DevicesReady` covers the root complex,
    the MACs, the rails and the AHCI controllers; it says nothing of a reference after a PLL
    that never locked, of the rails' voltages after a transfer that failed, and of the mode
    of an AHCI controller's PHY. `RunsCall` ties the step to the call
    that runs; `Flow` is what every step does to the two. `PhysClocked` says that once a
    PHY is set up the shared PLL has the one rate every call gives it, `PllReady` that where no wait
    was given up the PLL is locked and selected outside a call that programs it,
    `SataStepped` that SataDxe enables what the board's calls have set up, `RailsWritten` and
    `MacsStepped` read what was done off what is left to do, and `PciStepped` off the
    step that the root complex is at.
  - Accesses to configuration space (`ConfigInv`): `AccessesAlwaysExact`, for any bytes and any
    size of a buffer. Calls of every kind are made of pieces, of which `PieceSeen` and
    `PieceWritten` say what a worker reads and writes; `BufferUpTo` is what a buffer has come
    to after some of them. A base address register that the workers hide is hidden whole or
    not at all, for no piece begins or ends inside it (`BarsApart`).
  - `PlatformInvariant`: the conjunction holds of every session. Each driver's invariant
    survives the others because they touch at most the clock and reset unit, and of that
    what `CruEvolves` allows.
  - The block transfers (`MshcInv`): `TransfersAreRight` and `StateIsAlwaysAnswered`, for any
    size of the card, length of a transfer and depth of the FIFO. It follows a transfer
    that may have been given up: who still sends or receives (`OneTransfer`), which command
    is in the register (`OneCommand`), where the card is (`CardFollows`), and where each
    block of a read (`ReadOn`) or a write (`WriteOn`) is: in its place, in the FIFO, or
    told of by an interrupt.

Three of these proofs could not be done before the models were changed. `SdmmcSel` and
`EmmcSel` in Cru had CASE guards that overlap, of which TLA+ may choose any: they are now
the disjoint ranges that the else-ifs of CruLib mean. A data command of Mshc did not say
that it is the call's own until it was issued. And `CpuClock` assumed nothing of the
regulator. The other changes only give a name to a part of an expression, so that a proof
can speak of it (`PhyRate`, `Switched`, `Without`, `LentFrames`).

Only model-checked: liveness (`ResetCompletes`, `TxComesBack`, `EventuallyReported`, both
`CallsReturn`). Liveness, ENABLED, and what a recursion over data computes are out of the
prover's reach.

## 5. Disagreements between code and documents

Shown by a violation run and listed in `findings`: VarStoreFound, EqosTxPreempt.

Met while modelling, with the case kept apart by a hypothesis, a flag or a bound:

- *DumpVars* (VarBlockServiceDxe.c): it raises ResetDelay in the image after it has stored
  the image, and clears Dirty after that, so the next handler finds "Variables not dirty"
  (200) although that variable is not on the card; `CleanIsStored` leaves it out.
- *SD host* (MshcDxe.c): a read returns before the CRC of its last block is checked, so
  `ReadRight` promises intact data for the blocks before it only; a stop sent while a
  transfer goes on may return before its response, at the DTO of that transfer (332). A
  clock update the controller refuses is only asserted on (185-197), so the clock then
  runs on other registers than the driver believes (`sd.failed`); MshcSetIos has written
  the mode before it refuses the width.
- *EraseBlocks* (VarBlockService.c): a list that begins with the header block makes
  later steps read an erased block map, so the erase runs past the volume; and
  `StartingLba + NumOfLba` wraps at line 526, so a list that should be refused
  (489-493) is accepted.
- *Write* (VarBlockService.c): `*NumBytes + Offset` wraps at line 641 for a length near
  2^64, so the write is not cut and goes on behind the block and the volume, where
  575-577 promises that it ends at the block; `WriteStopsAtBlock` is about the others.
- *SetAttributes* (VarBlockService.c:371-372) would change flags in the image without
  Dirty and without a new checksum; with the two headers the code can have no request
  comes that far with a change, which `HeaderStaysValid` shows.
- *Ethernet rings* (SimpleNetwork.c): a Reset that fails in EqosStart leaves frames
  counted whose buffers are unmapped (assertion at 614); a receive buffer that cannot
  be mapped again trips the assertions at 837 and 855 when Receive comes round.
- *Ethernet MAC*: Reset loses the link configuration with the other registers, and if
  the link did not change meanwhile nothing writes it again (SimpleNetwork.c:145-146, 188;
  EqosUtil.c:1009; `linkConfig` in EqosMac); hash bits of a replaced list stay (267-268
  promises a new list); the interrupt status keeps only TransmitInterrupt when both are
  set (557-558), and is cleared even if nobody asked for it (559-560).
- *OHCI pool*: with calls that preempt each other (`Preempt = TRUE`) `PoolAccount` fails;
  the assertion at UsbHcMem.c:192 is what would notice.
- *OHCI control and bulk* (Ohci.c): a time-out returns EFI_NOT_READY where the comment
  promises EFI_TIMEOUT (303); a time-out or a failed allocation leaves `*DataToggle`
  advanced, and an error inverts a toggle the controller has inverted already
  (643-645); the bulk call maps the array of buffer pointers rather than the buffer
  (761, 640); after a time-out the TDs are freed while the controller may hold one.
- *OHCI interrupt transfers*: if the context cannot be allocated everything is freed
  and EFI_SUCCESS returned (Ohci.c:1131-1134); a failed submission leaves `*DataToggle`
  advanced; a cancellation returns the toggle of the first TD, which is wrong once two
  are retired (1198-1199); the synchronous call leaks its TDs and its buffer and
  returns the status of the cancellation; a stall is never reported
  (OhciSched.c:435-440); after an error the house keeper returns without going on to
  the other entries, and without RestoreTPL (513); if the client has cancelled the transfer
  in the callback, it first reads IsPeriodic, Ed and DataTd of the entry that is freed
  (449-452), unless the list is empty (444); OhciFindWorkingEd asks for a direction no ED
  has and never finds
  one; memory is freed as soon as the periodic list is switched off, which the
  controller obeys only in its next frame.
- *OHCI root hub* (Ohci.c): OhciGetRootHubPortStatus reads the register once for every
  bit (1562-1597), the connection before its change, so a device that comes in between
  is returned as a change to "not connected"; the wait for a frame (176) has no bound; the
  exit resets the controller, which starts it again, before it halts it (2117); an error
  path of the binding frees what it has freed already (2274-2288).
- *Boards and PCIe*: a PLL that does not lock is selected all the same (CruLib.c:181-192),
  nobody looks at the status of MultiPhySetMode (PciHostBridgeInit.c:357), and the root
  complex or an AHCI controller is used on a PHY whose clock is not what it was told
  (`gaveUp` holds this apart); the wait of
  SataDxe for the end of the reset has no bound (Sata.c:49), and PineTab2, Zero-3W and the
  default Quartz64 enable a controller whose PHY is in USB mode; a 32-bit read-modify-write
  of a hidden base address register writes back 0 for what the read hides; the functions
  that read, modify and write say that all operations are serialized
  (PciSegmentLib.c:240 ff.) but no lock is taken.
- *CPU clock*: the status of CpuVoltageSet is not looked at (ConfigDxe.c:375), and it fails
  for every speed above 1992 MHz, which is set all the same; a failed SetCpuSpeed is
  followed by a lower voltage (377-379); SpeedHz is not initialised for an unknown
  CpuClock (352-366); for 1800 and 1992 MHz the selector of the default regulator (72 and 88)
  has more than six bits, and the bits above its field are set too (CpuVoltageLib.c:121).
- *RTC* (RtcLib.c): the call that finds the time lost clears the only trace of it (102), so
  the next call returns the lost time; registers are read and written one by one, so a
  time that carries in between is torn, and a SetTime that fails leaves part of the new
  time.
- *OtpLib*: one retry counter serves all words of a read.

## 6. What is left out

Formatting, logging, device paths and the installation of protocols; the contents of
packets and descriptors beyond ownership, toggles and results; OHCI's done queue (the
code polls TDs instead), isochronous lists (the code has none) and the driver's binding;
VarBlockService's address conversion for the operating system.

Not modelled, and why:

- FdtDxe walks a tree once and fixes it up; its state is a library's data structure and no
  step depends on another. RemoveTables (ConfigDxe.c:385-403) uninstalls tables.
- DisplayDxe and DwHdmiCore write register sequences for one mode; their only state is the
  frame buffer.
- GmacPlatformDxe, UsbHcdInitDxe, TrngDxe and TsadcDxe set up a device once; GPIO, OTP, SDRAM
  and SoC libraries are accessors; pins, LEDs and tuning values are constants.
- EmmcDxe's UHS signalling is the mode bits of a register.
- Tables (ACPI, SMBIOS), logos and the vendored loaders hold no behaviour to check.

Outside the repository, modelled from how the code uses it: the bit field operations of
BaseLib, the SCMI clock service, the hardware of the controllers, clock chip and PMIC.

## 7. Plan

Done, in this order: the variable store (the only persistent state of the system), the
network driver (the busiest concurrent code), the USB host controller driver (the most
descriptors in flight), block transfers of the SD host, the life of the USB controller,
and the platform's drivers on one machine.

Left, by how much it would add:

1. The pool composed with the transfers that use it.
2. Display and FdtDxe as sequences of steps that may fail; UHS signalling of the eMMC.
