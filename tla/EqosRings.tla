----------------------------- MODULE EqosRings -----------------------------
(***************************************************************************)
(* The transmit and receive rings of DwcEqosSnpDxe: the Simple Network      *)
(* calls that start, stop and use them (SimpleNetwork.c), the descriptors   *)
(* they hand over (EqosUtil.c), and the DMA engine that works on these       *)
(* concurrently.                                                            *)
(*                                                                         *)
(* Transmit and Receive hold a lock of TPL_CALLBACK and are one step each.  *)
(* GetStatus takes no lock: a caller at TPL_APPLICATION can be interrupted   *)
(* inside it by a call at TPL_CALLBACK, if Preempt says that there are two  *)
(* such callers.  A call that returns early without changing anything       *)
(* (wrong state, full ring, no frame, small buffer) is a stuttering step.   *)
(***************************************************************************)
EXTENDS Naturals, Sequences

CONSTANTS
  TX_DESC_COUNT, RX_DESC_COUNT,
  Buffers,     \* frames a client lends to Transmit
  NoBuffer,
  U32Max,      \* TxQueued is a UINT32
  MaxFrames,   \* bound on the frames that arrive
  Preempt,     \* clients at both TPLs use the interface
  Restarts     \* Reset and Shutdown are called

ASSUME CountAssumption ==
  /\ TX_DESC_COUNT \in Nat /\ TX_DESC_COUNT > 1
  /\ RX_DESC_COUNT \in Nat \ {0}
  /\ U32Max \in Nat /\ U32Max >= TX_DESC_COUNT
  /\ MaxFrames \in Nat
ASSUME ClientAssumption ==
  NoBuffer \notin Buffers /\ Preempt \in BOOLEAN /\ Restarts \in BOOLEAN

TxIndex == 0 .. TX_DESC_COUNT - 1
RxIndex == 0 .. RX_DESC_COUNT - 1

VARIABLES
  State,         \* SnpMode.State; "absent" without driver, "exited" in the OS
  TxNext, TxCurrent, TxQueued, TxBuffers,
  TxBuffersMap,  \* whether the buffer of a descriptor is mapped for DMA
  txOwn,         \* OWN bit of TDES3: the descriptor belongs to the DMA engine
  RxCurrent, RxBuffersMap, rxOwn,
  rxFrame,       \* number of the frame in the buffer, 0 if none
  rxBad,         \* the DMA engine flagged it: error summary, or length zero
  dma,           \* transmit and receive DMA are started
  hwTx, hwRx,    \* descriptors the DMA engine looks at
  arrived,       \* frames the DMA engine has stored
  taken,         \* the last frame Receive is done with
  delivered,     \* the last frame Receive has returned with EFI_SUCCESS
  gs, gsIndex, gsQueued, \* progress and locals of a GetStatus at TPL_APPLICATION
  TxBuf          \* the buffer the last GetStatus gave back

txRing == <<TxNext, TxCurrent, TxQueued, TxBuffers, TxBuffersMap, txOwn>>
rxRing == <<RxCurrent, RxBuffersMap, rxOwn, rxFrame, rxBad>>
hw == <<dma, hwTx, hwRx, arrived>>
call == <<gs, gsIndex, gsQueued>>
vars == <<State, txRing, rxRing, hw, taken, delivered, call, TxBuf>>

EQOS_TX_NEXT(n) == (n + 1) % TX_DESC_COUNT
EQOS_RX_NEXT(n) == (n + 1) % RX_DESC_COUNT

AllTx(b) == [i \in TxIndex |-> b]
AllRx(b) == [i \in RxIndex |-> b]

Idle == gs = "idle"
Callable == State = "initialized" /\ (Idle \/ Preempt)

-----------------------------------------------------------------------------
(* DriverBindingStart: the context and the descriptors are all zero *)
ZeroRings ==
  /\ TxNext' = 0 /\ TxCurrent' = 0 /\ TxQueued' = 0
  /\ TxBuffers' = AllTx(NoBuffer) /\ TxBuffersMap' = AllTx(FALSE)
  /\ txOwn' = AllTx(FALSE)
  /\ RxCurrent' = 0 /\ RxBuffersMap' = AllRx(FALSE) /\ rxOwn' = AllRx(FALSE)
  /\ rxFrame' = AllRx(0) /\ rxBad' = AllRx(TRUE)

EqosDriverBindingStart ==
  /\ State = "absent"
  /\ State' = "stopped"
  /\ ZeroRings
  /\ UNCHANGED <<hw, taken, delivered, call, TxBuf>>

EqosSnpStart ==
  /\ State = "stopped"
  /\ State' = "started"
  /\ UNCHANGED <<txRing, rxRing, hw, taken, delivered, call, TxBuf>>

EqosSnpStop ==
  /\ State = "started"
  /\ State' = "stopped"
  /\ UNCHANGED <<txRing, rxRing, hw, taken, delivered, call, TxBuf>>

(* EqosDmaInitDescriptorRings; writing the base addresses also sends the     *)
(* DMA engine back to the first descriptors.  The OWN bits of the transmit   *)
(* descriptors are left as they are.                                        *)
\* mutants: one of the rings is not rewound
InitKeepsTx ==
  /\ RxCurrent' = 0
  /\ hwTx' = 0 /\ hwRx' = 0
  /\ UNCHANGED <<TxQueued, TxNext, TxCurrent>>
InitKeepsRx ==
  /\ TxQueued' = 0 /\ TxNext' = 0 /\ TxCurrent' = 0
  /\ hwTx' = 0 /\ hwRx' = 0
  /\ UNCHANGED RxCurrent
EqosDmaInitDescriptorRings ==
  /\ TxQueued' = 0 /\ TxNext' = 0 /\ TxCurrent' = 0
  /\ RxCurrent' = 0
  /\ hwTx' = 0 /\ hwRx' = 0

EqosStart ==
  /\ RxBuffersMap' = AllRx(TRUE) /\ rxOwn' = AllRx(TRUE)
  /\ EqosDmaInitDescriptorRings
  /\ dma' = TRUE
  /\ taken' = arrived

(* EqosStart when the soft reset times out or a receive buffer, after n of   *)
(* them, cannot be mapped                                                   *)
EqosStartFails ==
  /\ \E n \in RxIndex : rxOwn' = [i \in RxIndex |-> i < n \/ rxOwn[i]]
  /\ RxBuffersMap' = AllRx(FALSE)
  /\ dma' = FALSE
  /\ UNCHANGED <<TxQueued, TxNext, TxCurrent, RxCurrent, hwTx, hwRx, taken>>

EqosSnpInitialize ==
  /\ State = "started"
  /\ \/ EqosStart /\ State' = "initialized"
     \/ EqosStartFails /\ UNCHANGED State
  /\ UNCHANGED <<TxBuffers, TxBuffersMap, txOwn, rxFrame, rxBad, arrived,
                 delivered, call, TxBuf>>

(* EqosStop unmaps every buffer, then EqosStart; a failure of EqosStart     *)
(* leaves the interface initialized.                                       *)
EqosSnpReset ==
  /\ State = "initialized" /\ Idle /\ Restarts
  /\ TxBuffersMap' = AllTx(FALSE)
  /\ EqosStart \/ EqosStartFails
  /\ UNCHANGED <<State, TxBuffers, txOwn, rxFrame, rxBad, arrived, delivered,
                 call, TxBuf>>

EqosStop ==
  /\ dma' = FALSE
  /\ TxBuffersMap' = AllTx(FALSE) /\ RxBuffersMap' = AllRx(FALSE)

EqosSnpShutdown ==
  /\ State = "initialized" /\ Idle /\ Restarts
  /\ EqosStop
  /\ State' = "started"
  /\ UNCHANGED <<TxNext, TxCurrent, TxQueued, TxBuffers, txOwn, RxCurrent, rxOwn,
                 rxFrame, rxBad, hwTx, hwRx, arrived, taken, delivered, call, TxBuf>>

EqosDriverBindingStop ==
  /\ State \in {"stopped", "started", "initialized"} /\ Idle /\ Restarts
  /\ dma' = FALSE
  /\ ZeroRings
  /\ State' = "absent"
  /\ UNCHANGED <<hwTx, hwRx, arrived, taken, delivered, call, TxBuf>>

EqosNotifyExitBootServices ==
  /\ State \in {"stopped", "started", "initialized"} /\ Idle
  /\ State' = "exited"
  /\ dma' = FALSE
  /\ UNCHANGED <<txRing, rxRing, hwTx, hwRx, arrived, taken, delivered, call, TxBuf>>

-----------------------------------------------------------------------------
(* The ring is full with one descriptor unused; mutant: with none *)
RingFullLate == TxQueued = TX_DESC_COUNT
RingFull == TxQueued = TX_DESC_COUNT - 1

EqosSnpTransmit(b) ==
  /\ Callable /\ ~RingFull
  /\ TxBuffers' = [TxBuffers EXCEPT ![TxNext] = b]
  /\ \/ \* EqosDmaMapTxDescriptor succeeds
        /\ TxBuffersMap' = [TxBuffersMap EXCEPT ![TxNext] = TRUE]
        /\ txOwn' = [txOwn EXCEPT ![TxNext] = TRUE]
        /\ TxNext' = EQOS_TX_NEXT(TxNext)
        /\ TxQueued' = (TxQueued + 1) % (U32Max + 1)
     \/ \* DmaMap fails
        UNCHANGED <<TxBuffersMap, txOwn, TxNext, TxQueued>>
  /\ UNCHANGED <<State, TxCurrent, rxRing, hw, taken, delivered, call, TxBuf>>

(* GetStatus reads TxQueued and TxCurrent, and EqosCheckTxDescriptor the     *)
(* descriptor; a descriptor in error is recycled like any other.  Mutants:   *)
(* without a look at OWN; and never the last one.                           *)
RecyclableUnsent == TxQueued > 0
RecyclableButLast == TxQueued > 1 /\ ~txOwn[TxCurrent]
Recyclable == TxQueued > 0 /\ ~txOwn[TxCurrent]
Decremented(n) == IF n = 0 THEN U32Max ELSE n - 1

\* at TPL_CALLBACK, nothing comes between
EqosSnpGetStatus ==
  /\ Callable /\ Recyclable
  /\ TxBuffersMap' = [TxBuffersMap EXCEPT ![TxCurrent] = FALSE]
  /\ TxBuf' = TxBuffers[TxCurrent]
  /\ TxCurrent' = EQOS_TX_NEXT(TxCurrent)
  /\ TxQueued' = Decremented(TxQueued)
  /\ UNCHANGED <<State, TxNext, TxBuffers, txOwn, rxRing, hw, taken, delivered, call>>

\* at TPL_APPLICATION: the check, the recycling, the decrement
GetStatusCheck ==
  /\ State = "initialized" /\ Idle /\ Recyclable
  /\ gs' = "checked" /\ gsIndex' = TxCurrent
  /\ UNCHANGED <<State, txRing, rxRing, hw, taken, delivered, gsQueued, TxBuf>>

GetStatusRecycle ==
  /\ gs = "checked"
  /\ TxBuffersMap' = [TxBuffersMap EXCEPT ![gsIndex] = FALSE]
  /\ TxBuf' = TxBuffers[gsIndex]
  /\ TxCurrent' = EQOS_TX_NEXT(gsIndex)
  /\ gs' = "recycled" /\ gsQueued' = TxQueued
  /\ UNCHANGED <<State, TxNext, TxQueued, TxBuffers, txOwn, rxRing, hw, taken,
                 delivered, gsIndex>>

GetStatusEnd ==
  /\ gs = "recycled"
  /\ TxQueued' = Decremented(gsQueued)
  /\ gs' = "idle" /\ gsIndex' = 0 /\ gsQueued' = 0
  /\ UNCHANGED <<State, TxNext, TxCurrent, TxBuffers, TxBuffersMap, txOwn, rxRing,
                 hw, taken, delivered, TxBuf>>

(* Receive: the frame of RxCurrent goes to the caller, or is dropped if it   *)
(* is flagged; then the descriptor is mapped again and handed back           *)
RxReleased ==
  /\ RxBuffersMap' = [RxBuffersMap EXCEPT ![RxCurrent] = TRUE]
  /\ rxOwn' = [rxOwn EXCEPT ![RxCurrent] = TRUE]
  /\ RxCurrent' = EQOS_RX_NEXT(RxCurrent)
  /\ taken' = rxFrame[RxCurrent]
  /\ delivered' = IF rxBad[RxCurrent] THEN delivered ELSE rxFrame[RxCurrent]

(* ... or, if DmaMap fails, it stays current, unmapped, and the call fails.  *)
(* Mutant: RxCurrent moves on all the same.                                *)
RxSkipped ==
  /\ RxBuffersMap' = [RxBuffersMap EXCEPT ![RxCurrent] = FALSE]
  /\ RxCurrent' = EQOS_RX_NEXT(RxCurrent)
  /\ UNCHANGED <<rxOwn, taken, delivered>>
RxKept ==
  /\ RxBuffersMap' = [RxBuffersMap EXCEPT ![RxCurrent] = FALSE]
  /\ UNCHANGED <<rxOwn, RxCurrent, taken, delivered>>

EqosSnpReceive ==
  /\ Callable /\ ~rxOwn[RxCurrent]
  /\ RxReleased \/ RxKept
  /\ UNCHANGED <<State, txRing, rxFrame, rxBad, hw, call, TxBuf>>

-----------------------------------------------------------------------------
(* The DMA engine: it works through each ring while it finds OWN set *)
HwTransmit ==
  /\ dma /\ txOwn[hwTx]
  /\ txOwn' = [txOwn EXCEPT ![hwTx] = FALSE]
  /\ hwTx' = EQOS_TX_NEXT(hwTx)
  /\ UNCHANGED <<State, TxNext, TxCurrent, TxQueued, TxBuffers, TxBuffersMap,
                 rxRing, dma, hwRx, arrived, taken, delivered, call, TxBuf>>

HwReceive(bad) ==
  /\ dma /\ rxOwn[hwRx] /\ arrived < MaxFrames
  /\ rxOwn' = [rxOwn EXCEPT ![hwRx] = FALSE]
  /\ rxFrame' = [rxFrame EXCEPT ![hwRx] = arrived + 1]
  /\ rxBad' = [rxBad EXCEPT ![hwRx] = bad]
  /\ arrived' = arrived + 1
  /\ hwRx' = EQOS_RX_NEXT(hwRx)
  /\ UNCHANGED <<State, txRing, RxCurrent, RxBuffersMap, dma, hwTx, taken,
                 delivered, call, TxBuf>>

-----------------------------------------------------------------------------
Init ==
  /\ State = "absent"
  /\ TxNext = 0 /\ TxCurrent = 0 /\ TxQueued = 0
  /\ TxBuffers = AllTx(NoBuffer) /\ TxBuffersMap = AllTx(FALSE)
  /\ txOwn = AllTx(FALSE)
  /\ RxCurrent = 0 /\ RxBuffersMap = AllRx(FALSE) /\ rxOwn = AllRx(FALSE)
  /\ rxFrame = AllRx(0) /\ rxBad = AllRx(TRUE)
  /\ dma = FALSE /\ hwTx = 0 /\ hwRx = 0 /\ arrived = 0
  /\ taken = 0 /\ delivered = 0
  /\ gs = "idle" /\ gsIndex = 0 /\ gsQueued = 0
  /\ TxBuf = NoBuffer

Next ==
  \/ EqosDriverBindingStart
  \/ EqosSnpStart
  \/ EqosSnpStop
  \/ EqosSnpInitialize
  \/ EqosSnpReset
  \/ EqosSnpShutdown
  \/ EqosDriverBindingStop
  \/ EqosNotifyExitBootServices
  \/ \E b \in Buffers : EqosSnpTransmit(b)
  \/ EqosSnpGetStatus
  \/ GetStatusCheck
  \/ GetStatusRecycle
  \/ GetStatusEnd
  \/ EqosSnpReceive
  \/ HwTransmit
  \/ \E bad \in BOOLEAN : HwReceive(bad)

Spec == Init /\ [][Next]_vars

(* The DMA engine does not stop by itself, and the client goes on polling   *)
(* GetStatus, as MNP does for as long as it has a buffer lent.              *)
Fairness ==
  /\ WF_vars(HwTransmit)
  /\ WF_vars(EqosSnpGetStatus)
  /\ WF_vars(GetStatusRecycle) /\ WF_vars(GetStatusEnd)

-----------------------------------------------------------------------------
TypeOK ==
  /\ State \in {"absent", "stopped", "started", "initialized", "exited"}
  /\ TxNext \in TxIndex /\ TxCurrent \in TxIndex /\ TxQueued \in 0 .. U32Max
  /\ TxBuffers \in [TxIndex -> Buffers \union {NoBuffer}]
  /\ TxBuffersMap \in [TxIndex -> BOOLEAN] /\ txOwn \in [TxIndex -> BOOLEAN]
  /\ RxCurrent \in RxIndex /\ RxBuffersMap \in [RxIndex -> BOOLEAN]
  /\ rxOwn \in [RxIndex -> BOOLEAN] /\ rxFrame \in [RxIndex -> Nat]
  /\ rxBad \in [RxIndex -> BOOLEAN]
  /\ dma \in BOOLEAN /\ hwTx \in TxIndex /\ hwRx \in RxIndex
  /\ arrived \in Nat /\ taken \in Nat /\ delivered \in Nat
  /\ gs \in {"idle", "checked", "recycled"}
  /\ gsIndex \in TxIndex /\ gsQueued \in 0 .. U32Max
  /\ TxBuf \in Buffers \union {NoBuffer}

(* Descriptors from TxCurrent up to TxNext *)
Outstanding == (TxNext + TX_DESC_COUNT - TxCurrent) % TX_DESC_COUNT
Slot(i) == (TxCurrent + i - 1) % TX_DESC_COUNT

(* TxQueued counts the descriptors from TxCurrent to TxNext and never        *)
(* reaches the size of the ring, where full and empty would look alike; a   *)
(* GetStatus between its last two statements is one behind                   *)
(* (SimpleNetwork.c:619-620, 727).                                          *)
RingAccount ==
  /\ TxQueued < TX_DESC_COUNT
  /\ TxQueued = Outstanding + (IF gs = "recycled" THEN 1 ELSE 0)

(* While DMA runs, the buffer of every outstanding frame is mapped, so that  *)
(* ASSERT (TxBuffersMap[DescIndex] != NULL) holds and no buffer is unmapped  *)
(* under the engine (SimpleNetwork.c:614).                                  *)
OutstandingMapped ==
  dma => \A i \in 1 .. Outstanding : TxBuffersMap[Slot(i)]

(* The engine stores frames only in mapped buffers, and it owns every        *)
(* descriptor but those with a frame not yet received                        *)
(* (EqosUtil.c:600-624).                                                    *)
RxOwnedMapped ==
  dma => \A i \in RxIndex : rxOwn[i] => RxBuffersMap[i]

(* Receive and the engine stay in step: the frame Receive looks at is the    *)
(* one after the last it was done with, whatever mappings failed.           *)
RxInStep ==
  dma => IF rxOwn[RxCurrent] THEN taken = arrived
         ELSE rxFrame[RxCurrent] = taken + 1

(* No frame is returned twice, or before an earlier one *)
RxInOrder == [][delivered' # delivered => delivered' > delivered]_delivered

\* The buffers lent to the driver, as the abstract queue sees them
LentFrames ==
  [i \in 1 .. Outstanding |->
     [buf |-> TxBuffers[Slot(i)], sent |-> ~txOwn[Slot(i)]]]

Queue == INSTANCE SnpQueue WITH
  Capacity <- TX_DESC_COUNT - 1, lent <- LentFrames

(* The transmit ring is a queue of the buffers lent to the driver: each comes *)
(* back once, in order, and only after it was sent.                          *)
RingIsQueue == Queue!Spec

(* A client that goes on polling gets the buffer of every descriptor back, or  *)
(* a restart forgets it, for as long as DMA runs and unless some restart has  *)
(* dropped a frame that the engine still owns: what the engine makes of that  *)
(* descriptor later is up to the hardware (SimpleNetwork.c:602-623).          *)
Lent(n) == \E i \in 1 .. Outstanding : Slot(i) = n
NoneDropped == \A n \in TxIndex : txOwn[n] => Lent(n)
TxComesBack ==
  []NoneDropped => \A n \in TxIndex : Lent(n) ~> (~Lent(n) \/ ~dma)

(* ASSERT (Eqos->TxBuffersMap[DescIndex] != NULL), SimpleNetwork.c:614: the   *)
(* buffer that GetStatus is about to give back is mapped.                   *)
RecycleFindsMapping ==
  /\ gs = "checked" => TxBuffersMap[gsIndex]
  /\ State = "initialized" /\ Recyclable => TxBuffersMap[TxCurrent]
=============================================================================
