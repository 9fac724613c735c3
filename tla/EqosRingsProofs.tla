-------------------------- MODULE EqosRingsProofs --------------------------
(* Theorems about EqosRings, for rings of every length and every set of     *)
(* buffers.                                                                 *)
EXTENDS EqosRings, SequenceTheorems, TLAPS

(* What the remainder is below twice the modulus. *)
LEMMA ModBelow ==
  ASSUME NEW n \in Nat, NEW a \in Nat, a < n
  PROVE  a % n = a
  OBVIOUS

(* What it is from the modulus up to twice the modulus. *)
LEMMA ModOnce ==
  ASSUME NEW n \in Nat, NEW a \in Nat, n > 0, n <= a, a < n + n
  PROVE  a % n = a - n
  OBVIOUS

(* The starting points of the indices are indices. *)
LEMMA ZeroIsIndex == 0 \in TxIndex /\ 0 \in RxIndex /\ 0 \in 0 .. U32Max
  BY CountAssumption DEF TxIndex, RxIndex

(* The successors of a descriptor. *)
LEMMA TxNextOf ==
  ASSUME NEW n \in TxIndex
  PROVE  /\ EQOS_TX_NEXT(n) \in TxIndex
         /\ EQOS_TX_NEXT(n) = IF n = TX_DESC_COUNT - 1 THEN 0 ELSE n + 1
<1>1. TX_DESC_COUNT \in Nat /\ TX_DESC_COUNT > 0 /\ n \in Nat /\ n < TX_DESC_COUNT
  BY CountAssumption DEF TxIndex
<1>2. CASE n + 1 < TX_DESC_COUNT
  BY <1>1, <1>2, ModBelow DEF EQOS_TX_NEXT, TxIndex
<1>3. CASE n + 1 = TX_DESC_COUNT
  <2>1. (n + 1) % TX_DESC_COUNT = (n + 1) - TX_DESC_COUNT
    BY <1>1, <1>3, ModOnce
  <2> QED
    BY <1>1, <1>3, <2>1 DEF EQOS_TX_NEXT, TxIndex
<1>4. n + 1 < TX_DESC_COUNT \/ n + 1 = TX_DESC_COUNT
  BY <1>1
<1> QED
  BY <1>2, <1>3, <1>4

(* The same for the receive ring. *)
LEMMA RxNextOf ==
  ASSUME NEW n \in RxIndex
  PROVE  /\ EQOS_RX_NEXT(n) \in RxIndex
         /\ EQOS_RX_NEXT(n) = IF n = RX_DESC_COUNT - 1 THEN 0 ELSE n + 1
<1>1. RX_DESC_COUNT \in Nat /\ RX_DESC_COUNT > 0 /\ n \in Nat /\ n < RX_DESC_COUNT
  BY CountAssumption DEF RxIndex
<1>2. CASE n + 1 < RX_DESC_COUNT
  BY <1>1, <1>2, ModBelow DEF EQOS_RX_NEXT, RxIndex
<1>3. CASE n + 1 = RX_DESC_COUNT
  <2>1. (n + 1) % RX_DESC_COUNT = (n + 1) - RX_DESC_COUNT
    BY <1>1, <1>3, ModOnce
  <2> QED
    BY <1>1, <1>3, <2>1 DEF EQOS_RX_NEXT, RxIndex
<1>4. n + 1 < RX_DESC_COUNT \/ n + 1 = RX_DESC_COUNT
  BY <1>1
<1> QED
  BY <1>2, <1>3, <1>4

(* The way around the transmit ring from descriptor c to descriptor a. *)
LEMMA Distance ==
  ASSUME NEW a \in TxIndex, NEW c \in TxIndex
  PROVE  (a + TX_DESC_COUNT - c) % TX_DESC_COUNT
           = IF a >= c THEN a - c ELSE a + TX_DESC_COUNT - c
<1>1. /\ TX_DESC_COUNT \in Nat /\ TX_DESC_COUNT > 0
      /\ a \in Nat /\ a < TX_DESC_COUNT
      /\ c \in Nat /\ c < TX_DESC_COUNT
  BY CountAssumption DEF TxIndex
<1> DEFINE d == a + TX_DESC_COUNT - c
<1>2. d \in Nat /\ d < TX_DESC_COUNT + TX_DESC_COUNT
  BY <1>1
<1>3. CASE a >= c
  <2>1. d % TX_DESC_COUNT = d - TX_DESC_COUNT
    BY <1>1, <1>2, <1>3, ModOnce
  <2> QED
    BY <1>1, <1>3, <2>1
<1>4. CASE ~(a >= c)
  <2>1. d % TX_DESC_COUNT = d
    BY <1>1, <1>2, <1>4, ModBelow
  <2> QED
    BY <1>1, <1>4, <2>1
<1> QED
  BY <1>3, <1>4

(* One descriptor more in use, up to one short of the ring. *)
LEMMA OneMore ==
  ASSUME TxNext \in TxIndex, TxCurrent \in TxIndex, Outstanding < TX_DESC_COUNT - 1,
         TxNext' = EQOS_TX_NEXT(TxNext), TxCurrent' = TxCurrent
  PROVE  Outstanding' = Outstanding + 1
<1>1. TX_DESC_COUNT \in Nat /\ TX_DESC_COUNT > 1
  BY CountAssumption
<1>2. /\ TxNext' \in TxIndex
      /\ TxNext' = IF TxNext = TX_DESC_COUNT - 1 THEN 0 ELSE TxNext + 1
  BY TxNextOf
<1>3. Outstanding = IF TxNext >= TxCurrent THEN TxNext - TxCurrent
                    ELSE TxNext + TX_DESC_COUNT - TxCurrent
  BY Distance DEF Outstanding
<1>4. Outstanding' = IF TxNext' >= TxCurrent THEN TxNext' - TxCurrent
                     ELSE TxNext' + TX_DESC_COUNT - TxCurrent
  BY <1>2, Distance DEF Outstanding
<1> QED
  BY <1>1, <1>2, <1>3, <1>4 DEF TxIndex

(* One descriptor less, if there is one. *)
LEMMA OneLess ==
  ASSUME TxNext \in TxIndex, TxCurrent \in TxIndex, Outstanding > 0,
         TxCurrent' = EQOS_TX_NEXT(TxCurrent), TxNext' = TxNext
  PROVE  Outstanding' = Outstanding - 1
<1>1. TX_DESC_COUNT \in Nat /\ TX_DESC_COUNT > 1
  BY CountAssumption
<1>2. /\ TxCurrent' \in TxIndex
      /\ TxCurrent' = IF TxCurrent = TX_DESC_COUNT - 1 THEN 0 ELSE TxCurrent + 1
  BY TxNextOf
<1>3. Outstanding = IF TxNext >= TxCurrent THEN TxNext - TxCurrent
                    ELSE TxNext + TX_DESC_COUNT - TxCurrent
  BY Distance DEF Outstanding
<1>4. Outstanding' = IF TxNext >= TxCurrent' THEN TxNext - TxCurrent'
                     ELSE TxNext + TX_DESC_COUNT - TxCurrent'
  BY <1>2, Distance DEF Outstanding
<1> QED
  BY <1>1, <1>2, <1>3, <1>4 DEF TxIndex

(* The ring is empty when both indices are 0. *)
LEMMA NoneOutstanding ==
  ASSUME TxNext' = 0, TxCurrent' = 0
  PROVE  Outstanding' = 0
  BY ZeroIsIndex, Distance DEF Outstanding

(* Fewer frames are outstanding than the ring has descriptors. *)
LEMMA OutstandingFits ==
  ASSUME TxNext \in TxIndex, TxCurrent \in TxIndex
  PROVE  Outstanding \in Nat /\ Outstanding < TX_DESC_COUNT
<1>1. Outstanding = IF TxNext >= TxCurrent THEN TxNext - TxCurrent
                    ELSE TxNext + TX_DESC_COUNT - TxCurrent
  BY Distance DEF Outstanding
<1> QED
  BY <1>1, CountAssumption DEF TxIndex

(* Counting a descriptor more or less stays within 32 bits. *)
LEMMA CountsFit ==
  ASSUME NEW n \in 0 .. U32Max
  PROVE  (n + 1) % (U32Max + 1) \in 0 .. U32Max /\ Decremented(n) \in 0 .. U32Max
<1>1. U32Max \in Nat /\ n \in Nat /\ n <= U32Max
  BY CountAssumption
<1>2. Decremented(n) \in 0 .. U32Max
  BY <1>1 DEF Decremented
<1>3. CASE n + 1 < U32Max + 1
  BY <1>1, <1>2, <1>3, ModBelow
<1>4. CASE n + 1 = U32Max + 1
  <2>1. (n + 1) % (U32Max + 1) = (n + 1) - (U32Max + 1)
    BY <1>1, <1>4, ModOnce
  <2> QED
    BY <1>1, <1>2, <1>4, <2>1
<1>5. n + 1 < U32Max + 1 \/ n + 1 = U32Max + 1
  BY <1>1
<1> QED
  BY <1>3, <1>4, <1>5

(* The same value all around a ring is a function on its indices. *)
LEMMA AllTyped ==
  /\ AllTx(NoBuffer) \in [TxIndex -> Buffers \union {NoBuffer}]
  /\ AllTx(FALSE) \in [TxIndex -> BOOLEAN]
  /\ AllRx(FALSE) \in [RxIndex -> BOOLEAN] /\ AllRx(TRUE) \in [RxIndex -> BOOLEAN]
  /\ AllRx(0) \in [RxIndex -> Nat]
  BY DEF AllTx, AllRx

(* The driver starts well typed. *)
LEMMA TypeInit == Init => TypeOK
<1> SUFFICES ASSUME Init PROVE TypeOK
  OBVIOUS
<1>1. /\ TxNext \in TxIndex /\ TxCurrent \in TxIndex /\ TxQueued \in 0 .. U32Max
      /\ RxCurrent \in RxIndex /\ hwTx \in TxIndex /\ hwRx \in RxIndex
      /\ gsIndex \in TxIndex /\ gsQueued \in 0 .. U32Max
  BY ZeroIsIndex DEF Init
<1>2. /\ TxBuffers \in [TxIndex -> Buffers \union {NoBuffer}]
      /\ TxBuffersMap \in [TxIndex -> BOOLEAN] /\ txOwn \in [TxIndex -> BOOLEAN]
      /\ RxBuffersMap \in [RxIndex -> BOOLEAN] /\ rxOwn \in [RxIndex -> BOOLEAN]
      /\ rxFrame \in [RxIndex -> Nat] /\ rxBad \in [RxIndex -> BOOLEAN]
  BY AllTyped DEF Init
<1>3. /\ arrived \in Nat /\ taken \in Nat /\ delivered \in Nat
      /\ dma \in BOOLEAN /\ gs \in {"idle", "checked", "recycled"}
      /\ State \in {"absent", "stopped", "started", "initialized", "exited"}
      /\ TxBuf \in Buffers \union {NoBuffer}
  BY DEF Init
<1> QED
  BY <1>1, <1>2, <1>3 DEF TypeOK

(* Starting DMA, or failing to, leaves the state well typed. *)
LEMMA TypeStart ==
  ASSUME TypeOK, EqosStart \/ EqosStartFails
  PROVE  /\ TxNext' \in TxIndex /\ TxCurrent' \in TxIndex /\ TxQueued' \in 0 .. U32Max
         /\ RxCurrent' \in RxIndex /\ RxBuffersMap' \in [RxIndex -> BOOLEAN]
         /\ rxOwn' \in [RxIndex -> BOOLEAN]
         /\ dma' \in BOOLEAN /\ hwTx' \in TxIndex /\ hwRx' \in RxIndex /\ taken' \in Nat
<1>1. CASE EqosStart
  BY <1>1, ZeroIsIndex DEF EqosStart, EqosDmaInitDescriptorRings, AllRx, TypeOK
<1>2. CASE EqosStartFails
  BY <1>2 DEF EqosStartFails, AllRx, TypeOK, RxIndex
<1> QED
  BY <1>1, <1>2

(* Every step keeps the state well typed. *)
LEMMA TypeNext == TypeOK /\ [Next]_vars => TypeOK'
<1> SUFFICES ASSUME TypeOK, [Next]_vars PROVE TypeOK'
  OBVIOUS
<1>1. CASE EqosDriverBindingStart \/ EqosDriverBindingStop
  BY <1>1, ZeroIsIndex, AllTyped DEF EqosDriverBindingStart, EqosDriverBindingStop,
     ZeroRings, TypeOK, hw, call
<1>2. CASE EqosSnpStart \/ EqosSnpStop \/ EqosNotifyExitBootServices
  BY <1>2 DEF EqosSnpStart, EqosSnpStop, EqosNotifyExitBootServices, TypeOK,
     txRing, rxRing, hw, call
<1>3. CASE EqosSnpInitialize
  BY <1>3, TypeStart DEF EqosSnpInitialize, TypeOK, call
<1>4. CASE EqosSnpReset
  BY <1>4, TypeStart DEF EqosSnpReset, TypeOK, call, AllTx
<1>5. CASE EqosSnpShutdown
  BY <1>5 DEF EqosSnpShutdown, EqosStop, TypeOK, call, AllTx, AllRx
<1>6. ASSUME NEW b \in Buffers, EqosSnpTransmit(b) PROVE TypeOK'
  <2>1. EQOS_TX_NEXT(TxNext) \in TxIndex /\ (TxQueued + 1) % (U32Max + 1) \in 0 .. U32Max
    BY TxNextOf, CountsFit DEF TypeOK
  <2> QED
    BY <1>6, <2>1 DEF EqosSnpTransmit, TypeOK, rxRing, hw, call
<1>7. CASE EqosSnpGetStatus
  <2>1. EQOS_TX_NEXT(TxCurrent) \in TxIndex /\ Decremented(TxQueued) \in 0 .. U32Max
    BY TxNextOf, CountsFit DEF TypeOK
  <2> QED
    BY <1>7, <2>1 DEF EqosSnpGetStatus, TypeOK, rxRing, hw, call
<1>8. CASE GetStatusCheck
  BY <1>8 DEF GetStatusCheck, TypeOK, txRing, rxRing, hw
<1>9. CASE GetStatusRecycle
  <2>1. EQOS_TX_NEXT(gsIndex) \in TxIndex
    BY TxNextOf DEF TypeOK
  <2> QED
    BY <1>9, <2>1 DEF GetStatusRecycle, TypeOK, rxRing, hw
<1>10. CASE GetStatusEnd
  <2>1. Decremented(gsQueued) \in 0 .. U32Max
    BY CountsFit DEF TypeOK
  <2> QED
    BY <1>10, <2>1, ZeroIsIndex DEF GetStatusEnd, TypeOK, rxRing, hw
<1>11. CASE EqosSnpReceive
  <2>1. EQOS_RX_NEXT(RxCurrent) \in RxIndex
    BY RxNextOf DEF TypeOK
  <2>2. CASE RxReleased
    <3>1. rxFrame[RxCurrent] \in Nat
      BY DEF TypeOK
    <3>2. taken' \in Nat /\ delivered' \in Nat
      BY <2>2, <3>1 DEF RxReleased, TypeOK
    <3> QED
      BY <1>11, <2>1, <2>2, <3>2 DEF EqosSnpReceive, RxReleased, TypeOK, txRing, hw, call
  <2>3. CASE RxKept
    BY <1>11, <2>3 DEF EqosSnpReceive, RxKept, TypeOK, txRing, hw, call
  <2> QED
    BY <1>11, <2>2, <2>3 DEF EqosSnpReceive
<1>12. CASE HwTransmit
  <2>1. EQOS_TX_NEXT(hwTx) \in TxIndex
    BY TxNextOf DEF TypeOK
  <2> QED
    BY <1>12, <2>1 DEF HwTransmit, TypeOK, rxRing, call
<1>13. ASSUME NEW bad \in BOOLEAN, HwReceive(bad) PROVE TypeOK'
  <2>1. EQOS_RX_NEXT(hwRx) \in RxIndex
    BY RxNextOf DEF TypeOK
  <2> QED
    BY <1>13, <2>1 DEF HwReceive, TypeOK, txRing, call
<1>14. CASE UNCHANGED vars
  BY <1>14 DEF vars, txRing, rxRing, hw, call, TypeOK
<1> QED
  BY <1>1, <1>2, <1>3, <1>4, <1>5, <1>6, <1>7, <1>8, <1>9, <1>10, <1>11, <1>12,
     <1>13, <1>14 DEF Next

(* All states are well typed. *)
THEOREM TypeCorrect == Spec => []TypeOK
  BY TypeInit, TypeNext, PTL DEF Spec

-----------------------------------------------------------------------------
(* What makes RingAccount inductive: a GetStatus in progress keeps every other *)
(* call out, so what it read still holds; and DMA runs only while the        *)
(* interface is initialized.                                                *)
RingInv ==
  /\ RingAccount
  /\ dma \/ gs # "idle" => State = "initialized"
  /\ gs = "checked" => gsIndex = TxCurrent /\ TxQueued > 0
  /\ gs = "recycled" => gsQueued = TxQueued /\ TxQueued > 0

(* The ring starts empty. *)
LEMMA RingInit == Init => RingInv
<1> SUFFICES ASSUME Init PROVE RingInv
  OBVIOUS
<1>1. Outstanding = 0
  BY ZeroIsIndex, Distance DEF Init, Outstanding
<1> QED
  BY <1>1, CountAssumption DEF Init, RingInv, RingAccount

(* One frame more or less, in the terms of TxQueued. *)
LEMMA CountMore ==
  ASSUME NEW n \in Nat, n < TX_DESC_COUNT - 1
  PROVE  (n + 1) % (U32Max + 1) = n + 1
<1>1. U32Max \in Nat /\ U32Max >= TX_DESC_COUNT /\ TX_DESC_COUNT \in Nat
  BY CountAssumption
<1>2. n + 1 \in Nat /\ U32Max + 1 \in Nat /\ n + 1 < U32Max + 1
  BY <1>1
<1> QED
  BY <1>2, ModBelow

(* A transmitted frame is counted once. *)
LEMMA RingTransmit ==
  ASSUME ~Preempt, TypeOK, RingInv, NEW b \in Buffers, EqosSnpTransmit(b)
  PROVE  RingInv'
<1>1. /\ TX_DESC_COUNT \in Nat /\ TxQueued \in Nat /\ gs = "idle" /\ gs' = gs
      /\ TxNext \in TxIndex /\ TxCurrent \in TxIndex /\ TxCurrent' = TxCurrent
      /\ UNCHANGED <<State, dma>>
  BY CountAssumption DEF EqosSnpTransmit, Callable, Idle, TypeOK, call, hw
<1> Outstanding \in Nat
  BY <1>1, OutstandingFits
<1>2. TxQueued = Outstanding /\ TxQueued < TX_DESC_COUNT - 1
  BY <1>1 DEF EqosSnpTransmit, RingFull, RingInv, RingAccount
<1>3. CASE TxNext' = TxNext /\ TxQueued' = TxQueued
  BY <1>1, <1>2, <1>3 DEF RingInv, RingAccount, Outstanding
<1>4. CASE TxNext' = EQOS_TX_NEXT(TxNext) /\ TxQueued' = (TxQueued + 1) % (U32Max + 1)
  <2>1. Outstanding' = Outstanding + 1
    BY <1>1, <1>2, <1>4, OneMore
  <2>2. TxQueued' = TxQueued + 1
    BY <1>1, <1>2, <1>4, CountMore
  <2> QED
    BY <1>1, <1>2, <2>1, <2>2 DEF RingInv, RingAccount
<1> QED
  BY <1>3, <1>4 DEF EqosSnpTransmit

(* A GetStatus that nothing interrupts discounts the frame it gives back. *)
LEMMA RingGetStatus ==
  ASSUME ~Preempt, TypeOK, RingInv,
         EqosSnpGetStatus \/ GetStatusCheck \/ GetStatusRecycle \/ GetStatusEnd
  PROVE  RingInv'
<1>1. /\ TX_DESC_COUNT \in Nat /\ TxQueued \in Nat /\ gsQueued \in Nat
      /\ TxNext \in TxIndex /\ TxCurrent \in TxIndex /\ TxNext' = TxNext
  BY CountAssumption DEF TypeOK, EqosSnpGetStatus, GetStatusCheck, GetStatusRecycle,
     GetStatusEnd, txRing
<1> Outstanding \in Nat
  BY <1>1, OutstandingFits
<1>2. CASE EqosSnpGetStatus
  <2>1. /\ gs = "idle" /\ gs' = gs /\ UNCHANGED <<State, dma>> /\ TxQueued > 0
        /\ TxQueued = Outstanding
    BY <1>1, <1>2 DEF EqosSnpGetStatus, Callable, Idle, Recyclable, RingInv, RingAccount,
       call, hw
  <2>2. Outstanding' = Outstanding - 1
    BY <1>1, <1>2, <2>1, OneLess DEF EqosSnpGetStatus
  <2>3. TxQueued' = TxQueued - 1
    BY <1>1, <1>2, <2>1 DEF EqosSnpGetStatus, Decremented
  <2> QED
    BY <1>1, <2>1, <2>2, <2>3 DEF RingInv, RingAccount
<1>3. CASE GetStatusCheck
  BY <1>1, <1>3 DEF GetStatusCheck, Idle, Recyclable, RingInv, RingAccount, Outstanding,
     txRing, hw
<1>4. CASE GetStatusRecycle
  <2>1. /\ gs = "checked" /\ gs' = "recycled" /\ UNCHANGED <<State, dma, TxQueued>>
        /\ TxQueued > 0 /\ TxQueued = Outstanding /\ gsQueued' = TxQueued
        /\ State = "initialized"
    BY <1>1, <1>4 DEF GetStatusRecycle, RingInv, RingAccount, hw
  <2>2. Outstanding' = Outstanding - 1
    BY <1>1, <1>4, <2>1, OneLess DEF GetStatusRecycle, RingInv
  <2> QED
    BY <1>1, <2>1, <2>2 DEF RingInv, RingAccount
<1>5. CASE GetStatusEnd
  <2>1. /\ gs = "recycled" /\ gs' = "idle" /\ UNCHANGED <<State, dma>>
        /\ TxQueued > 0 /\ TxQueued = Outstanding + 1 /\ gsQueued = TxQueued
        /\ Outstanding' = Outstanding
    BY <1>1, <1>5 DEF GetStatusEnd, RingInv, RingAccount, hw, Outstanding
  <2>2. TxQueued' = TxQueued - 1
    BY <1>1, <1>5, <2>1 DEF GetStatusEnd, Decremented
  <2> QED
    BY <1>1, <2>1, <2>2 DEF RingInv, RingAccount
<1> QED
  BY <1>2, <1>3, <1>4, <1>5

(* Every step of clients that do not interrupt each other keeps RingInv. *)
LEMMA RingNext == ~Preempt /\ TypeOK /\ RingInv /\ [Next]_vars => RingInv'
<1> SUFFICES ASSUME ~Preempt, TypeOK, RingInv, [Next]_vars PROVE RingInv'
  OBVIOUS
<1>1. CASE EqosDriverBindingStart \/ EqosDriverBindingStop
  <2>1. Outstanding' = 0
    BY <1>1, NoneOutstanding DEF EqosDriverBindingStart, EqosDriverBindingStop, ZeroRings
  <2>2. gs = "idle" /\ gs' = "idle" /\ dma' = FALSE /\ TxQueued' = 0
    BY <1>1 DEF EqosDriverBindingStart, EqosDriverBindingStop, ZeroRings, RingInv, TypeOK,
       call, hw, Idle
  <2> QED
    BY <2>1, <2>2, CountAssumption DEF RingInv, RingAccount
<1>2. CASE EqosSnpStart \/ EqosSnpStop \/ EqosNotifyExitBootServices
  <2>1. UNCHANGED <<TxNext, TxCurrent, TxQueued, gs>> /\ gs = "idle" /\ dma' = FALSE
    BY <1>2 DEF EqosSnpStart, EqosSnpStop, EqosNotifyExitBootServices, RingInv, TypeOK,
       txRing, hw, call, Idle
  <2> QED
    BY <2>1 DEF RingInv, RingAccount, Outstanding
<1>3. CASE EqosSnpInitialize \/ EqosSnpReset
  <2>1. gs = "idle" /\ gs' = "idle"
    BY <1>3 DEF EqosSnpInitialize, EqosSnpReset, RingInv, TypeOK, call, Idle
  <2>2. CASE EqosStart
    <3>1. Outstanding' = 0 /\ TxQueued' = 0
      BY <2>2, NoneOutstanding DEF EqosStart, EqosDmaInitDescriptorRings
    <3>2. State' = "initialized"
      BY <1>3, <2>2 DEF EqosSnpInitialize, EqosSnpReset, EqosStart, EqosStartFails
    <3> QED
      BY <2>1, <3>1, <3>2, CountAssumption DEF RingInv, RingAccount
  <2>3. CASE EqosStartFails
    BY <2>1, <2>3 DEF EqosStartFails, RingInv, RingAccount, Outstanding
  <2> QED
    BY <1>3, <2>2, <2>3 DEF EqosSnpInitialize, EqosSnpReset
<1>4. CASE EqosSnpShutdown
  BY <1>4 DEF EqosSnpShutdown, EqosStop, Idle, RingInv, RingAccount, Outstanding, call
<1>5. ASSUME NEW b \in Buffers, EqosSnpTransmit(b) PROVE RingInv'
  BY <1>5, RingTransmit
<1>6. CASE EqosSnpGetStatus \/ GetStatusCheck \/ GetStatusRecycle \/ GetStatusEnd
  BY <1>6, RingGetStatus
<1>7. CASE EqosSnpReceive
  BY <1>7 DEF EqosSnpReceive, RingInv, RingAccount, Outstanding, txRing, hw, call
<1>8. CASE HwTransmit
  BY <1>8 DEF HwTransmit, RingInv, RingAccount, Outstanding, call
<1>9. ASSUME NEW bad \in BOOLEAN, HwReceive(bad) PROVE RingInv'
  BY <1>9 DEF HwReceive, RingInv, RingAccount, Outstanding, txRing, call
<1>10. CASE UNCHANGED vars
  BY <1>10 DEF vars, txRing, hw, call, RingInv, RingAccount, Outstanding
<1> QED
  BY <1>1, <1>2, <1>3, <1>4, <1>5, <1>6, <1>7, <1>8, <1>9, <1>10 DEF Next

(* Of clients that do not interrupt each other, TxQueued counts the frames    *)
(* between TxCurrent and TxNext, and the ring is never filled up.            *)
THEOREM RingAccounted == ASSUME ~Preempt PROVE Spec => []RingAccount
<1>1. Init => TypeOK /\ RingInv
  BY TypeInit, RingInit
<1>2. TypeOK /\ RingInv /\ [Next]_vars => (TypeOK /\ RingInv)'
  BY TypeNext, RingNext
<1>3. TypeOK /\ RingInv => RingAccount
  BY DEF RingInv
<1> QED
  BY <1>1, <1>2, <1>3, PTL DEF Spec

-----------------------------------------------------------------------------
(* The descriptors from TxCurrent up to TxNext, without counting them. *)
Held(n) ==
  IF TxCurrent <= TxNext THEN TxCurrent <= n /\ n < TxNext
  ELSE TxCurrent <= n \/ n < TxNext

MapInv ==
  /\ dma => State = "initialized"
  /\ dma => \A n \in TxIndex : Held(n) => TxBuffersMap[n]

(* Each outstanding frame sits in one of these descriptors. *)
LEMMA SlotIsHeld ==
  ASSUME TypeOK, NEW i \in 1 .. Outstanding
  PROVE  Slot(i) \in TxIndex /\ Held(Slot(i))
<1>1. /\ TX_DESC_COUNT \in Nat /\ TX_DESC_COUNT > 0
      /\ TxNext \in Nat /\ TxNext < TX_DESC_COUNT
      /\ TxCurrent \in Nat /\ TxCurrent < TX_DESC_COUNT
      /\ TxNext \in TxIndex /\ TxCurrent \in TxIndex
  BY CountAssumption DEF TypeOK, TxIndex
<1>2. Outstanding = IF TxNext >= TxCurrent THEN TxNext - TxCurrent
                    ELSE TxNext + TX_DESC_COUNT - TxCurrent
  BY <1>1, Distance DEF Outstanding
<1>3. /\ i \in Nat /\ i >= 1 /\ i <= Outstanding
      /\ Outstanding \in Nat /\ Outstanding < TX_DESC_COUNT
  BY <1>1, OutstandingFits
<1> DEFINE s == TxCurrent + i - 1
<1>4. s \in Nat /\ s < TX_DESC_COUNT + TX_DESC_COUNT
  BY <1>1, <1>3
<1>a. Slot(i) = s % TX_DESC_COUNT
  BY DEF Slot
<1>5. CASE s < TX_DESC_COUNT
  <2>1. Slot(i) = s
    BY <1>1, <1>4, <1>a, <1>5, ModBelow
  <2> QED
    BY <1>1, <1>2, <1>3, <1>5, <2>1 DEF Held, TxIndex
<1>6. CASE s >= TX_DESC_COUNT
  <2>1. Slot(i) = s - TX_DESC_COUNT
    BY <1>1, <1>4, <1>a, <1>6, ModOnce
  <2> QED
    BY <1>1, <1>2, <1>3, <1>6, <2>1 DEF Held, TxIndex
<1>7. s < TX_DESC_COUNT \/ s >= TX_DESC_COUNT
  BY <1>1, <1>4
<1> QED
  BY <1>5, <1>6, <1>7

(* So the frames between TxCurrent and TxNext are mapped. *)
LEMMA MapInvMaps == TypeOK /\ MapInv => OutstandingMapped
  BY SlotIsHeld DEF MapInv, OutstandingMapped

(* Transmit maps the one descriptor it adds. *)
LEMMA MapTransmit ==
  ASSUME ~Preempt, TypeOK, RingInv, MapInv, NEW b \in Buffers, EqosSnpTransmit(b)
  PROVE  MapInv'
<1>1. /\ TX_DESC_COUNT \in Nat /\ TxNext \in Nat /\ TxNext < TX_DESC_COUNT
      /\ TxCurrent \in Nat /\ TxCurrent < TX_DESC_COUNT /\ TxNext \in TxIndex
      /\ UNCHANGED <<State, dma, TxCurrent>>
      /\ TxBuffersMap \in [TxIndex -> BOOLEAN]
  BY CountAssumption DEF EqosSnpTransmit, TypeOK, TxIndex, hw
<1>2. CASE TxNext' = TxNext /\ TxBuffersMap' = TxBuffersMap
  BY <1>1, <1>2 DEF MapInv, Held
<1>3. CASE /\ TxNext' = EQOS_TX_NEXT(TxNext)
           /\ TxBuffersMap' = [TxBuffersMap EXCEPT ![TxNext] = TRUE]
  <2>1. TxNext' = IF TxNext = TX_DESC_COUNT - 1 THEN 0 ELSE TxNext + 1
    BY <1>1, <1>3, TxNextOf
  <2>2. ASSUME NEW n \in TxIndex, Held(n)' PROVE Held(n) \/ n = TxNext
    BY <1>1, <2>1, <2>2 DEF Held, TxIndex
  <2>3. ASSUME NEW n \in TxIndex, Held(n)', dma PROVE TxBuffersMap'[n]
    BY <1>1, <1>3, <2>2, <2>3 DEF MapInv
  <2> QED
    BY <1>1, <2>3 DEF MapInv
<1> QED
  BY <1>2, <1>3 DEF EqosSnpTransmit

(* GetStatus unmaps the one descriptor it takes away. *)
LEMMA MapRecycle ==
  ASSUME TypeOK, MapInv, TxQueued > 0, Outstanding > 0,
         TxBuffersMap' = [TxBuffersMap EXCEPT ![TxCurrent] = FALSE],
         TxCurrent' = EQOS_TX_NEXT(TxCurrent),
         UNCHANGED <<State, dma, TxNext>>
  PROVE  MapInv'
<1>1. /\ TX_DESC_COUNT \in Nat /\ TxNext \in Nat /\ TxNext < TX_DESC_COUNT
      /\ TxCurrent \in Nat /\ TxCurrent < TX_DESC_COUNT
      /\ TxNext \in TxIndex /\ TxCurrent \in TxIndex
      /\ TxBuffersMap \in [TxIndex -> BOOLEAN]
  BY CountAssumption DEF TypeOK, TxIndex
<1>2. Outstanding = IF TxNext >= TxCurrent THEN TxNext - TxCurrent
                    ELSE TxNext + TX_DESC_COUNT - TxCurrent
  BY <1>1, Distance DEF Outstanding
<1>3. TxCurrent' = IF TxCurrent = TX_DESC_COUNT - 1 THEN 0 ELSE TxCurrent + 1
  BY <1>1, TxNextOf
<1>4. ASSUME NEW n \in TxIndex, Held(n)' PROVE Held(n) /\ n # TxCurrent
  BY <1>1, <1>2, <1>3, <1>4 DEF Held, TxIndex
<1>5. ASSUME NEW n \in TxIndex, Held(n)', dma PROVE TxBuffersMap'[n]
  BY <1>1, <1>4, <1>5 DEF MapInv
<1> QED
  BY <1>5 DEF MapInv

(* Every step of clients that do not interrupt each other keeps the mappings. *)
LEMMA MapNext == ~Preempt /\ TypeOK /\ RingInv /\ MapInv /\ [Next]_vars => MapInv'
<1> SUFFICES ASSUME ~Preempt, TypeOK, RingInv, MapInv, [Next]_vars PROVE MapInv'
  OBVIOUS
<1> Outstanding \in Nat /\ TxQueued \in Nat
  BY OutstandingFits, CountAssumption DEF TypeOK
<1>1. CASE EqosDriverBindingStart \/ EqosDriverBindingStop
  BY <1>1 DEF EqosDriverBindingStart, EqosDriverBindingStop, MapInv, hw
<1>2. CASE EqosSnpStart \/ EqosSnpStop \/ EqosNotifyExitBootServices
  BY <1>2 DEF EqosSnpStart, EqosSnpStop, EqosNotifyExitBootServices, MapInv, hw
<1>3. CASE EqosSnpInitialize \/ EqosSnpReset
  <2>1. CASE EqosStart
    <3>1. State' = "initialized"
      BY <1>3, <2>1 DEF EqosSnpInitialize, EqosSnpReset, EqosStart, EqosStartFails
    <3>2. TxNext' = 0 /\ TxCurrent' = 0
      BY <2>1 DEF EqosStart, EqosDmaInitDescriptorRings
    <3>3. \A n \in TxIndex : ~Held(n)'
      BY <3>2, CountAssumption DEF Held, TxIndex
    <3> QED
      BY <3>1, <3>3 DEF MapInv
  <2>2. CASE EqosStartFails
    BY <2>2 DEF EqosStartFails, MapInv
  <2> QED
    BY <1>3, <2>1, <2>2 DEF EqosSnpInitialize, EqosSnpReset
<1>4. CASE EqosSnpShutdown
  BY <1>4 DEF EqosSnpShutdown, EqosStop, MapInv
<1>5. ASSUME NEW b \in Buffers, EqosSnpTransmit(b) PROVE MapInv'
  BY <1>5, MapTransmit
<1>6. CASE EqosSnpGetStatus
  <2>1. TxQueued > 0 /\ Outstanding > 0
    BY <1>6 DEF EqosSnpGetStatus, Callable, Idle, Recyclable, RingInv, RingAccount
  <2> QED
    BY <1>6, <2>1, MapRecycle DEF EqosSnpGetStatus, hw
<1>7. CASE GetStatusRecycle
  <2>1. TxQueued > 0 /\ Outstanding > 0 /\ gsIndex = TxCurrent
    BY <1>7 DEF GetStatusRecycle, RingInv, RingAccount
  <2> QED
    BY <1>7, <2>1, MapRecycle DEF GetStatusRecycle, hw
<1>8. CASE GetStatusCheck \/ GetStatusEnd \/ EqosSnpReceive
  BY <1>8 DEF GetStatusCheck, GetStatusEnd, EqosSnpReceive, MapInv, Held, txRing, hw
<1>9. CASE HwTransmit
  BY <1>9 DEF HwTransmit, MapInv, Held
<1>10. ASSUME NEW bad \in BOOLEAN, HwReceive(bad) PROVE MapInv'
  BY <1>10 DEF HwReceive, MapInv, Held, txRing
<1>11. CASE UNCHANGED vars
  BY <1>11 DEF vars, txRing, hw, MapInv, Held
<1> QED
  BY <1>1, <1>2, <1>3, <1>4, <1>5, <1>6, <1>7, <1>8, <1>9, <1>10, <1>11 DEF Next

(* While DMA runs, no frame that was not yet given back loses its mapping. *)
THEOREM OutstandingStayMapped == ASSUME ~Preempt PROVE Spec => []OutstandingMapped
<1>1. Init => TypeOK /\ RingInv /\ MapInv
  BY TypeInit, RingInit DEF Init, MapInv
<1>2. TypeOK /\ RingInv /\ MapInv /\ [Next]_vars => (TypeOK /\ RingInv /\ MapInv)'
  BY TypeNext, RingNext, MapNext
<1>3. TypeOK /\ RingInv /\ MapInv => OutstandingMapped
  BY MapInvMaps
<1> QED
  BY <1>1, <1>2, <1>3, PTL DEF Spec

-----------------------------------------------------------------------------
(* The engine owns mapped descriptors only, and DMA runs only while the      *)
(* interface is initialized.                                                *)
RxMapInv == RxOwnedMapped /\ (dma => State = "initialized")

(* Every step keeps the descriptors of the engine mapped. *)
LEMMA RxMapNext == TypeOK /\ RxMapInv /\ [Next]_vars => RxMapInv'
<1> SUFFICES ASSUME TypeOK, RxMapInv, [Next]_vars PROVE RxMapInv'
  OBVIOUS
<1> USE DEF RxMapInv, RxOwnedMapped
<1>1. CASE EqosDriverBindingStart \/ EqosDriverBindingStop
  BY <1>1 DEF EqosDriverBindingStart, EqosDriverBindingStop, hw
<1>2. CASE EqosSnpStart \/ EqosSnpStop \/ EqosNotifyExitBootServices
  BY <1>2 DEF EqosSnpStart, EqosSnpStop, EqosNotifyExitBootServices, hw
<1>3. CASE EqosSnpInitialize \/ EqosSnpReset
  <2>1. CASE EqosStart
    <3>1. State' = "initialized"
      BY <1>3, <2>1 DEF EqosSnpInitialize, EqosSnpReset, EqosStart, EqosStartFails
    <3> QED
      BY <3>1, <2>1 DEF EqosStart, AllRx
  <2>2. CASE EqosStartFails
    BY <2>2 DEF EqosStartFails
  <2> QED
    BY <1>3, <2>1, <2>2 DEF EqosSnpInitialize, EqosSnpReset
<1>4. CASE EqosSnpShutdown
  BY <1>4 DEF EqosSnpShutdown, EqosStop
<1>5. ASSUME NEW b \in Buffers, EqosSnpTransmit(b) PROVE RxMapInv'
  BY <1>5 DEF EqosSnpTransmit, rxRing, hw
<1>6. CASE EqosSnpGetStatus \/ GetStatusCheck \/ GetStatusRecycle \/ GetStatusEnd
  BY <1>6 DEF EqosSnpGetStatus, GetStatusCheck, GetStatusRecycle, GetStatusEnd, rxRing, hw
<1>7. CASE EqosSnpReceive
  <2>1. ~rxOwn[RxCurrent] /\ UNCHANGED <<State, dma>>
    BY <1>7 DEF EqosSnpReceive, hw
  <2>2. CASE RxReleased
    BY <2>1, <2>2 DEF RxReleased, TypeOK
  <2>3. CASE RxKept
    BY <2>1, <2>3 DEF RxKept, TypeOK
  <2> QED
    BY <1>7, <2>2, <2>3 DEF EqosSnpReceive
<1>8. CASE HwTransmit
  BY <1>8 DEF HwTransmit, rxRing
<1>9. ASSUME NEW bad \in BOOLEAN, HwReceive(bad) PROVE RxMapInv'
  BY <1>9 DEF HwReceive, TypeOK
<1>10. CASE UNCHANGED vars
  BY <1>10 DEF vars, rxRing, hw
<1> QED
  BY <1>1, <1>2, <1>3, <1>4, <1>5, <1>6, <1>7, <1>8, <1>9, <1>10 DEF Next

(* The engine never stores a frame in a buffer that is not mapped, even when  *)
(* clients interrupt each other.                                            *)
THEOREM OwnedAreMapped == Spec => []RxOwnedMapped
<1>1. Init => TypeOK /\ RxMapInv
  BY TypeInit DEF Init, RxMapInv, RxOwnedMapped
<1>2. TypeOK /\ RxMapInv /\ [Next]_vars => (TypeOK /\ RxMapInv)'
  BY TypeNext, RxMapNext
<1>3. RxMapInv => RxOwnedMapped
  BY DEF RxMapInv
<1> QED
  BY <1>1, <1>2, <1>3, PTL DEF Spec

-----------------------------------------------------------------------------
(* How far descriptor i is ahead of the one Receive looks at. *)
Ahead(i) == IF RxCurrent <= i THEN i - RxCurrent ELSE i + RX_DESC_COUNT - RxCurrent

(* What keeps Receive and the engine in step.  Frames are numbered as they   *)
(* arrive; those not yet received lie in the descriptors from RxCurrent on,  *)
(* in order, and the engine is at the first descriptor behind them.  The     *)
(* part about the engine holds while DMA runs, the one about the descriptors *)
(* also after a Reset that failed.                                          *)
RxInv ==
  /\ delivered <= taken /\ taken <= arrived
  /\ \A i \in RxIndex : rxFrame[i] <= arrived
  /\ State = "initialized" =>
       \A i \in RxIndex : ~rxOwn[i] => rxFrame[i] = taken + 1 + Ahead(i)
  /\ dma =>
       /\ State = "initialized"
       /\ \/ arrived = taken + Ahead(hwRx)
          \/ hwRx = RxCurrent /\ arrived = taken + RX_DESC_COUNT
       /\ \A i \in RxIndex : rxOwn[i] <=> taken + Ahead(i) >= arrived

(* The frame that Receive looks at is the next one. *)
LEMMA RxInvInStep == TypeOK /\ RxInv => RxInStep
<1> SUFFICES ASSUME TypeOK, RxInv, dma
             PROVE  IF rxOwn[RxCurrent] THEN taken = arrived
                    ELSE rxFrame[RxCurrent] = taken + 1
  BY DEF RxInStep
<1>1. RxCurrent \in RxIndex /\ RxCurrent \in Nat /\ Ahead(RxCurrent) = 0
  BY CountAssumption DEF TypeOK, RxIndex, Ahead
<1>2. taken \in Nat /\ arrived \in Nat /\ taken <= arrived
  BY DEF TypeOK, RxInv
<1>3. rxOwn[RxCurrent] => taken >= arrived
  BY <1>1, <1>2 DEF RxInv
<1>4. ~rxOwn[RxCurrent] => rxFrame[RxCurrent] = taken + 1
  BY <1>1, <1>2 DEF RxInv
<1> QED
  BY <1>2, <1>3, <1>4

(* Initialize and Reset discard what was not received. *)
LEMMA RxStart ==
  ASSUME TypeOK, RxInv, EqosStart, State' = "initialized",
         UNCHANGED <<rxFrame, arrived, delivered>>
  PROVE  RxInv'
<1>1. /\ RX_DESC_COUNT \in Nat /\ taken' = arrived /\ RxCurrent' = 0 /\ hwRx' = 0
      /\ \A i \in RxIndex : rxOwn'[i] /\ i \in Nat
      /\ taken \in Nat /\ delivered \in Nat /\ arrived \in Nat
  BY CountAssumption DEF EqosStart, EqosDmaInitDescriptorRings, AllRx, TypeOK, RxIndex
<1>2. \A i \in RxIndex : Ahead(i)' = i
  BY <1>1 DEF Ahead
<1>3. Ahead(hwRx)' = 0
  BY <1>1 DEF Ahead
<1> QED
  BY <1>1, <1>2, <1>3 DEF RxInv

(* A start that fails takes descriptors away from Receive, no more. *)
LEMMA RxStartFails ==
  ASSUME TypeOK, RxInv, EqosStartFails, UNCHANGED <<State, rxFrame, arrived, delivered>>
  PROVE  RxInv'
<1>1. \A i \in RxIndex : ~rxOwn'[i] => ~rxOwn[i]
  BY DEF EqosStartFails
<1> QED
  BY <1>1 DEF EqosStartFails, RxInv, Ahead

(* Receive moves to the next frame. *)
LEMMA RxReceive ==
  ASSUME TypeOK, RxInv, EqosSnpReceive
  PROVE  RxInv' /\ (delivered' # delivered => delivered' > delivered)
<1>1. /\ RX_DESC_COUNT \in Nat /\ RX_DESC_COUNT > 0
      /\ RxCurrent \in RxIndex /\ RxCurrent \in Nat /\ RxCurrent < RX_DESC_COUNT
      /\ taken \in Nat /\ arrived \in Nat /\ delivered \in Nat
      /\ hwRx \in RxIndex /\ rxOwn \in [RxIndex -> BOOLEAN]
      /\ State = "initialized" /\ ~rxOwn[RxCurrent]
      /\ UNCHANGED <<State, rxFrame, dma, hwRx, arrived>>
  BY CountAssumption DEF EqosSnpReceive, Callable, TypeOK, RxIndex, hw
<1>2. CASE RxKept
  BY <1>1, <1>2 DEF RxKept, RxInv, Ahead
<1>3. CASE RxReleased
  <2>1. Ahead(RxCurrent) = 0
    BY <1>1 DEF Ahead
  <2>2. rxFrame[RxCurrent] = taken + 1 /\ taken' = taken + 1
    BY <1>1, <1>3, <2>1 DEF RxReleased, RxInv
  <2>3. taken' <= arrived
    BY <1>1, <2>2 DEF RxInv
  <2>4. delivered' \in {delivered, taken + 1} /\ delivered <= taken
    BY <1>3, <2>2 DEF RxReleased, RxInv
  <2>5. RxCurrent' = IF RxCurrent = RX_DESC_COUNT - 1 THEN 0 ELSE RxCurrent + 1
    BY <1>1, <1>3, RxNextOf DEF RxReleased
  <2>6. ASSUME NEW i \in RxIndex
        PROVE  Ahead(i)' = IF i = RxCurrent THEN RX_DESC_COUNT - 1 ELSE Ahead(i) - 1
    BY <1>1, <2>5 DEF Ahead, RxIndex
  <2>7. \A i \in RxIndex : Ahead(i) \in Nat /\ Ahead(i) < RX_DESC_COUNT
    BY <1>1 DEF Ahead, RxIndex
  <2>8. ASSUME NEW i \in RxIndex, ~rxOwn'[i]
        PROVE  rxFrame'[i] = taken' + 1 + Ahead(i)'
    <3>1. i # RxCurrent /\ ~rxOwn[i]
      BY <1>1, <1>3, <2>8 DEF RxReleased
    <3> QED
      BY <1>1, <2>2, <2>6, <2>7, <3>1 DEF RxInv
  <2>9. ASSUME dma
        PROVE  /\ \/ arrived = taken' + Ahead(hwRx)'
                  \/ hwRx = RxCurrent' /\ arrived = taken' + RX_DESC_COUNT
               /\ \A i \in RxIndex : rxOwn'[i] <=> taken' + Ahead(i)' >= arrived
    <3>1. arrived <= taken + RX_DESC_COUNT /\ taken < arrived
      BY <1>1, <2>1, <2>7, <2>9 DEF RxInv
    <3>2. arrived = taken' + Ahead(hwRx)'
      BY <1>1, <2>1, <2>2, <2>6, <2>7, <2>9, <3>1 DEF RxInv
    <3>3. ASSUME NEW i \in RxIndex
          PROVE  rxOwn'[i] <=> taken' + Ahead(i)' >= arrived
      <4>1. CASE i = RxCurrent
        BY <1>1, <1>3, <2>2, <2>6, <3>1, <4>1 DEF RxReleased
      <4>2. CASE i # RxCurrent
        <5>1. rxOwn'[i] <=> rxOwn[i]
          BY <1>1, <1>3, <4>2 DEF RxReleased
        <5>2. Ahead(i)' = Ahead(i) - 1 /\ Ahead(i) \in Nat
          BY <2>6, <2>7, <4>2
        <5>3. taken' + Ahead(i)' = taken + Ahead(i)
          BY <1>1, <2>2, <5>2
        <5>4. rxOwn[i] <=> taken + Ahead(i) >= arrived
          BY <2>9 DEF RxInv
        <5> QED
          BY <5>1, <5>3, <5>4
      <4> QED
        BY <4>1, <4>2
    <3> QED
      BY <3>2, <3>3
  <2>10. delivered' <= taken' /\ (delivered' # delivered => delivered' > delivered)
    BY <1>1, <2>2, <2>4
  <2>11. \A i \in RxIndex : rxFrame'[i] <= arrived'
    BY <1>1 DEF RxInv
  <2> QED
    BY <1>1, <2>3, <2>8, <2>9, <2>10, <2>11 DEF RxInv
<1> QED
  BY <1>2, <1>3 DEF EqosSnpReceive

(* The engine stores the next frame behind those not yet received. *)
LEMMA RxStore ==
  ASSUME TypeOK, RxInv, NEW bad \in BOOLEAN, HwReceive(bad)
  PROVE  RxInv'
<1>1. /\ RX_DESC_COUNT \in Nat /\ RX_DESC_COUNT > 0
      /\ RxCurrent \in RxIndex /\ RxCurrent \in Nat /\ RxCurrent < RX_DESC_COUNT
      /\ taken \in Nat /\ arrived \in Nat /\ delivered \in Nat
      /\ hwRx \in RxIndex /\ rxOwn \in [RxIndex -> BOOLEAN]
      /\ rxFrame \in [RxIndex -> Nat]
      /\ dma /\ rxOwn[hwRx] /\ arrived' = arrived + 1
      /\ rxOwn' = [rxOwn EXCEPT ![hwRx] = FALSE]
      /\ rxFrame' = [rxFrame EXCEPT ![hwRx] = arrived + 1]
      /\ hwRx' = EQOS_RX_NEXT(hwRx)
      /\ UNCHANGED <<State, RxCurrent, dma, taken, delivered>>
  BY CountAssumption DEF HwReceive, TypeOK, RxIndex
<1>2. \A i \in RxIndex : Ahead(i) \in Nat /\ Ahead(i) < RX_DESC_COUNT /\ Ahead(i)' = Ahead(i)
  BY <1>1 DEF Ahead, RxIndex
<1>3. arrived = taken + Ahead(hwRx)
  <2>1. taken + Ahead(hwRx) >= arrived
    BY <1>1 DEF RxInv
  <2> QED
    BY <1>1, <1>2, <2>1 DEF RxInv
<1>4. \A i \in RxIndex : i # hwRx => Ahead(i) # Ahead(hwRx)
  BY <1>1 DEF Ahead, RxIndex
<1>5. /\ hwRx' \in RxIndex
      /\ hwRx' = IF hwRx = RX_DESC_COUNT - 1 THEN 0 ELSE hwRx + 1
  BY <1>1, RxNextOf
<1>6. \/ Ahead(hwRx)' = Ahead(hwRx) + 1
      \/ hwRx' = RxCurrent /\ Ahead(hwRx) = RX_DESC_COUNT - 1
  BY <1>1, <1>5 DEF Ahead, RxIndex
<1>7. \/ arrived' = taken' + Ahead(hwRx)'
      \/ hwRx' = RxCurrent' /\ arrived' = taken' + RX_DESC_COUNT
  BY <1>1, <1>2, <1>3, <1>6
<1>8. ASSUME NEW i \in RxIndex
      PROVE  rxOwn'[i] <=> taken' + Ahead(i)' >= arrived'
  <2>1. CASE i = hwRx
    BY <1>1, <1>2, <1>3, <2>1
  <2>2. CASE i # hwRx
    <3>1. rxOwn'[i] <=> rxOwn[i]
      BY <1>1, <2>2
    <3>2. rxOwn[i] <=> taken + Ahead(i) >= arrived
      BY <1>1 DEF RxInv
    <3>3. taken + Ahead(i) # arrived
      BY <1>1, <1>2, <1>3, <1>4, <2>2
    <3>4. (taken + Ahead(i) >= arrived) <=> (taken' + Ahead(i)' >= arrived')
      BY <1>1, <1>2, <3>3
    <3> QED
      BY <3>1, <3>2, <3>4
  <2> QED
    BY <2>1, <2>2
<1>9. ASSUME NEW i \in RxIndex, ~rxOwn'[i], State = "initialized"
      PROVE  rxFrame'[i] = taken' + 1 + Ahead(i)'
  BY <1>1, <1>2, <1>3, <1>9 DEF RxInv
<1>10. \A i \in RxIndex : rxFrame'[i] <= arrived'
  BY <1>1 DEF RxInv
<1>11. delivered' <= taken' /\ taken' <= arrived'
  BY <1>1 DEF RxInv
<1>12. dma' => State' = "initialized"
  BY <1>1 DEF RxInv
<1> QED
  BY <1>1, <1>7, <1>8, <1>9, <1>10, <1>11, <1>12 DEF RxInv

(* Every step keeps Receive and the engine in step. *)
LEMMA RxNext ==
  TypeOK /\ RxInv /\ [Next]_vars
    => RxInv' /\ (delivered' # delivered => delivered' > delivered)
<1> SUFFICES ASSUME TypeOK, RxInv, [Next]_vars
             PROVE  RxInv' /\ (delivered' # delivered => delivered' > delivered)
  OBVIOUS
<1>1. CASE EqosDriverBindingStart \/ EqosDriverBindingStop
  <2>1. /\ UNCHANGED <<arrived, taken, delivered>> /\ rxFrame' = AllRx(0)
        /\ State' # "initialized"
    BY <1>1 DEF EqosDriverBindingStart, EqosDriverBindingStop, ZeroRings, hw
  <2>2. CASE EqosDriverBindingStart
    BY <2>1, <2>2 DEF EqosDriverBindingStart, RxInv, AllRx, TypeOK, hw
  <2>3. CASE EqosDriverBindingStop
    BY <2>1, <2>3 DEF EqosDriverBindingStop, RxInv, AllRx, TypeOK
  <2> QED
    BY <1>1, <2>2, <2>3
<1>2. CASE EqosSnpStart \/ EqosSnpStop \/ EqosNotifyExitBootServices
  BY <1>2 DEF EqosSnpStart, EqosSnpStop, EqosNotifyExitBootServices, RxInv, Ahead, rxRing, hw
<1>3. CASE EqosSnpInitialize \/ EqosSnpReset
  <2>1. UNCHANGED <<rxFrame, arrived, delivered>>
    BY <1>3 DEF EqosSnpInitialize, EqosSnpReset
  <2>2. CASE EqosStart /\ State' = "initialized"
    BY <2>1, <2>2, RxStart
  <2>3. CASE EqosStartFails /\ UNCHANGED State
    BY <2>1, <2>3, RxStartFails
  <2> QED
    BY <1>3, <2>1, <2>2, <2>3 DEF EqosSnpInitialize, EqosSnpReset
<1>4. CASE EqosSnpShutdown
  BY <1>4 DEF EqosSnpShutdown, EqosStop, RxInv
<1>5. ASSUME NEW b \in Buffers, EqosSnpTransmit(b)
      PROVE  RxInv' /\ delivered' = delivered
  BY <1>5 DEF EqosSnpTransmit, RxInv, Ahead, rxRing, hw
<1>6. CASE EqosSnpGetStatus \/ GetStatusCheck \/ GetStatusRecycle \/ GetStatusEnd
  BY <1>6 DEF EqosSnpGetStatus, GetStatusCheck, GetStatusRecycle, GetStatusEnd, RxInv,
     Ahead, rxRing, hw
<1>7. CASE EqosSnpReceive
  BY <1>7, RxReceive
<1>8. CASE HwTransmit
  BY <1>8 DEF HwTransmit, RxInv, Ahead, rxRing
<1>9. ASSUME NEW bad \in BOOLEAN, HwReceive(bad)
      PROVE  RxInv' /\ delivered' = delivered
  BY <1>9, RxStore DEF HwReceive
<1>10. CASE UNCHANGED vars
  BY <1>10 DEF vars, rxRing, hw, RxInv, Ahead
<1> QED
  BY <1>1, <1>2, <1>3, <1>4, <1>5, <1>6, <1>7, <1>8, <1>9, <1>10 DEF Next

(* DMA starts stopped. *)
LEMMA RxInit == Init => RxInv
  BY DEF Init, RxInv, AllRx

(* Receive and the engine stay in step, whatever mappings and resets fail.   *)
THEOREM ReceivesInStep == Spec => []RxInStep
<1>1. Init => TypeOK /\ RxInv
  BY TypeInit, RxInit
<1>2. TypeOK /\ RxInv /\ [Next]_vars => (TypeOK /\ RxInv)'
  BY TypeNext, RxNext
<1>3. TypeOK /\ RxInv => RxInStep
  BY RxInvInStep
<1> QED
  BY <1>1, <1>2, <1>3, PTL DEF Spec

(* Frames are returned in the order they arrived, none of them twice. *)
THEOREM ReceivesInOrder == Spec => RxInOrder
<1>1. Init => TypeOK /\ RxInv
  BY TypeInit, RxInit
<1>2. TypeOK /\ RxInv /\ [Next]_vars => (TypeOK /\ RxInv)'
  BY TypeNext, RxNext
<1>3. TypeOK /\ RxInv /\ [Next]_vars => [delivered' # delivered => delivered' > delivered]_delivered
  BY RxNext
<1> QED
  BY <1>1, <1>2, <1>3, PTL DEF Spec, RxInOrder

-----------------------------------------------------------------------------
(* The refinement: every step of the rings is a step of the abstract queue of *)
(* the buffers lent to the driver, or changes nothing it sees.              *)

\* The descriptor of the i-th frame, and of the one to come.
LEMMA SlotOf ==
  ASSUME TxCurrent \in TxIndex, NEW i \in 1 .. TX_DESC_COUNT
  PROVE  Slot(i) = IF TxCurrent + i - 1 < TX_DESC_COUNT THEN TxCurrent + i - 1
                   ELSE TxCurrent + i - 1 - TX_DESC_COUNT
<1> DEFINE s == TxCurrent + i - 1
<1>1. /\ TX_DESC_COUNT \in Nat /\ TX_DESC_COUNT > 0 /\ TxCurrent \in Nat /\ i \in Nat
      /\ s \in Nat /\ s < TX_DESC_COUNT + TX_DESC_COUNT
  BY CountAssumption DEF TxIndex
<1>2. Slot(i) = s % TX_DESC_COUNT
  BY DEF Slot
<1>3. CASE s < TX_DESC_COUNT
  BY <1>1, <1>2, <1>3, ModBelow
<1>4. CASE ~(s < TX_DESC_COUNT)
  <2>1. s % TX_DESC_COUNT = s - TX_DESC_COUNT
    BY <1>1, <1>4, ModOnce
  <2> QED BY <1>1, <1>2, <1>4, <2>1
<1> QED BY <1>3, <1>4

\* Back from the descriptor to the number of its frame.
LEMMA FrameOf ==
  ASSUME TxCurrent \in TxIndex, NEW i \in 1 .. TX_DESC_COUNT
  PROVE  i = IF Slot(i) >= TxCurrent THEN Slot(i) + 1 - TxCurrent
             ELSE Slot(i) + 1 - TxCurrent + TX_DESC_COUNT
<1>1. /\ TX_DESC_COUNT \in Nat /\ TxCurrent \in Nat /\ TxCurrent < TX_DESC_COUNT
      /\ i \in Nat /\ i <= TX_DESC_COUNT /\ i > 0
  BY CountAssumption DEF TxIndex
<1>2. CASE TxCurrent + i - 1 < TX_DESC_COUNT
  <2>1. Slot(i) = TxCurrent + i - 1
    BY <1>2, SlotOf
  <2> QED BY <1>1, <2>1
<1>3. CASE ~(TxCurrent + i - 1 < TX_DESC_COUNT)
  <2>1. Slot(i) = TxCurrent + i - 1 - TX_DESC_COUNT
    BY <1>3, SlotOf
  <2> QED BY <1>1, <1>3, <2>1
<1> QED BY <1>2, <1>3

\* Frames sit in descriptors of their own.
LEMMA SlotsApart ==
  ASSUME TypeOK, NEW i \in 1 .. Outstanding, NEW j \in 1 .. Outstanding, Slot(i) = Slot(j)
  PROVE  i = j
<1>1. TxCurrent \in TxIndex /\ i \in 1 .. TX_DESC_COUNT /\ j \in 1 .. TX_DESC_COUNT
  BY OutstandingFits, CountAssumption DEF TypeOK
<1> DEFINE frame(s) == IF s >= TxCurrent THEN s + 1 - TxCurrent
                       ELSE s + 1 - TxCurrent + TX_DESC_COUNT
<1>2. i = frame(Slot(i)) /\ j = frame(Slot(j))
  BY <1>1, FrameOf
<1> HIDE DEF frame
<1> QED BY <1>2

\* TxNext is the descriptor after the last frame, and holds none.
LEMMA NextSlot ==
  ASSUME TypeOK
  PROVE  /\ Slot(Outstanding + 1) = TxNext
         /\ \A i \in 1 .. Outstanding : Slot(i) # TxNext
<1>1. /\ Outstanding \in Nat /\ Outstanding < TX_DESC_COUNT
      /\ TxCurrent \in TxIndex /\ TxNext \in TxIndex
  BY OutstandingFits DEF TypeOK
<1>2. Outstanding = IF TxNext >= TxCurrent THEN TxNext - TxCurrent
                    ELSE TxNext + TX_DESC_COUNT - TxCurrent
  BY <1>1, Distance DEF Outstanding
<1>3. Outstanding + 1 \in 1 .. TX_DESC_COUNT
  BY <1>1, CountAssumption
<1>4. Slot(Outstanding + 1)
        = IF TxCurrent + (Outstanding + 1) - 1 < TX_DESC_COUNT
          THEN TxCurrent + (Outstanding + 1) - 1
          ELSE TxCurrent + (Outstanding + 1) - 1 - TX_DESC_COUNT
  BY <1>1, <1>3, SlotOf
<1>5. /\ TX_DESC_COUNT \in Nat /\ TxCurrent \in Nat /\ TxCurrent < TX_DESC_COUNT
      /\ TxNext \in Nat /\ TxNext < TX_DESC_COUNT
  BY <1>1, CountAssumption DEF TxIndex
<1>6. ASSUME NEW i \in 1 .. Outstanding PROVE Slot(i) # TxNext
  BY <1>5, SlotIsHeld DEF Held
<1> QED BY <1>1, <1>2, <1>4, <1>5, <1>6

\* Behind TxCurrent, each frame moves up by one.
LEMMA SlotMovesUp ==
  ASSUME TypeOK, Outstanding > 0, TxCurrent' = EQOS_TX_NEXT(TxCurrent),
         NEW i \in 1 .. Outstanding - 1
  PROVE  Slot(i)' = Slot(i + 1)
<1>1. /\ Outstanding \in Nat /\ Outstanding < TX_DESC_COUNT
      /\ TxCurrent \in TxIndex /\ TxCurrent' \in TxIndex
      /\ TxCurrent' = IF TxCurrent = TX_DESC_COUNT - 1 THEN 0 ELSE TxCurrent + 1
  BY OutstandingFits, TxNextOf DEF TypeOK
<1>2. i \in 1 .. TX_DESC_COUNT /\ i + 1 \in 1 .. TX_DESC_COUNT
  BY <1>1, CountAssumption
<1>3. Slot(i + 1) = IF TxCurrent + (i + 1) - 1 < TX_DESC_COUNT THEN TxCurrent + (i + 1) - 1
                    ELSE TxCurrent + (i + 1) - 1 - TX_DESC_COUNT
  BY <1>1, <1>2, SlotOf
<1> DEFINE s == TxCurrent' + i - 1
<1>4. /\ TX_DESC_COUNT \in Nat /\ TX_DESC_COUNT > 0
      /\ TxCurrent \in Nat /\ TxCurrent < TX_DESC_COUNT
      /\ s \in Nat /\ s < TX_DESC_COUNT + TX_DESC_COUNT
  BY <1>1, <1>2, CountAssumption DEF TxIndex
<1>5. Slot(i)' = s % TX_DESC_COUNT
  BY DEF Slot
<1>6. CASE s < TX_DESC_COUNT
  <2>1. Slot(i)' = s
    BY <1>4, <1>5, <1>6, ModBelow
  <2> QED BY <1>1, <1>2, <1>3, <1>4, <1>6, <2>1
<1>7. CASE ~(s < TX_DESC_COUNT)
  <2>1. Slot(i)' = s - TX_DESC_COUNT
    BY <1>4, <1>5, <1>7, ModOnce
  <2> QED BY <1>1, <1>2, <1>3, <1>4, <1>7, <2>1
<1> QED BY <1>6, <1>7

\* The lent frames are a sequence, one for each outstanding descriptor.
FrameSet == [buf : Buffers \union {NoBuffer}, sent : BOOLEAN]
FramesOk ==
  /\ LentFrames \in Seq(FrameSet) /\ Len(LentFrames) = Outstanding
  /\ Outstanding \in Nat /\ DOMAIN LentFrames = 1 .. Outstanding
  /\ \A i \in 1 .. Outstanding :
       LentFrames[i] = [buf |-> TxBuffers[Slot(i)], sent |-> ~txOwn[Slot(i)]]

\* Well-typed rings hold such a sequence, before a step as after it.
LEMMA FramesAre == TypeOK => FramesOk
<1> SUFFICES ASSUME TypeOK PROVE FramesOk
  OBVIOUS
<1>1. Outstanding \in Nat
  BY OutstandingFits DEF TypeOK
<1>2. ASSUME NEW i \in 1 .. Outstanding
      PROVE  [buf |-> TxBuffers[Slot(i)], sent |-> ~txOwn[Slot(i)]] \in FrameSet
  <2>1. Slot(i) \in TxIndex
    BY SlotIsHeld
  <2> QED BY <2>1 DEF TypeOK, FrameSet
<1> QED BY <1>1, <1>2 DEF LentFrames, FramesOk

\* One step of the abstract queue, or none, as the rings show it.
QueueStep == [Queue!Next]_<<LentFrames, TxBuf>>

\* A step that rewinds both indices forgets every frame.
LEMMA QueueRestarts ==
  ASSUME TypeOK, TypeOK', TxNext' = 0, TxCurrent' = 0, TxBuf' = TxBuf
  PROVE  QueueStep
<1>1. TypeOK' => FramesOk'
  BY FramesAre, PTL
<1>2. LentFrames' \in Seq(FrameSet) /\ Len(LentFrames') = 0
  BY <1>1, NoneOutstanding DEF FramesOk
<1>3. LentFrames' = <<>>
  BY <1>2, EmptySeq
<1> QED BY <1>3 DEF QueueStep, Queue!Next, Queue!Restart

\* A step that leaves the descriptors of the lent frames alone changes nothing.
LEMMA QueueRests ==
  ASSUME TypeOK, TxNext' = TxNext, TxCurrent' = TxCurrent, TxBuf' = TxBuf,
         \A i \in 1 .. Outstanding :
           TxBuffers'[Slot(i)] = TxBuffers[Slot(i)] /\ txOwn'[Slot(i)] = txOwn[Slot(i)]
  PROVE  QueueStep
<1>1. Outstanding' = Outstanding /\ \A i \in 1 .. Outstanding : Slot(i)' = Slot(i)
  BY DEF Outstanding, Slot
<1>2. LentFrames' = LentFrames
  BY <1>1 DEF LentFrames
<1> QED BY <1>2 DEF QueueStep

\* A frame mapped for DMA joins the queue, not yet sent.
LEMMA QueueTransmits ==
  ASSUME TypeOK, TypeOK', NEW b \in Buffers, Outstanding < TX_DESC_COUNT - 1,
         TxNext' = EQOS_TX_NEXT(TxNext), TxCurrent' = TxCurrent, TxBuf' = TxBuf,
         TxBuffers' = [TxBuffers EXCEPT ![TxNext] = b],
         txOwn' = [txOwn EXCEPT ![TxNext] = TRUE]
  PROVE  QueueStep
<1> DEFINE e == [buf |-> b, sent |-> FALSE]
<1>1. FramesOk /\ (TypeOK' => FramesOk')
  BY FramesAre, PTL
<1>2. /\ Outstanding' = Outstanding + 1 /\ Outstanding \in Nat
      /\ \A i \in 1 .. Outstanding + 1 : Slot(i)' = Slot(i)
  BY <1>1, OneMore DEF TypeOK, Slot, FramesOk
<1>3. ASSUME NEW i \in 1 .. Outstanding
      PROVE  LentFrames'[i] = LentFrames[i]
  <2>1. Slot(i) \in TxIndex /\ Slot(i) # TxNext /\ i \in 1 .. Outstanding'
    BY <1>2, SlotIsHeld, NextSlot
  <2>2. TxBuffers'[Slot(i)] = TxBuffers[Slot(i)] /\ txOwn'[Slot(i)] = txOwn[Slot(i)]
    BY <2>1 DEF TypeOK
  <2>3. LentFrames'[i] = [buf |-> TxBuffers'[Slot(i)], sent |-> ~txOwn'[Slot(i)]]
    BY <1>1, <1>2, <2>1 DEF FramesOk
  <2> QED BY <1>1, <2>2, <2>3 DEF FramesOk
<1>4. LentFrames'[Outstanding + 1] = e
  <2>1. PICK n \in Nat : n = Outstanding + 1
    BY <1>2
  <2>2. n \in 1 .. Outstanding' /\ Slot(n)' = TxNext
    BY <1>2, <2>1, NextSlot
  <2>3. LentFrames'[n] = [buf |-> TxBuffers'[TxNext], sent |-> ~txOwn'[TxNext]]
    BY <1>1, <2>2 DEF FramesOk
  <2>4. TxBuffers'[TxNext] = b /\ txOwn'[TxNext] = TRUE
    BY DEF TypeOK
  <2> QED BY <2>1, <2>3, <2>4
<1>5. LentFrames' = Append(LentFrames, e)
  <2>1. e \in FrameSet
    BY DEF FrameSet
  <2>2. /\ Append(LentFrames, e) \in Seq(FrameSet)
        /\ Len(Append(LentFrames, e)) = Outstanding + 1
        /\ \A i \in 1 .. Outstanding : Append(LentFrames, e)[i] = LentFrames[i]
        /\ Append(LentFrames, e)[Outstanding + 1] = e
    BY <1>1, <2>1, AppendProperties DEF FramesOk
  <2>3. \A i \in 1 .. Outstanding + 1 : LentFrames'[i] = Append(LentFrames, e)[i]
    BY <1>2, <1>3, <1>4, <2>2
  <2>4. LentFrames' \in Seq(FrameSet) /\ Len(LentFrames') = Outstanding + 1
    BY <1>1, <1>2 DEF FramesOk
  <2> QED BY <2>2, <2>3, <2>4, SeqEqual
<1> QED BY <1>1, <1>5 DEF QueueStep, Queue!Next, Queue!Transmit, FramesOk

\* The oldest frame leaves, once it was sent.
LEMMA QueueRecycles ==
  ASSUME TypeOK, TypeOK', Outstanding > 0, ~txOwn[TxCurrent],
         TxCurrent' = EQOS_TX_NEXT(TxCurrent), TxNext' = TxNext,
         TxBuf' = TxBuffers[TxCurrent], UNCHANGED <<TxBuffers, txOwn>>
  PROVE  QueueStep
<1>1. FramesOk /\ (TypeOK' => FramesOk')
  BY FramesAre, PTL
<1>2. Outstanding' = Outstanding - 1 /\ Outstanding \in Nat
  BY <1>1, OneLess DEF TypeOK, FramesOk
<1>3. Slot(1) = TxCurrent /\ 1 \in 1 .. Outstanding
  <2>1. TxCurrent \in TxIndex
    BY DEF TypeOK
  <2>2. /\ TX_DESC_COUNT \in Nat /\ TxCurrent \in Nat /\ TxCurrent < TX_DESC_COUNT
        /\ 1 \in 1 .. TX_DESC_COUNT
    BY <2>1, CountAssumption DEF TxIndex
  <2>3. Slot(1) = IF TxCurrent + 1 - 1 < TX_DESC_COUNT THEN TxCurrent + 1 - 1
                  ELSE TxCurrent + 1 - 1 - TX_DESC_COUNT
    BY <2>1, <2>2, SlotOf
  <2> QED BY <1>2, <2>2, <2>3
<1>4. LentFrames # <<>> /\ LentFrames[1] = [buf |-> TxBuffers[TxCurrent], sent |-> TRUE]
  <2>1. LentFrames[1] = [buf |-> TxBuffers[TxCurrent], sent |-> ~txOwn[TxCurrent]]
    BY <1>1, <1>3 DEF FramesOk
  <2>2. Len(LentFrames) # 0
    BY <1>1, <1>2 DEF FramesOk
  <2>3. LentFrames # <<>>
    BY <2>2, EmptySeq
  <2> QED BY <2>1, <2>3
<1>5. ASSUME NEW i \in 1 .. Outstanding - 1
      PROVE  LentFrames'[i] = LentFrames[i + 1]
  <2>1. Slot(i)' = Slot(i + 1) /\ i \in 1 .. Outstanding' /\ i + 1 \in 1 .. Outstanding
    BY <1>2, SlotMovesUp
  <2> QED BY <1>1, <2>1 DEF FramesOk
<1>6. LentFrames' = Tail(LentFrames)
  <2>1. /\ Tail(LentFrames) \in Seq(FrameSet) /\ Len(Tail(LentFrames)) = Outstanding - 1
        /\ \A i \in 1 .. Outstanding - 1 : Tail(LentFrames)[i] = LentFrames[i + 1]
    BY <1>1, <1>4, HeadTailProperties DEF FramesOk
  <2>2. LentFrames' \in Seq(FrameSet) /\ Len(LentFrames') = Outstanding - 1
    BY <1>1, <1>2 DEF FramesOk
  <2> QED BY <1>5, <2>1, <2>2, SeqEqual
<1> QED BY <1>4, <1>6 DEF QueueStep, Queue!Next, Queue!Recycle

\* A frame that was sent is the same otherwise.
LEMMA SentFrame ==
  ASSUME NEW r \in FrameSet
  PROVE  [r EXCEPT !.sent = TRUE] = [buf |-> r.buf, sent |-> TRUE]
<1> DEFINE e == [r EXCEPT !.sent = TRUE]
           f == [buf |-> r.buf, sent |-> TRUE]
<1>1. e \in FrameSet /\ f \in FrameSet
  BY DEF FrameSet
<1>2. e.buf = r.buf /\ e.sent = TRUE /\ f.buf = r.buf /\ f.sent = TRUE
  BY DEF FrameSet
<1> HIDE DEF e, f
<1>3. e = f
  BY <1>1, <1>2 DEF FrameSet
<1> QED BY <1>3 DEF e, f

\* The engine sends a frame of the queue, or one that a restart has dropped.
LEMMA QueueSends ==
  ASSUME TypeOK, TypeOK', HwTransmit
  PROVE  QueueStep
<1>1. FramesOk /\ (TypeOK' => FramesOk')
  BY FramesAre, PTL
<1>2. /\ txOwn[hwTx] /\ txOwn' = [txOwn EXCEPT ![hwTx] = FALSE] /\ hwTx \in TxIndex
      /\ UNCHANGED <<TxNext, TxCurrent, TxBuffers, TxBuf>>
      /\ Outstanding' = Outstanding /\ \A i \in 1 .. Outstanding : Slot(i)' = Slot(i)
  BY DEF HwTransmit, TypeOK, Outstanding, Slot
<1>3. CASE \A i \in 1 .. Outstanding : Slot(i) # hwTx
  BY <1>2, <1>3, SlotIsHeld, QueueRests DEF TypeOK
<1>4. ASSUME NEW i \in 1 .. Outstanding, Slot(i) = hwTx
      PROVE  QueueStep
  <2>1. i \in DOMAIN LentFrames /\ LentFrames[i] = [buf |-> TxBuffers[hwTx], sent |-> FALSE]
    BY <1>1, <1>2, <1>4 DEF FramesOk
  <2>2. ASSUME NEW j \in 1 .. Outstanding
        PROVE  LentFrames'[j] = [LentFrames EXCEPT ![i].sent = TRUE][j]
    <3>1. /\ LentFrames'[j] = [buf |-> TxBuffers[Slot(j)], sent |-> ~txOwn'[Slot(j)]]
          /\ LentFrames[j] = [buf |-> TxBuffers[Slot(j)], sent |-> ~txOwn[Slot(j)]]
          /\ Slot(j) \in TxIndex /\ j \in DOMAIN LentFrames
      BY <1>1, <1>2, SlotIsHeld DEF FramesOk
    <3>2. CASE j = i
      <4>1. txOwn'[Slot(j)] = FALSE
        BY <1>2, <1>4, <3>2 DEF TypeOK
      <4>2. [LentFrames EXCEPT ![i].sent = TRUE][j] = [LentFrames[j] EXCEPT !.sent = TRUE]
        BY <3>1, <3>2
      <4>3. LentFrames'[j] = [buf |-> TxBuffers[Slot(j)], sent |-> TRUE]
        BY <3>1, <4>1
      <4>4. LentFrames[j] \in FrameSet /\ LentFrames[j].buf = TxBuffers[Slot(j)]
        BY <1>1, <3>1 DEF FramesOk
      <4>5. [LentFrames[j] EXCEPT !.sent = TRUE] = [buf |-> TxBuffers[Slot(j)], sent |-> TRUE]
        BY <4>4, SentFrame
      <4> QED BY <4>2, <4>3, <4>5
    <3>3. CASE j # i
      <4>1. Slot(j) # hwTx
        BY <1>4, <3>3, SlotsApart
      <4> QED BY <1>2, <3>1, <3>3, <4>1 DEF TypeOK
    <3> QED BY <3>2, <3>3
  <2>3. LentFrames' = [LentFrames EXCEPT ![i].sent = TRUE]
    <3>1. /\ DOMAIN LentFrames = 1 .. Outstanding /\ DOMAIN LentFrames' = 1 .. Outstanding
          /\ LentFrames' = [j \in DOMAIN LentFrames' |-> LentFrames'[j]]
      BY <1>1, <1>2 DEF FramesOk, LentFrames
    <3> QED BY <2>2, <3>1
  <2>4. Queue!Sent(i)
    BY <1>2, <2>1, <2>3 DEF Queue!Sent
  <2> QED BY <2>1, <2>4 DEF QueueStep, Queue!Next
<1> QED BY <1>3, <1>4

\* The descriptor that a GetStatus has checked stays sent until it is recycled.
CheckedIsSent == gs = "checked" => ~txOwn[gsIndex]

\* No step hands it back to the engine.
LEMMA CheckedNext == ~Preempt /\ TypeOK /\ CheckedIsSent /\ [Next]_vars => CheckedIsSent'
<1> SUFFICES ASSUME ~Preempt, TypeOK, CheckedIsSent, [Next]_vars, gs' = "checked"
             PROVE  ~txOwn'[gsIndex']
  BY DEF CheckedIsSent
<1>1. CASE GetStatusCheck
  BY <1>1 DEF GetStatusCheck, Recyclable, txRing
<1>2. CASE HwTransmit
  <2>1. gs = "checked" /\ gsIndex' = gsIndex /\ txOwn' = [txOwn EXCEPT ![hwTx] = FALSE]
    BY <1>2 DEF HwTransmit, call
  <2> QED BY <2>1 DEF CheckedIsSent, TypeOK
<1>3. CASE EqosDriverBindingStart \/ EqosDriverBindingStop
  <2>1. gs = "checked" /\ gsIndex' = gsIndex /\ txOwn' = AllTx(FALSE) /\ gsIndex \in TxIndex
    BY <1>3 DEF EqosDriverBindingStart, EqosDriverBindingStop, ZeroRings, call, TypeOK
  <2> QED BY <2>1 DEF AllTx
<1>4. ASSUME NEW b \in Buffers, EqosSnpTransmit(b) PROVE FALSE
  BY <1>4 DEF EqosSnpTransmit, Callable, Idle, call
<1>5. CASE GetStatusRecycle \/ GetStatusEnd
  BY <1>5 DEF GetStatusRecycle, GetStatusEnd
<1>6. CASE EqosSnpInitialize \/ EqosSnpReset
  BY <1>6 DEF EqosSnpInitialize, EqosSnpReset, CheckedIsSent, call
<1>7. CASE EqosSnpGetStatus \/ EqosSnpReceive \/ EqosSnpShutdown
  BY <1>7 DEF EqosSnpGetStatus, EqosSnpReceive, EqosSnpShutdown, CheckedIsSent, call, txRing
<1>8. CASE EqosSnpStart \/ EqosSnpStop \/ EqosNotifyExitBootServices
  BY <1>8 DEF EqosSnpStart, EqosSnpStop, EqosNotifyExitBootServices, CheckedIsSent, call,
     txRing
<1>9. ASSUME NEW bad \in BOOLEAN, HwReceive(bad) PROVE ~txOwn'[gsIndex']
  BY <1>9 DEF HwReceive, CheckedIsSent, call, txRing
<1>10. CASE UNCHANGED vars
  BY <1>10 DEF vars, CheckedIsSent, call, txRing
<1> QED
  BY <1>1, <1>2, <1>3, <1>4, <1>5, <1>6, <1>7, <1>8, <1>9, <1>10 DEF Next

\* Every step of the rings is one of the abstract queue, or hidden from it.
LEMMA QueueNext ==
  ~Preempt /\ TypeOK /\ TypeOK' /\ RingInv /\ CheckedIsSent /\ [Next]_vars => QueueStep
<1> SUFFICES ASSUME ~Preempt, TypeOK, TypeOK', RingInv, CheckedIsSent, [Next]_vars
             PROVE  QueueStep
  OBVIOUS
<1>1. ASSUME UNCHANGED <<TxNext, TxCurrent, TxBuf, TxBuffers, txOwn>> PROVE QueueStep
  BY <1>1, QueueRests
<1>2. CASE EqosDriverBindingStart \/ EqosDriverBindingStop
  BY <1>2, QueueRestarts DEF EqosDriverBindingStart, EqosDriverBindingStop, ZeroRings
<1>3. CASE EqosSnpInitialize \/ EqosSnpReset
  <2>1. CASE EqosStart
    BY <1>3, <2>1, QueueRestarts
    DEF EqosStart, EqosDmaInitDescriptorRings, EqosSnpInitialize, EqosSnpReset
  <2>2. CASE EqosStartFails
    BY <1>1, <1>3, <2>2 DEF EqosStartFails, EqosSnpInitialize, EqosSnpReset
  <2> QED BY <1>3, <2>1, <2>2 DEF EqosSnpInitialize, EqosSnpReset
<1>4. ASSUME NEW b \in Buffers, EqosSnpTransmit(b) PROVE QueueStep
  <2>1. /\ TxCurrent' = TxCurrent /\ TxBuf' = TxBuf
        /\ TxBuffers' = [TxBuffers EXCEPT ![TxNext] = b]
        /\ gs = "idle" /\ TxQueued # TX_DESC_COUNT - 1
    BY <1>4 DEF EqosSnpTransmit, Callable, Idle, RingFull
  <2>2. CASE txOwn' = txOwn /\ TxNext' = TxNext
    <3>1. \A i \in 1 .. Outstanding : Slot(i) \in TxIndex /\ Slot(i) # TxNext
      BY SlotIsHeld, NextSlot
    <3>2. \A i \in 1 .. Outstanding : TxBuffers'[Slot(i)] = TxBuffers[Slot(i)]
      BY <2>1, <3>1 DEF TypeOK
    <3> QED BY <2>1, <2>2, <3>2, QueueRests
  <2>3. CASE txOwn' = [txOwn EXCEPT ![TxNext] = TRUE] /\ TxNext' = EQOS_TX_NEXT(TxNext)
    <3>1. Outstanding \in Nat /\ TX_DESC_COUNT \in Nat /\ TxQueued \in Nat
      BY OutstandingFits, CountAssumption DEF TypeOK
    <3>2. Outstanding < TX_DESC_COUNT - 1
      BY <2>1, <3>1 DEF RingInv, RingAccount
    <3> QED BY <2>1, <2>3, <3>2, QueueTransmits
  <2> QED BY <1>4, <2>2, <2>3 DEF EqosSnpTransmit
<1>5. CASE EqosSnpGetStatus
  <2>1. /\ TxCurrent' = EQOS_TX_NEXT(TxCurrent) /\ TxBuf' = TxBuffers[TxCurrent]
        /\ UNCHANGED <<TxNext, TxBuffers, txOwn>>
        /\ gs = "idle" /\ TxQueued > 0 /\ ~txOwn[TxCurrent]
    BY <1>5 DEF EqosSnpGetStatus, Callable, Idle, Recyclable
  <2>2. Outstanding \in Nat /\ Outstanding > 0
    BY <2>1, OutstandingFits DEF RingInv, RingAccount, TypeOK
  <2> QED BY <2>1, <2>2, QueueRecycles
<1>6. CASE GetStatusRecycle
  <2>1. /\ TxCurrent' = EQOS_TX_NEXT(gsIndex) /\ TxBuf' = TxBuffers[gsIndex]
        /\ UNCHANGED <<TxNext, TxBuffers, txOwn>> /\ gs = "checked"
    BY <1>6 DEF GetStatusRecycle
  <2>2. gsIndex = TxCurrent /\ ~txOwn[TxCurrent] /\ TxQueued > 0
    BY <2>1 DEF RingInv, CheckedIsSent
  <2>3. Outstanding \in Nat /\ Outstanding > 0
    BY <2>1, <2>2, OutstandingFits DEF RingInv, RingAccount, TypeOK
  <2> QED BY <2>1, <2>2, <2>3, QueueRecycles
<1>7. CASE HwTransmit
  BY <1>7, QueueSends
<1>8. CASE EqosSnpStart \/ EqosSnpStop \/ EqosNotifyExitBootServices \/ EqosSnpShutdown
  BY <1>1, <1>8 DEF EqosSnpStart, EqosSnpStop, EqosNotifyExitBootServices,
     EqosSnpShutdown, txRing
<1>9. CASE GetStatusCheck \/ GetStatusEnd \/ EqosSnpReceive
  BY <1>1, <1>9 DEF GetStatusCheck, GetStatusEnd, EqosSnpReceive, txRing
<1>10. ASSUME NEW bad \in BOOLEAN, HwReceive(bad) PROVE QueueStep
  BY <1>1, <1>10 DEF HwReceive, txRing
<1>11. CASE UNCHANGED vars
  BY <1>1, <1>11 DEF vars, txRing
<1> QED
  BY <1>2, <1>3, <1>4, <1>5, <1>6, <1>7, <1>8, <1>9, <1>10, <1>11 DEF Next

\* The empty ring is the empty queue.
LEMMA QueueInit == Init => Queue!Init
<1> SUFFICES ASSUME Init PROVE Queue!Init
  OBVIOUS
<1>1. FramesOk /\ Outstanding = 0
  BY TypeInit, FramesAre, ZeroIsIndex, Distance DEF Init, Outstanding
<1>2. LentFrames = <<>>
  BY <1>1, EmptySeq DEF FramesOk
<1> QED BY <1>2 DEF Init, Queue!Init

(* Of clients that do not interrupt each other, the transmit ring is a queue: *)
(* every buffer comes back once, in the order of the calls to Transmit, and  *)
(* only after the engine has sent it; a restart forgets all of them.         *)
THEOREM RingImplementsQueue == ASSUME ~Preempt PROVE Spec => RingIsQueue
<1>1. Init => TypeOK /\ RingInv /\ CheckedIsSent /\ Queue!Init
  BY TypeInit, RingInit, QueueInit DEF Init, CheckedIsSent
<1>2. TypeOK /\ RingInv /\ CheckedIsSent /\ [Next]_vars
        => (TypeOK /\ RingInv /\ CheckedIsSent)'
  BY TypeNext, RingNext, CheckedNext
<1>3. TypeOK /\ TypeOK' /\ RingInv /\ CheckedIsSent /\ [Next]_vars
        => [Queue!Next]_<<LentFrames, TxBuf>>
  BY QueueNext DEF QueueStep
<1> QED BY <1>1, <1>2, <1>3, PTL DEF Spec, RingIsQueue, Queue!Spec
=============================================================================
