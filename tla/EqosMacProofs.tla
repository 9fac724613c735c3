--------------------------- MODULE EqosMacProofs ---------------------------
(* Theorems about EqosMac, for all addresses, groups, hash functions and     *)
(* filter masks.                                                            *)
EXTENDS EqosMac, TLAPS

(* The invariant behind both properties: a receiver runs only while the      *)
(* interface is initialized; its address is that of SnpMode; and, once the   *)
(* filters were set, its packet filter is that of SnpMode, with a hash bit   *)
(* for each group of the list where the filter looks at the hash table.      *)
MacInv ==
  /\ running => State = "initialized" /\ macAddress = CurrentAddress
  /\ running /\ ~fresh =>
       /\ PacketFilter = FilterFor(ReceiveFilterSetting)
       /\ FilterFor(ReceiveFilterSetting).HMC =>
            \A a \in MCastFilter : Hash[a] \in hashTable

(* The list that goes with a setting has its bits in the new hash table. *)
LEMMA ListIsHashed ==
  ASSUME NEW old, NEW s, NEW reset, NEW list, FilterFor(s).HMC
  PROVE  \A a \in list : Hash[a] \in Hashes(old, s, reset, list)
<1>1. {Hash[a] : a \in list} \subseteq Hashes(old, s, reset, list)
  BY DEF Hashes
<1> QED
  BY <1>1

(* The filter looks at the hash table only with multicast in the setting. *)
LEMMA HashNeedsMulticast ==
  ASSUME NEW s, FilterFor(s).HMC
  PROVE  "multicast" \in s
  BY DEF FilterFor

(* The MAC starts with the receiver off. *)
LEMMA MacInit == Init => MacInv
  BY DEF Init, MacInv

(* Setting the filters keeps what SnpMode shows and the registers together. *)
LEMMA MacFilters ==
  ASSUME MacInv, NEW enable, NEW disable, NEW reset \in BOOLEAN, NEW list,
         EqosSnpReceiveFilters(enable, disable, reset, list)
  PROVE  MacInv'
<1> DEFINE s == (ReceiveFilterSetting \union enable) \ disable
<1>1. /\ UNCHANGED <<State, CurrentAddress, macAddress, running>>
      /\ ReceiveFilterSetting' = s /\ PacketFilter' = FilterFor(s)
      /\ hashTable' = Hashes(hashTable, s, reset, list)
      /\ MCastFilter' = IF reset THEN {}
                        ELSE IF "multicast" \in s /\ ~reset THEN list ELSE MCastFilter
  BY DEF EqosSnpReceiveFilters
<1>2. ASSUME FilterFor(s).HMC
      PROVE  \A a \in MCastFilter' : Hash[a] \in hashTable'
  <2>1. "multicast" \in s
    BY <1>2, HashNeedsMulticast
  <2>2. MCastFilter' = {} \/ MCastFilter' = list
    BY <1>1, <2>1
  <2>3. \A a \in list : Hash[a] \in hashTable'
    BY <1>1, <1>2, ListIsHashed
  <2> QED
    BY <2>2, <2>3
<1> HIDE DEF s
<1>3. running' => State' = "initialized" /\ macAddress' = CurrentAddress'
  BY <1>1 DEF MacInv
<1> QED
  BY <1>1, <1>2, <1>3 DEF MacInv

(* A Reset that succeeds sets the filters of SnpMode again. *)
LEMMA MacReset ==
  ASSUME MacInv, EqosSnpReset
  PROVE  MacInv'
<1>1. State' = "initialized" /\ UNCHANGED <<CurrentAddress, ReceiveFilterSetting, MCastFilter>>
  BY DEF EqosSnpReset, mode
<1>2. CASE EqosStartFails
  BY <1>2 DEF EqosStartFails, MacInv
<1>3. CASE /\ EqosStart
           /\ PacketFilter' = FilterFor(ReceiveFilterSetting)
           /\ hashTable' = Hashes({}, ReceiveFilterSetting, MCastFilter = {}, MCastFilter)
  <2>1. macAddress' = CurrentAddress'
    BY <1>1, <1>3 DEF EqosStart, AddressProgrammed
  <2>2. ASSUME FilterFor(ReceiveFilterSetting).HMC
        PROVE  \A a \in MCastFilter' : Hash[a] \in hashTable'
    BY <1>1, <1>3, <2>2, ListIsHashed
  <2> QED
    BY <1>1, <1>3, <2>1, <2>2 DEF MacInv
<1> QED
  BY <1>2, <1>3 DEF EqosSnpReset

(* Every call and every event keeps registers and SnpMode together. *)
LEMMA MacNext == MacInv /\ [Next]_vars => MacInv'
<1> SUFFICES ASSUME MacInv, [Next]_vars PROVE MacInv'
  OBVIOUS
<1>1. CASE EqosDriverBindingStart
  BY <1>1 DEF EqosDriverBindingStart, MacInv, filter
<1>2. CASE EqosDriverBindingStop \/ EqosSnpShutdown \/ EqosNotifyExitBootServices
  BY <1>2 DEF EqosDriverBindingStop, EqosSnpShutdown, EqosNotifyExitBootServices,
     EqosDisableTxRx, MacInv
<1>3. CASE EqosSnpStart \/ EqosSnpStop
  BY <1>3 DEF EqosSnpStart, EqosSnpStop, MacInv, filter
<1>4. CASE EqosSnpInitialize
  <2>1. CurrentAddress' = CurrentAddress /\ fresh' = TRUE
    BY <1>4 DEF EqosSnpInitialize
  <2>2. CASE EqosStart /\ State' = "initialized"
    BY <2>1, <2>2 DEF EqosStart, AddressProgrammed, MacInv
  <2>3. CASE EqosStartFails
    BY <2>3 DEF EqosStartFails, MacInv
  <2> QED
    BY <1>4, <2>2, <2>3 DEF EqosSnpInitialize
<1>5. CASE EqosSnpReset
  BY <1>5, MacReset
<1>6. ASSUME NEW enable \in FilterChoices, NEW disable \in FilterChoices,
             NEW reset \in BOOLEAN, NEW list \in SUBSET Groups,
             EqosSnpReceiveFilters(enable, disable, reset, list)
      PROVE  MacInv'
  BY <1>6, MacFilters
<1>7. ASSUME NEW new \in Addresses, EqosSnpStationAddress(new) PROVE MacInv'
  BY <1>7 DEF EqosSnpStationAddress, MacInv, filter
<1>8. CASE EqosAipGetInformation \/ \E asks \in BOOLEAN : GetStatusRead(asks)
  BY <1>8 DEF EqosAipGetInformation, GetStatusRead, MacInv, filter
<1>9. CASE GetStatusClear \/ PhyChanges
  BY <1>9 DEF GetStatusClear, PhyChanges, MacInv, mode, filter
<1>10. ASSUME NEW i \in Interrupts, RaiseInterrupt(i) PROVE MacInv'
  BY <1>10 DEF RaiseInterrupt, MacInv, mode, filter
<1>11. CASE UNCHANGED vars
  BY <1>11 DEF vars, mode, filter, MacInv
<1> QED
  BY <1>1, <1>2, <1>3, <1>4, <1>5, <1>6, <1>7, <1>8, <1>9, <1>10, <1>11 DEF Next

(* A receiver that runs answers to the address of SnpMode. *)
THEOREM AlwaysAnswersToAddress == Spec => []AnswersToAddress
<1>1. MacInv => AnswersToAddress
  BY DEF MacInv, AnswersToAddress
<1> QED
  BY MacInit, MacNext, <1>1, PTL DEF Spec

(* Once the filters were set, what SnpMode promises is let in. *)
THEOREM PromisesAreKept == Spec => []WantedIsLetIn
<1>1. MacInv => WantedIsLetIn
  <2> SUFFICES ASSUME MacInv, running, ~fresh
               PROVE  /\ \A a \in Groups : Wanted(a) => LetsIn(a)
                      /\ "broadcast" \in ReceiveFilterSetting => ~PacketFilter.DBF
    BY DEF WantedIsLetIn
  <2>1. PacketFilter = FilterFor(ReceiveFilterSetting)
    BY DEF MacInv
  <2>2. ASSUME NEW a \in Groups, Wanted(a) PROVE LetsIn(a)
    <3>1. CASE "promiscuous" \in ReceiveFilterSetting
      BY <2>1, <3>1 DEF FilterFor, LetsIn
    <3>2. CASE /\ "promiscuous" \notin ReceiveFilterSetting
               /\ "promiscuousMulticast" \in ReceiveFilterSetting
      BY <2>1, <3>2 DEF FilterFor, LetsIn
    <3>3. CASE /\ "promiscuous" \notin ReceiveFilterSetting
               /\ "promiscuousMulticast" \notin ReceiveFilterSetting
      <4>1. "multicast" \in ReceiveFilterSetting /\ a \in MCastFilter
        BY <2>2, <3>3 DEF Wanted
      <4>2. PacketFilter.HMC
        BY <2>1, <3>3, <4>1 DEF FilterFor
      <4> QED
        BY <2>1, <4>1, <4>2 DEF MacInv, LetsIn
    <3> QED
      BY <3>1, <3>2, <3>3
  <2> QED
    BY <2>1, <2>2 DEF FilterFor
<1> QED
  BY MacInit, MacNext, <1>1, PTL DEF Spec

-----------------------------------------------------------------------------
(* No step leaves an interrupt in the status that was reported before, unless *)
(* a GetStatus has still to clear it.                                       *)
LEMMA ReportedStep == ReportedOnce /\ [Next]_vars => ReportedOnce'
<1> SUFFICES ASSUME ReportedOnce, [Next]_vars, ~gs'
             PROVE  (dmaStatus \subseteq unreported)'
  BY DEF ReportedOnce
<1>1. CASE EqosSnpInitialize \/ EqosSnpReset
  BY <1>1 DEF EqosSnpInitialize, EqosSnpReset, EqosStart, EqosStartFails, SoftReset
<1>2. CASE GetStatusClear
  BY <1>2 DEF GetStatusClear, WrittenBack
<1>3. ASSUME NEW i \in Interrupts, RaiseInterrupt(i)
      PROVE  (dmaStatus \subseteq unreported)'
  BY <1>3 DEF RaiseInterrupt, ReportedOnce
<1>4. ASSUME NEW asks \in BOOLEAN, GetStatusRead(asks)
      PROVE  (dmaStatus \subseteq unreported)'
  BY <1>4 DEF GetStatusRead
<1>5. ASSUME UNCHANGED intr PROVE (dmaStatus \subseteq unreported)'
  BY <1>5 DEF intr, ReportedOnce
<1>6. CASE EqosDriverBindingStart \/ EqosDriverBindingStop \/ EqosSnpStart \/ EqosSnpStop
  BY <1>5, <1>6 DEF EqosDriverBindingStart, EqosDriverBindingStop, EqosSnpStart,
     EqosSnpStop
<1>7. CASE EqosSnpShutdown \/ EqosNotifyExitBootServices \/ EqosAipGetInformation \/ PhyChanges
  BY <1>5, <1>7 DEF EqosSnpShutdown, EqosNotifyExitBootServices, EqosAipGetInformation,
     PhyChanges
<1>8. ASSUME NEW enable \in FilterChoices, NEW disable \in FilterChoices,
             NEW reset \in BOOLEAN, NEW l \in SUBSET Groups,
             EqosSnpReceiveFilters(enable, disable, reset, l)
      PROVE  (dmaStatus \subseteq unreported)'
  BY <1>5, <1>8 DEF EqosSnpReceiveFilters
<1>9. ASSUME NEW new \in Addresses, EqosSnpStationAddress(new)
      PROVE  (dmaStatus \subseteq unreported)'
  BY <1>5, <1>9 DEF EqosSnpStationAddress
<1>10. CASE UNCHANGED vars
  BY <1>5, <1>10 DEF vars
<1> QED
  BY <1>1, <1>2, <1>3, <1>4, <1>6, <1>7, <1>8, <1>9, <1>10 DEF Next

(* What a GetStatus finds was raised after the last one that reported it. *)
THEOREM NothingReportedTwice == Spec => []ReportedOnce
<1>1. Init => ReportedOnce
  BY DEF Init, ReportedOnce
<1> QED
  BY <1>1, ReportedStep, PTL DEF Spec
=============================================================================
