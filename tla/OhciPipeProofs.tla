--------------------------- MODULE OhciPipeProofs ---------------------------
(***************************************************************************)
(* Proofs about the control and bulk transfers of OhciDxe, for any number of *)
(* TDs.                                                                    *)
(*                                                                         *)
(* The properties say little about the middle of a call.  The invariant      *)
(* adds what each step owns (Owned), that the controller is off the list     *)
(* while a call builds it (Quiet), that it has nothing left to execute once   *)
(* the polling has ended (Ended), and, for the toggles, the toggle of every   *)
(* TD of a bulk call that has not failed (InStep).                           *)
(***************************************************************************)
EXTENDS OhciPipe, TLAPS

Building == {"create", "map", "build", "start"}
Offered == {"start2", "poll"}
Ending == {"skip", "unlink", "unmapData", "freeTDs", "unmapRequest", "freeED"}

(* what a call owns at each step                                            *)
Owned ==
  /\ pc \in {"idle", "stall", "create"} => mem = {} /\ mapped = {}
  /\ pc = "map" => mem = {"ed"} /\ mapped = {}
  /\ pc = "build" =>
       mem = {"ed"} /\ mapped = {IF list = "control" THEN "request" ELSE "data"}
  /\ pc \in {"start"} \cup Offered => mem = {"ed", "tds"} /\ mapped = Buffers
  /\ pc \in {"unmapData", "freeTDs"} /\ list = "bulk" => mapped = {"data"}
  /\ pc \in {"skip", "unlink"} => mapped = Buffers
  /\ pc = "freeTDs" /\ list = "control" => "data" \notin mapped
  /\ pc = "unmapRequest" => list = "control" /\ "data" \notin mapped
  /\ pc = "freeED" => mapped = {}

(* the controller is off the list while a call builds it                    *)
Quiet ==
  /\ pc \in {"stall"} \cup Building => ~ Enable[list]
  /\ pc \in Building => ~ serving[list] /\ busy = "none"
  /\ pc \in Building \ {"create"} => Skip
  /\ \A l \in Lists :
       (Enable[l] \/ serving[l]) /\ headEd[l] =>
         /\ l = list /\ pc \in Offered \cup {"skip", "unlink"}
         /\ mem = {"ed", "tds"} /\ mapped = Buffers

(* what the controller works on, and that it has nothing left in the end      *)
Ended ==
  /\ busy # "none" /\ "tds" \in mem => busy = list /\ retired < n /\ ~ Halted
  /\ busy # "none" /\ ~ gaveUp => pc \in Offered /\ busy = list
  /\ pc \in Ending /\ ~ gaveUp => Skip \/ retired = n \/ Halted

TypeInv == TypeOK /\ (list = "bulk" => n <= MaxData)

IInv == TypeInv /\ Owned /\ Quiet /\ Ended

(* the toggles while no bulk call has failed                                *)
InStep ==
  /\ busy = "bulk" /\ pc \notin Offered => skewed
  /\ ~ skewed /\ ~ (list = "bulk" /\ pc \in {"start"} \cup Offered) => DataToggle = devToggle
  /\ ~ skewed /\ list = "bulk" /\ pc \in {"stall"} \cup (Building \ {"start"}) =>
       toggle0 = DataToggle
  /\ ~ skewed /\ list = "bulk" /\ pc \in {"start"} \cup Offered =>
       /\ DataToggle = TdToggle(n)
       /\ \/ devToggle = TdToggle(retired) /\ retired <= n
          \/ devToggle = Flip(TdToggle(retired)) /\ retired < n
  /\ pc \in {"map", "build", "start"} => retired = 0
  /\ pc \in Building \cup Offered => ~ gaveUp
  /\ pc \in Ending /\ list = "bulk" /\ gaveUp => skewed

-----------------------------------------------------------------------------
LEMMA ToggleRange == ASSUME NEW i \in Nat, toggle0 \in Toggles PROVE TdToggle(i) \in Toggles
BY DEF TdToggle, Toggles

LEMMA InitInvariant == Init => IInv
<1> SUFFICES ASSUME Init PROVE IInv
  OBVIOUS
<1> USE DEF Init
<1>1. TypeInv
  <2>1. pc \in Steps /\ list \in Lists /\ n \in 1 .. MaxData + 2 /\ retired \in 0 .. MaxData + 2
    BY MaxDataAssumption DEF Steps, Lists
  <2>2. toggle0 \in Toggles /\ DataToggle \in Toggles /\ devToggle \in Toggles
    BY DEF Toggles
  <2> QED  BY <2>1, <2>2 DEF TypeInv, TypeOK, Lists
<1>2. Owned
  BY DEF Owned, Offered
<1>3. Quiet
  BY DEF Quiet, Offered, Building
<1>4. Ended
  BY DEF Ended, Offered, Ending
<1> QED  BY <1>1, <1>2, <1>3, <1>4 DEF IInv

LEMMA TypeStep == IInv /\ [Next]_vars => TypeInv'
<1> SUFFICES ASSUME IInv, [Next]_vars PROVE TypeInv'
  OBVIOUS
<1>0. TypeInv /\ Ended
  BY DEF IInv
<1> USE <1>0 DEF TypeInv, TypeOK
<1>1. ASSUME NEW l \in Lists, NEW d \in 0 .. MaxData, Begin(l, d) PROVE TypeInv'
  <2>1. n' \in 1 .. MaxData + 2 /\ (l = "bulk" => n' <= MaxData)
    BY <1>1, MaxDataAssumption DEF Begin, Lists
  <2>2. toggle0' \in Toggles
    BY <1>1 DEF Begin, Toggles
  <2> QED  BY <1>1, <2>1, <2>2 DEF Begin, Steps, ed, owned, hc, data
<1>2. CASE StallEnds
  BY <1>2 DEF StallEnds, Steps, ed, owned, hc, data
<1>3. CASE CreateED
  <2>1. retired' \in {0, retired} /\ Halted' \in {FALSE, Halted} /\ Skip' \in {TRUE, Skip}
    BY <1>3 DEF CreateED, ed
  <2>2. 0 \in 0 .. MaxData + 2
    BY MaxDataAssumption
  <2>3. headEd' \in [Lists -> BOOLEAN] /\ mem' \subseteq {"ed", "tds"} /\ pc' \in Steps
    BY <1>3 DEF CreateED, Steps
  <2> QED  BY <1>3, <2>1, <2>2, <2>3 DEF CreateED, hc, data
<1>4. CASE MapFirst
  BY <1>4 DEF MapFirst, Steps, ed, regs, hc, data
<1>5. CASE Build
  <2>1. DataToggle' \in Toggles
    BY <1>5, MaxDataAssumption, ToggleRange DEF Build
  <2>2. mapped' \subseteq {"request", "data"}
    BY <1>5 DEF Build, Buffers
  <2> QED  BY <1>5, <2>1, <2>2 DEF Build, Steps, ed, regs, hc
<1>6. CASE ControlBuildFails
  <2>1. mapped' \subseteq {"request", "data"} /\ mem' \subseteq {"ed", "tds"} /\ pc' \in Steps
    BY <1>6 DEF ControlBuildFails, Buffers, Steps, owned
  <2> QED  BY <1>6, <2>1 DEF ControlBuildFails, ed, regs, hc, data
<1>7. CASE BulkBuildFails
  <2>1. DataToggle' \in Toggles
    BY <1>7, MaxDataAssumption, ToggleRange DEF BulkBuildFails
  <2> QED  BY <1>7, <2>1 DEF BulkBuildFails, Steps, ed, regs, hc
<1>8. CASE Start
  BY <1>8 DEF Start, Steps, ed, owned, hc, data
<1>9. CASE Start2
  BY <1>9 DEF Start2, Steps, ed, owned, hc, data
<1>10. CASE Done
  <2>1. EndToggle \in Toggles
    <3>1. CASE retired = 0
      BY <3>1 DEF EndToggle, NextToggle
    <3>2. CASE retired # 0
      <4>1. TdToggle(retired - 1) \in Toggles
        BY <3>2, MaxDataAssumption, ToggleRange
      <4> QED  BY <4>1 DEF EndToggle, NextToggle, Flip, Toggles
    <3> QED  BY <3>1, <3>2
  <2> QED  BY <1>10, <2>1 DEF Done, Steps, ed, owned, regs, hc
<1>11. CASE GiveUp
  BY <1>11 DEF GiveUp, Steps, Lists, ed, owned, regs, hc
<1>12. CASE SkipED
  BY <1>12 DEF SkipED, Steps, ed, owned, regs, hc, data
<1>13. CASE Unlink
  BY <1>13 DEF Unlink, Steps, ed, owned, regs, hc, data
<1>14. CASE UnmapData
  BY <1>14 DEF UnmapData, Steps, ed, owned, regs, hc, data
<1>15. CASE FreeTDs
  BY <1>15 DEF FreeTDs, Steps, ed, owned, regs, hc, data
<1>16. CASE UnmapRequest
  BY <1>16 DEF UnmapRequest, Steps, ed, owned, regs, hc, data
<1>17. CASE FreeED
  BY <1>17 DEF FreeED, Steps, ed, owned, regs, hc, data
<1>18. CASE OhciReset
  <2>1. headEd' \in [Lists -> BOOLEAN] /\ Enable' \in [Lists -> BOOLEAN]
    BY <1>18 DEF OhciReset, ResetHeads
  <2>2. serving' \in [Lists -> BOOLEAN] /\ running' \in BOOLEAN /\ busy' = "none"
    BY <1>18 DEF OhciReset
  <2>3. Filled' \in [Lists -> BOOLEAN] /\ currentEd' \in [Lists -> BOOLEAN]
    BY <1>18 DEF OhciReset
  <2> QED  BY <1>18, <2>1, <2>2, <2>3 DEF OhciReset, call, ed, owned, data
<1>19. CASE OhciSetState
  <2>1. running' \in BOOLEAN /\ serving' \in [Lists -> BOOLEAN] /\ busy' \in {busy, "none"}
    BY <1>19 DEF OhciSetState
  <2> QED  BY <1>19, <2>1 DEF OhciSetState, call, ed, owned, data
<1>20. CASE ResetEndpoint
  <2>1. DataToggle' = 0 /\ devToggle' = 0 /\ skewed' = FALSE /\ 0 \in Toggles
    BY <1>20 DEF ResetEndpoint, Toggles
  <2> QED  BY <1>20, <2>1 DEF ResetEndpoint, call, ed, owned, regs, hc
<1>21. CASE HcFrame
  BY <1>21 DEF HcFrame, call, ed, owned, regs, data
<1>22. ASSUME NEW l \in Lists, HcWalk(l) PROVE TypeInv'
  BY <1>22 DEF HcWalk, call, ed, owned, data
<1>23. ASSUME NEW l \in Lists, HcServe(l) PROVE TypeInv'
  BY <1>23 DEF HcServe, call, ed, owned, data
<1>24. CASE HcEnd
  <2>1. retired < n
    BY <1>24 DEF HcEnd, Ended
  <2>2. retired + 1 \in 0 .. MaxData + 2
    BY <2>1, MaxDataAssumption
  <2>3. Flip(TdToggle(retired)) \in Toggles
    BY MaxDataAssumption, ToggleRange DEF Flip, Toggles
  <2>4. retired' \in {retired, retired + 1} /\ Halted' \in {Halted, TRUE}
    BY <1>24 DEF HcEnd
  <2>5. devToggle' \in Toggles
    BY <1>24, <2>3 DEF HcEnd, DeviceToggles
  <2> QED  BY <1>24, <2>2, <2>4, <2>5 DEF HcEnd, call, owned, regs
<1>25. CASE HcEndLate
  BY <1>25 DEF HcEndLate, Toggles, call, ed, owned, regs
<1>26. CASE UNCHANGED vars
  BY <1>26 DEF vars, call, ed, owned, regs, hc, data
<1> QED
  BY <1>1, <1>2, <1>3, <1>4, <1>5, <1>6, <1>7, <1>8, <1>9, <1>10, <1>11, <1>12, <1>13,
     <1>14, <1>15, <1>16, <1>17, <1>18, <1>19, <1>20, <1>21, <1>22, <1>23, <1>24, <1>25,
     <1>26 DEF Next, Call, Controller

LEMMA OwnedStep == IInv /\ [Next]_vars => Owned'
<1> SUFFICES ASSUME IInv, [Next]_vars PROVE Owned'
  OBVIOUS
<1>0. TypeInv /\ Owned /\ Quiet /\ Ended
  BY DEF IInv
<1> USE <1>0 DEF TypeInv, TypeOK, Owned, Offered, Buffers, DataTds, Lists
<1>1. ASSUME NEW l \in Lists, NEW d \in 0 .. MaxData, Begin(l, d) PROVE Owned'
  BY <1>1 DEF Begin, call, ed, owned, regs, hc, data
<1>2. CASE StallEnds
  BY <1>2 DEF StallEnds, call, ed, owned, regs, hc, data
<1>3. CASE CreateED
  BY <1>3 DEF CreateED, call, ed, owned, regs, hc, data
<1>4. CASE MapFirst
  BY <1>4 DEF MapFirst, call, ed, owned, regs, hc, data
<1>5. CASE Build
  BY <1>5 DEF Build, call, ed, owned, regs, hc, data
<1>6. CASE ControlBuildFails
  BY <1>6 DEF ControlBuildFails, call, ed, owned, regs, hc, data
<1>7. CASE BulkBuildFails
  BY <1>7 DEF BulkBuildFails, call, ed, owned, regs, hc, data
<1>8. CASE Start
  BY <1>8 DEF Start, call, ed, owned, regs, hc, data
<1>9. CASE Start2
  BY <1>9 DEF Start2, call, ed, owned, regs, hc, data
<1>10. CASE Done
  BY <1>10 DEF Done, call, ed, owned, regs, hc, data
<1>11. CASE GiveUp
  BY <1>11 DEF GiveUp, call, ed, owned, regs, hc, data
<1>12. CASE SkipED
  BY <1>12 DEF SkipED, call, ed, owned, regs, hc, data
<1>13. CASE Unlink
  BY <1>13 DEF Unlink, call, ed, owned, regs, hc, data
<1>14. CASE UnmapData
  BY <1>14 DEF UnmapData, call, ed, owned, regs, hc, data
<1>15. CASE FreeTDs
  BY <1>15 DEF FreeTDs, call, ed, owned, regs, hc, data
<1>16. CASE UnmapRequest
  BY <1>16 DEF UnmapRequest, call, ed, owned, regs, hc, data
<1>17. CASE FreeED
  BY <1>17 DEF FreeED, call, ed, owned, regs, hc, data
<1>18. CASE OhciReset
  BY <1>18 DEF OhciReset, call, ed, owned, regs, hc, data
<1>19. CASE OhciSetState
  BY <1>19 DEF OhciSetState, call, ed, owned, regs, hc, data
<1>20. CASE ResetEndpoint
  BY <1>20 DEF ResetEndpoint, call, ed, owned, regs, hc, data
<1>21. CASE HcFrame
  BY <1>21 DEF HcFrame, call, ed, owned, regs, hc, data
<1>22. CASE HcEnd
  BY <1>22 DEF HcEnd, call, ed, owned, regs, hc, data
<1>23. CASE HcEndLate
  BY <1>23 DEF HcEndLate, call, ed, owned, regs, hc, data
<1>24. ASSUME NEW l \in Lists, HcWalk(l) PROVE Owned'
  BY <1>24 DEF HcWalk, call, ed, owned, regs, hc, data
<1>25. ASSUME NEW l \in Lists, HcServe(l) PROVE Owned'
  BY <1>25 DEF HcServe, call, ed, owned, regs, hc, data
<1>26. CASE UNCHANGED vars
  BY <1>26 DEF vars, call, ed, owned, regs, hc, data
<1> QED
  BY <1>1, <1>2, <1>3, <1>4, <1>5, <1>6, <1>7, <1>8, <1>9, <1>10, <1>11, <1>12, <1>13, <1>14, <1>15, <1>16, <1>17, <1>18, <1>19, <1>20, <1>21, <1>22, <1>23, <1>24, <1>25, <1>26
     DEF Next, Call, Controller

LEMMA QuietStep == IInv /\ [Next]_vars => Quiet'
<1> SUFFICES ASSUME IInv, [Next]_vars PROVE Quiet'
  OBVIOUS
<1>0. TypeInv /\ Owned /\ Quiet /\ Ended
  BY DEF IInv
<1> USE <1>0 DEF TypeInv, TypeOK, Quiet, Building, Offered, Buffers, DataTds
<1>1. ASSUME NEW l \in Lists, NEW d \in 0 .. MaxData, Begin(l, d) PROVE Quiet'
  BY <1>1 DEF Begin, call, ed, owned, regs, hc, data
<1>2. CASE StallEnds
  BY <1>2 DEF StallEnds, call, ed, owned, regs, hc, data
<1>3. CASE CreateED
  BY <1>3 DEF CreateED, call, ed, owned, regs, hc, data
<1>4. CASE MapFirst
  BY <1>4 DEF MapFirst, call, ed, owned, regs, hc, data
<1>5. CASE Build
  BY <1>5 DEF Build, call, ed, owned, regs, hc, data
<1>6. CASE ControlBuildFails
  BY <1>6 DEF ControlBuildFails, call, ed, owned, regs, hc, data
<1>7. CASE BulkBuildFails
  BY <1>7 DEF BulkBuildFails, call, ed, owned, regs, hc, data
<1>8. CASE Start
  <2>1. pc' = "start2" /\ list' = list /\ headEd' = headEd /\ serving' = serving
    BY <1>8 DEF Start, hc
  <2>2. \A l \in Lists : l # list => Enable'[l] = Enable[l]
    BY <1>8 DEF Start
  <2>3. mem' = {"ed", "tds"} /\ mapped' = Buffers /\ Buffers' = Buffers
    BY <1>8 DEF Start, Owned, owned
  <2>4. \A l \in Lists : (Enable'[l] \/ serving'[l]) /\ headEd'[l] => l = list
    BY <1>8, <2>1, <2>2 DEF Start
  <2> QED  BY <2>1, <2>3, <2>4
<1>9. CASE Start2
  <2>1. pc' = "poll" /\ list' = list /\ headEd' = headEd /\ serving' = serving
    BY <1>9 DEF Start2, hc
  <2>2. \A l \in Lists : l # list => Enable'[l] = Enable[l]
    BY <1>9 DEF Start2
  <2>3. mem' = {"ed", "tds"} /\ mapped' = Buffers /\ Buffers' = Buffers
    BY <1>9 DEF Start2, Owned, owned
  <2>4. \A l \in Lists : (Enable'[l] \/ serving'[l]) /\ headEd'[l] => l = list
    BY <1>9, <2>1, <2>2 DEF Start2
  <2> QED  BY <2>1, <2>3, <2>4
<1>10. CASE Done
  BY <1>10 DEF Done, call, ed, owned, regs, hc, data
<1>11. CASE GiveUp
  BY <1>11 DEF GiveUp, call, ed, owned, regs, hc, data
<1>12. CASE SkipED
  BY <1>12 DEF SkipED, call, ed, owned, regs, hc, data
<1>13. CASE Unlink
  BY <1>13 DEF Unlink, call, ed, owned, regs, hc, data
<1>14. CASE UnmapData
  BY <1>14 DEF UnmapData, call, ed, owned, regs, hc, data
<1>15. CASE FreeTDs
  BY <1>15 DEF FreeTDs, call, ed, owned, regs, hc, data
<1>16. CASE UnmapRequest
  BY <1>16 DEF UnmapRequest, call, ed, owned, regs, hc, data
<1>17. CASE FreeED
  BY <1>17 DEF FreeED, call, ed, owned, regs, hc, data
<1>18. CASE OhciReset
  BY <1>18 DEF OhciReset, ResetHeads, call, ed, owned, regs, hc, data
<1>19. CASE OhciSetState
  BY <1>19 DEF OhciSetState, call, ed, owned, regs, hc, data
<1>20. CASE ResetEndpoint
  BY <1>20 DEF ResetEndpoint, call, ed, owned, regs, hc, data
<1>21. CASE HcFrame
  BY <1>21 DEF HcFrame, call, ed, owned, regs, hc, data
<1>22. CASE HcEnd
  BY <1>22 DEF HcEnd, call, ed, owned, regs, hc, data
<1>23. CASE HcEndLate
  BY <1>23 DEF HcEndLate, call, ed, owned, regs, hc, data
<1>24. ASSUME NEW l \in Lists, HcWalk(l) PROVE Quiet'
  BY <1>24 DEF HcWalk, call, ed, owned, regs, hc, data
<1>25. ASSUME NEW l \in Lists, HcServe(l) PROVE Quiet'
  BY <1>25 DEF HcServe, Executable, call, ed, owned, regs, hc, data
<1>26. CASE UNCHANGED vars
  BY <1>26 DEF vars, call, ed, owned, regs, hc, data
<1> QED
  BY <1>1, <1>2, <1>3, <1>4, <1>5, <1>6, <1>7, <1>8, <1>9, <1>10, <1>11, <1>12, <1>13, <1>14, <1>15, <1>16, <1>17, <1>18, <1>19, <1>20, <1>21, <1>22, <1>23, <1>24, <1>25, <1>26
     DEF Next, Call, Controller

LEMMA EndedStep == IInv /\ [Next]_vars => Ended'
<1> SUFFICES ASSUME IInv, [Next]_vars PROVE Ended'
  OBVIOUS
<1>0. TypeInv /\ Owned /\ Quiet /\ Ended
  BY DEF IInv
<1> USE <1>0 DEF TypeInv, TypeOK, Quiet, Ended, Building, Offered, Ending
<1>1. ASSUME NEW l \in Lists, NEW d \in 0 .. MaxData, Begin(l, d) PROVE Ended'
  <2>1. pc = "idle" /\ pc' = "stall" /\ mem' = {} /\ busy' = busy /\ gaveUp' = gaveUp
    BY <1>1 DEF Begin, Owned, owned, hc
  <2> QED  BY <2>1
<1>2. CASE StallEnds
  BY <1>2 DEF StallEnds, call, ed, owned, regs, hc, data
<1>3. CASE CreateED
  BY <1>3 DEF CreateED, call, ed, owned, regs, hc, data
<1>4. CASE MapFirst
  BY <1>4 DEF MapFirst, call, ed, owned, regs, hc, data
<1>5. CASE Build
  BY <1>5 DEF Build, call, ed, owned, regs, hc, data
<1>6. CASE ControlBuildFails
  BY <1>6 DEF ControlBuildFails, call, ed, owned, regs, hc, data
<1>7. CASE BulkBuildFails
  BY <1>7 DEF BulkBuildFails, call, ed, owned, regs, hc, data
<1>8. CASE Start
  BY <1>8 DEF Start, call, ed, owned, regs, hc, data
<1>9. CASE Start2
  BY <1>9 DEF Start2, call, ed, owned, regs, hc, data
<1>10. CASE Done
  BY <1>10 DEF Done, CheckIfDone, EdDone, Owned, call, ed, owned, regs, hc, data
<1>11. CASE GiveUp
  BY <1>11 DEF GiveUp, call, ed, owned, regs, hc, data
<1>12. CASE SkipED
  BY <1>12 DEF SkipED, call, ed, owned, regs, hc, data
<1>13. CASE Unlink
  BY <1>13 DEF Unlink, call, ed, owned, regs, hc, data
<1>14. CASE UnmapData
  BY <1>14 DEF UnmapData, call, ed, owned, regs, hc, data
<1>15. CASE FreeTDs
  BY <1>15 DEF FreeTDs, call, ed, owned, regs, hc, data
<1>16. CASE UnmapRequest
  BY <1>16 DEF UnmapRequest, call, ed, owned, regs, hc, data
<1>17. CASE FreeED
  BY <1>17 DEF FreeED, call, ed, owned, regs, hc, data
<1>18. CASE OhciReset
  BY <1>18 DEF OhciReset, call, ed, owned, regs, hc, data
<1>19. CASE OhciSetState
  BY <1>19 DEF OhciSetState, call, ed, owned, regs, hc, data
<1>20. CASE ResetEndpoint
  BY <1>20 DEF ResetEndpoint, call, ed, owned, regs, hc, data
<1>21. CASE HcFrame
  BY <1>21 DEF HcFrame, call, ed, owned, regs, hc, data
<1>22. CASE HcEnd
  BY <1>22 DEF HcEnd, call, ed, owned, regs, hc, data
<1>23. CASE HcEndLate
  BY <1>23 DEF HcEndLate, call, ed, owned, regs, hc, data
<1>24. ASSUME NEW l \in Lists, HcWalk(l) PROVE Ended'
  BY <1>24 DEF HcWalk, call, ed, owned, regs, hc, data
<1>25. ASSUME NEW l \in Lists, HcServe(l) PROVE Ended'
  <2>1. CASE ~ Executable(l)
    BY <1>25, <2>1 DEF HcServe, call, ed, owned, regs, hc, data
  <2>2. CASE Executable(l)
    <3>1. ~ Skip /\ ~ Halted /\ retired < n /\ list = l /\ "ed" \in mem
      BY <2>2 DEF Executable
    <3>2. pc \notin {"idle", "stall"} \cup Building
      BY <3>1, <1>25 DEF Owned, HcServe
    <3>3. ~ gaveUp => pc \in Offered
      BY <3>1, <3>2 DEF Steps
    <3>4. busy' = l /\ UNCHANGED <<call, ed, owned, gaveUp>>
      BY <1>25, <2>2 DEF HcServe
    <3> QED  BY <3>1, <3>3, <3>4 DEF call, ed, owned
  <2> QED  BY <2>1, <2>2
<1>26. CASE UNCHANGED vars
  BY <1>26 DEF vars, call, ed, owned, regs, hc, data
<1> QED
  BY <1>1, <1>2, <1>3, <1>4, <1>5, <1>6, <1>7, <1>8, <1>9, <1>10, <1>11, <1>12, <1>13, <1>14, <1>15, <1>16, <1>17, <1>18, <1>19, <1>20, <1>21, <1>22, <1>23, <1>24, <1>25, <1>26
     DEF Next, Call, Controller

LEMMA Invariant == Spec => []IInv
<1>1. IInv /\ [Next]_vars => IInv'
  BY TypeStep, OwnedStep, QuietStep, EndedStep DEF IInv
<1> QED
  BY <1>1, InitInvariant, PTL DEF Spec

(* The calls, the lists and the controller are well typed for any number of  *)
(* TDs.                                                                    *)
THEOREM TypeCorrect == Spec => []TypeOK
<1>1. IInv => TypeOK
  BY DEF IInv, TypeInv
<1> QED
  BY <1>1, Invariant, PTL

LEMMA NextTdToggle ==
  ASSUME NEW i \in Nat, toggle0 \in Toggles
  PROVE  TdToggle(i + 1) = Flip(TdToggle(i)) /\ TdToggle(0) = toggle0
BY DEF TdToggle, Flip, Toggles

LEMMA InStepStep == IInv /\ InStep /\ [Next]_vars => InStep'
<1> SUFFICES ASSUME IInv, InStep, [Next]_vars PROVE InStep'
  OBVIOUS
<1>0. TypeInv /\ Owned /\ Quiet /\ Ended
  BY DEF IInv
<1> USE <1>0 DEF TypeInv, TypeOK, InStep, Offered, Building, Ending
<1>1. ASSUME NEW l \in Lists, NEW d \in 0 .. MaxData, Begin(l, d) PROVE InStep'
  BY <1>1 DEF Begin, call, ed, owned, regs, hc, data
<1>2. CASE StallEnds
  BY <1>2 DEF StallEnds, TdToggle, call, ed, owned, regs, hc, data
<1>3. CASE CreateED
  BY <1>3 DEF CreateED, TdToggle, call, ed, owned, regs, hc, data
<1>4. CASE MapFirst
  BY <1>4 DEF MapFirst, TdToggle, call, ed, owned, regs, hc, data
<1>5. CASE Build
  <2>1. toggle0' = toggle0 /\ list' = list /\ n' = n /\ retired' = 0 /\ skewed' = skewed
    BY <1>5 DEF Build, ed
  <2>2. \A i \in Nat : TdToggle(i)' = TdToggle(i)
    BY <2>1 DEF TdToggle
  <2>3. list = "bulk" /\ ~ skewed => devToggle' = TdToggle(0)
    BY <1>5, NextTdToggle DEF Build
  <2>4. CASE list = "bulk"
    BY <1>5, <2>1, <2>3, <2>4 DEF Build, TdToggle, hc
  <2>5. CASE list # "bulk"
    BY <1>5, <2>1, <2>5 DEF Build, hc
  <2> QED  BY <2>4, <2>5
<1>6. CASE ControlBuildFails
  BY <1>6 DEF ControlBuildFails, TdToggle, call, ed, owned, regs, hc, data
<1>7. CASE BulkBuildFails
  BY <1>7 DEF BulkBuildFails, TdToggle, call, ed, owned, regs, hc, data
<1>8. CASE Start
  BY <1>8 DEF Start, TdToggle, call, ed, owned, regs, hc, data
<1>9. CASE Start2
  BY <1>9 DEF Start2, TdToggle, call, ed, owned, regs, hc, data
<1>10. CASE Done
  <2>1. busy = "none"
    BY <1>10 DEF Done, CheckIfDone, EdDone, Owned, Ended
  <2>3. CASE Halted /\ list = "bulk"
    BY <1>10, <2>1, <2>3 DEF Done, ed, hc
  <2>4. CASE ~ Halted /\ list = "bulk"
    <3>1. retired = n /\ DataToggle' = DataToggle
      BY <1>10, <2>4 DEF Done, CheckIfDone, EdDone, EndToggle
    <3> QED  BY <1>10, <2>1, <2>4, <3>1 DEF Done, TdToggle, ed, hc
  <2>5. CASE list # "bulk"
    BY <1>10, <2>1, <2>5 DEF Done, ed, hc
  <2> QED  BY <2>3, <2>4, <2>5
<1>11. CASE GiveUp
  BY <1>11 DEF GiveUp, Owned, Ended, Lists, ed, hc
<1>12. CASE SkipED
  BY <1>12 DEF SkipED, TdToggle, call, ed, owned, regs, hc, data
<1>13. CASE Unlink
  BY <1>13 DEF Unlink, TdToggle, call, ed, owned, regs, hc, data
<1>14. CASE UnmapData
  BY <1>14 DEF UnmapData, TdToggle, call, ed, owned, regs, hc, data
<1>15. CASE FreeTDs
  BY <1>15 DEF FreeTDs, TdToggle, call, ed, owned, regs, hc, data
<1>16. CASE UnmapRequest
  BY <1>16 DEF UnmapRequest, TdToggle, call, ed, owned, regs, hc, data
<1>17. CASE FreeED
  BY <1>17 DEF FreeED, TdToggle, call, ed, owned, regs, hc, data
<1>18. CASE OhciReset
  BY <1>18 DEF OhciReset, TdToggle, call, ed, owned, regs, hc, data
<1>19. CASE OhciSetState
  BY <1>19 DEF OhciSetState, TdToggle, call, ed, owned, regs, hc, data
<1>20. CASE ResetEndpoint
  BY <1>20 DEF ResetEndpoint, TdToggle, call, ed, owned, regs, hc, data
<1>21. CASE HcFrame
  BY <1>21 DEF HcFrame, TdToggle, call, ed, owned, regs, hc, data
<1>22. CASE HcEnd
  <2>0. UNCHANGED <<call, DataToggle, skewed, gaveUp>> /\ busy' = "none"
    BY <1>22 DEF HcEnd
  <2>1. CASE busy # "bulk"
    <3>1. devToggle' = devToggle
      BY <1>22, <2>1 DEF HcEnd, DeviceToggles
    <3>2. list # "bulk"
      BY <1>22, <2>1 DEF HcEnd, Ended, Lists
    <3>3. pc \notin {"map", "build", "start"}
      BY <1>22 DEF HcEnd, Quiet, Owned
    <3> QED  BY <2>0, <3>1, <3>2, <3>3 DEF call
  <2>2. CASE busy = "bulk" /\ skewed
    <3>1. pc \notin {"map", "build", "start"}
      BY <1>22 DEF HcEnd, Quiet, Owned
    <3> QED  BY <2>0, <2>2, <3>1 DEF call
  <2>3. CASE busy = "bulk" /\ ~ skewed
    <3>1. pc \in Offered /\ list = "bulk" /\ retired < n
      BY <1>22, <2>3 DEF HcEnd, Ended
    <3>2. retired \in Nat /\ TdToggle(retired + 1) = Flip(TdToggle(retired))
      BY MaxDataAssumption, NextTdToggle
    <3>3. \A i \in Nat : TdToggle(i)' = TdToggle(i)
      BY <2>0 DEF TdToggle, call
    <3>4. \/ retired' = retired /\ devToggle' \in {devToggle, Flip(TdToggle(retired))}
          \/ retired' = retired + 1 /\ devToggle' = Flip(TdToggle(retired))
      BY <1>22, <2>3 DEF HcEnd, DeviceToggles
    <3>5. DataToggle = TdToggle(n) /\ devToggle \in {TdToggle(retired), Flip(TdToggle(retired))}
      BY <2>3, <3>1
    <3>6. TdToggle(n)' = TdToggle(n) /\ n \in Nat
      BY <2>0 DEF TdToggle, call
    <3>7. TdToggle(retired)' = IF retired' = retired THEN TdToggle(retired)
                               ELSE Flip(TdToggle(retired))
      BY <2>0, <3>2, <3>4 DEF TdToggle, call
    <3> QED  BY <2>0, <2>3, <3>1, <3>2, <3>4, <3>5, <3>6, <3>7 DEF call
  <2> QED  BY <2>1, <2>2, <2>3
<1>23. CASE HcEndLate
  <2>1. busy = "bulk" => skewed
    BY <1>23 DEF HcEndLate, Owned
  <2>2. CASE busy = "bulk"
    BY <1>23, <2>1, <2>2 DEF HcEndLate, call, ed
  <2>3. CASE busy # "bulk"
    BY <1>23, <2>3 DEF HcEndLate, TdToggle, call, ed
  <2> QED  BY <2>2, <2>3
<1>24. ASSUME NEW l \in Lists, HcWalk(l) PROVE InStep'
  BY <1>24 DEF HcWalk, TdToggle, call, ed, owned, regs, hc, data
<1>25. ASSUME NEW l \in Lists, HcServe(l) PROVE InStep'
  <2>1. CASE ~ Executable(l)
    BY <1>25, <2>1 DEF HcServe, TdToggle, call, ed, data
  <2>2. CASE Executable(l)
    <3>1. ~ Skip /\ ~ Halted /\ retired < n /\ list = l
      BY <2>2 DEF Executable
    <3>2. l = "bulk" => skewed \/ pc \in Offered
      BY <1>25, <2>2, <3>1 DEF HcServe, Executable, Owned, Quiet, Ended, Ending, Steps
    <3>3. busy' = l /\ UNCHANGED <<call, ed, data, gaveUp>>
      BY <1>25, <2>2 DEF HcServe
    <3> QED  BY <3>1, <3>2, <3>3 DEF TdToggle, call, ed, data
  <2> QED  BY <2>1, <2>2
<1>26. CASE UNCHANGED vars
  BY <1>26 DEF vars, TdToggle, call, ed, owned, regs, hc, data
<1> QED
  BY <1>1, <1>2, <1>3, <1>4, <1>5, <1>6, <1>7, <1>8, <1>9, <1>10, <1>11, <1>12, <1>13, <1>14, <1>15, <1>16, <1>17, <1>18, <1>19, <1>20, <1>21, <1>22, <1>23, <1>24, <1>25, <1>26
     DEF Next, Call, Controller

(* OhciControlTransfer and OhciBulkTransfer, whatever step of them fails,      *)
(* return without a descriptor left in the pool or a buffer left mapped.       *)
THEOREM NothingStaysBehind == Spec => []NothingLeft
<1>1. IInv => NothingLeft
  BY DEF IInv, Owned, NothingLeft
<1> QED
  BY <1>1, Invariant, PTL

(* The controller never finds an ED at the head of a list it may serve unless *)
(* the call that put it there has completed it.                            *)
THEOREM HeadAlwaysReady == Spec => []HeadIsReady
<1>1. IInv => HeadIsReady
  BY DEF IInv, Quiet, HeadIsReady
<1> QED
  BY <1>1, Invariant, PTL

(* Without a time-out, no TD is freed and no buffer unmapped while the         *)
(* controller works on it.                                                 *)
THEOREM NoTdFreedInFlight == Spec => []InFlightSafe
<1>1. IInv => InFlightSafe
  <2> SUFFICES ASSUME IInv, busy # "none", ~ gaveUp
               PROVE  busy = list /\ mem = {"ed", "tds"} /\ mapped = Buffers
    BY DEF InFlightSafe
  <2>1. pc \in Offered /\ busy = list
    BY DEF IInv, Ended
  <2> QED  BY <2>1 DEF IInv, Owned
<1> QED
  BY <1>1, Invariant, PTL

(* As long as no bulk call fails, *DataToggle follows the device, although the *)
(* call advances it before a TD is sent and the controller repeats TDs.       *)
THEOREM TogglesAgree == Spec => []ToggleInStep
<1>1. Init => InStep
  BY DEF Init, InStep, Offered, Building, Ending
<1>2. IInv /\ InStep => ToggleInStep
  BY DEF InStep, Offered, ToggleInStep
<1> QED
  BY <1>1, <1>2, Invariant, InStepStep, PTL DEF Spec
=============================================================================
