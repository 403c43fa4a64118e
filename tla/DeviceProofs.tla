---------------------------- MODULE DeviceProofs ----------------------------
(***************************************************************************)
(* The device's Plug and Play state and what it holds, for every set of    *)
(* usage types, every bound on the paths and every choice of failures.     *)
(*                                                                         *)
(* That the driver stays in step with the manager, holds what its power    *)
(* state calls for and undoes at its removal what its start did is proved  *)
(* without conditions; the exceptions are in the properties themselves.    *)
(* That NotDisableable is exact needs a lower driver which refuses no      *)
(* usage notification.                                                     *)
(***************************************************************************)
EXTENDS Device, TLAPS

\* No path is in use that is not counted.
PathsOK == \A t \in UsageTypes : paths[t] <= usage[t]

\* A device that was never started, is stopped or has failed to start holds
\* nothing; FdoDestroy comes last.
IdleOK ==
    /\ mgr \in {"added", "stopped", "failed"} => power = "D3" /\ ~resource
    /\ mgr = "removed" <=> fdo # "live"

\* The types of what is held, and of the rest.
HeldTyped ==
    /\ power \in {"D0", "D3"}
    /\ suspendRefs \in 0 .. 1 /\ storeRefs \in 0 .. 1
    /\ callback \in BOOLEAN

StateTyped ==
    /\ mgr \in MgrState
    /\ pnp \in PnpState /\ previous \in PnpState
    /\ resource \in BOOLEAN /\ interrupted \in BOOLEAN
    /\ fdo \in {"live", "assert", "freed"}

UsageTyped ==
    /\ paths \in [UsageTypes -> 0 .. MaxUsage]
    /\ usage \in [UsageTypes -> 0 .. MaxUsage]
    /\ notDisableable \in BOOLEAN
    /\ refused \subseteq UsageTypes

LEMMA Types == TypeOK <=> HeldTyped /\ StateTyped /\ UsageTyped
  BY DEF TypeOK, HeldTyped, StateTyped, UsageTyped

Books == HeldTyped /\ HeldMatchesPower

IInv ==
    Books /\ StateTyped /\ UsageTyped /\ InStepWithManager /\ PathsOK /\ IdleOK

LEMMA InitIInv == Init => IInv
  <1> SUFFICES ASSUME Init PROVE IInv
    OBVIOUS
  <1>1. power \in {"D0", "D3"} /\ suspendRefs \in 0 .. 1 /\ storeRefs \in 0 .. 1
    BY DEF Init
  <1>2. callback \in BOOLEAN
    BY DEF Init
  <1>3. HeldMatchesPower
    BY DEF Init, HeldMatchesPower
  <1>4. StateTyped
    BY DEF Init, StateTyped, MgrState, PnpState
  <1>5. UsageTyped
    <2>1. paths \in [UsageTypes -> 0 .. MaxUsage] /\ usage = paths
      BY UsageAssumption DEF Init
    <2>2. notDisableable \in BOOLEAN /\ refused \subseteq UsageTypes
      BY DEF Init
    <2>3. QED
      BY <2>1, <2>2 DEF UsageTyped
  <1>6. InStepWithManager /\ IdleOK
    BY DEF Init, InStepWithManager, IdleOK
  <1>7. PathsOK
    BY DEF Init, PathsOK
  <1>8. QED
    BY <1>1, <1>2, <1>3, <1>4, <1>5, <1>6, <1>7
    DEF IInv, Books, HeldTyped

-----------------------------------------------------------------------------
(* FdoD3ToD0, its failures and FdoD0ToD3 keep the books.                   *)

LEMMA BooksUp == ASSUME Books, D3ToD0, power = "D3" PROVE Books'
  BY DEF Books, HeldTyped, HeldMatchesPower, D3ToD0

LEMMA BooksDown == ASSUME Books, D0ToD3, power = "D0" PROVE Books'
  <1>1. suspendRefs = 1 /\ storeRefs = 1
    BY DEF Books, HeldMatchesPower
  <1>2. HeldTyped'
    <2>1. suspendRefs' \in 0 .. 1 /\ storeRefs' \in 0 .. 1
      BY <1>1 DEF D0ToD3
    <2>2. QED
      BY <2>1 DEF HeldTyped, D0ToD3
  <1>3. HeldMatchesPower'
    BY <1>1 DEF HeldMatchesPower, D0ToD3
  <1>4. QED
    BY <1>2, <1>3 DEF Books

LEMMA BooksSame ==
  ASSUME Books, UNCHANGED held PROVE Books' /\ power' = power
  BY DEF Books, HeldTyped, HeldMatchesPower, held

LEMMA BooksFail ==
  ASSUME Books, D3ToD0Fails PROVE Books' /\ power' = power
  BY BooksSame DEF D3ToD0Fails

LEMMA BooksLeave == ASSUME Books, LeaveD0 PROVE Books' /\ power' = "D3"
  <1>1. CASE power = "D0"
    BY <1>1, BooksDown DEF LeaveD0, D0ToD3
  <1>2. CASE power = "D3"
    BY <1>2, BooksSame DEF LeaveD0
  <1>3. QED
    BY <1>1, <1>2 DEF Books, HeldTyped

-----------------------------------------------------------------------------

LEMMA UsageSame ==
  ASSUME UsageTyped, PathsOK, UNCHANGED usageVars
  PROVE  UsageTyped' /\ PathsOK'
  BY DEF UsageTyped, PathsOK, usageVars

LEMMA PnpIInv ==
  ASSUME IInv,
         \/ StartDevice \/ StopDevice \/ RemoveDevice
         \/ QueryStopDevice \/ CancelStopDevice
         \/ QueryRemoveDevice \/ CancelRemoveDevice \/ SurpriseRemoval
  PROVE  IInv'
  <1> USE DEF IInv, StateTyped, InStepWithManager, IdleOK, MgrMoves, SetState,
              Restore, MgrState, PnpState
  <1>1. CASE StartDevice
    <2>1. power = "D3" /\ ~resource
      BY <1>1 DEF StartDevice
    <2>2. UsageTyped' /\ PathsOK'
      BY <1>1, UsageSame DEF StartDevice, PathsOK
    <2>3. CASE mgr' = "started"
      BY <1>1, <2>1, <2>2, <2>3, BooksUp DEF StartDevice
    <2>4. CASE mgr' = "failed" /\ UNCHANGED <<held, resource>>
      BY <1>1, <2>1, <2>2, <2>4, BooksSame DEF StartDevice
    <2>5. CASE mgr' = "failed" /\ D3ToD0Fails /\ resource' = FALSE
      BY <1>1, <2>1, <2>2, <2>5, BooksFail DEF StartDevice
    <2>6. QED
      BY <1>1, <2>3, <2>4, <2>5 DEF StartDevice
  <1>2. CASE StopDevice
    <2>1. UsageTyped' /\ PathsOK'
      BY <1>2, UsageSame DEF StopDevice, PathsOK
    <2>2. QED
      BY <1>2, <2>1, BooksLeave DEF StopDevice
  <1>3. CASE RemoveDevice
    <2>1. mgr # "started" /\ mgr' = "removed"
      BY <1>3 DEF RemoveDevice
    <2>2. UsageTyped' /\ PathsOK'
      BY <1>3, <2>1 DEF RemoveDevice, UsageTyped, PathsOK
    <2>3. Books'
      BY <1>3, BooksLeave, BooksSame DEF RemoveDevice
    <2>4. QED
      BY <1>3, <2>1, <2>2, <2>3 DEF RemoveDevice
  <1>4. CASE QueryStopDevice \/ QueryRemoveDevice
    <2>1. UsageTyped' /\ PathsOK'
      BY <1>4, UsageSame DEF QueryStopDevice, QueryRemoveDevice
    <2>2. QED
      BY <1>4, <2>1, BooksSame DEF QueryStopDevice, QueryRemoveDevice
  <1>5. CASE CancelStopDevice \/ CancelRemoveDevice
    <2>1. UsageTyped' /\ PathsOK'
      BY <1>5, UsageSame DEF CancelStopDevice, CancelRemoveDevice
    <2>2. QED
      BY <1>5, <2>1, BooksSame DEF CancelStopDevice, CancelRemoveDevice
  <1>6. CASE SurpriseRemoval
    <2>1. UsageTyped' /\ PathsOK' /\ Books' /\ power' = power
      BY <1>6, UsageSame, BooksSame DEF SurpriseRemoval
    <2>2. interrupted' \in BOOLEAN
      BY <1>6 DEF SurpriseRemoval
    <2>3. /\ fdo = "live" /\ mgr' = "vanished" /\ UNCHANGED <<resource, fdo>>
          /\ pnp' = "SurpriseRemovePending" /\ previous' = pnp
      BY <1>6 DEF SurpriseRemoval
    <2>4. QED
      BY <2>1, <2>2, <2>3
  <1>7. QED
    BY <1>1, <1>2, <1>3, <1>4, <1>5, <1>6

LEMMA PathAdded ==
  ASSUME UsageTyped, PathsOK, NEW t \in UsageTypes, usage[t] < MaxUsage,
         usage' = [usage EXCEPT ![t] = usage[t] + 1],
         paths' = [paths EXCEPT ![t] = paths[t] + 1] \/ paths' = paths
  PROVE  /\ usage' \in [UsageTypes -> 0 .. MaxUsage]
         /\ paths' \in [UsageTypes -> 0 .. MaxUsage]
         /\ \A u \in UsageTypes : paths'[u] <= usage'[u]
  <1>1. /\ paths[t] \in Nat /\ paths[t] <= usage[t]
        /\ usage[t] + 1 \in 0 .. MaxUsage /\ paths[t] + 1 \in 0 .. MaxUsage
    BY UsageAssumption DEF UsageTyped, PathsOK
  <1>2. \A u \in UsageTypes :
           paths[u] \in Nat /\ usage[u] \in Nat /\ paths[u] <= usage[u]
    BY UsageAssumption DEF UsageTyped, PathsOK
  <1>3. QED
    BY <1>1, <1>2 DEF UsageTyped

LEMMA PathTaken ==
  ASSUME UsageTyped, PathsOK, NEW t \in UsageTypes, paths[t] > 0,
         usage' = [usage EXCEPT ![t] = IF @ = 0 THEN 0 ELSE @ - 1],
         paths' = [paths EXCEPT ![t] = paths[t] - 1]
  PROVE  /\ usage' \in [UsageTypes -> 0 .. MaxUsage]
         /\ paths' \in [UsageTypes -> 0 .. MaxUsage]
         /\ \A u \in UsageTypes : paths'[u] <= usage'[u]
  <1>1. /\ paths[t] <= usage[t] /\ usage[t] # 0
        /\ usage[t] - 1 \in 0 .. MaxUsage /\ paths[t] - 1 \in 0 .. MaxUsage
    BY UsageAssumption DEF UsageTyped, PathsOK
  <1>2. usage' = [usage EXCEPT ![t] = usage[t] - 1]
    BY <1>1
  <1>3. \A u \in UsageTypes :
           paths[u] \in Nat /\ usage[u] \in Nat /\ paths[u] <= usage[u]
    BY UsageAssumption DEF UsageTyped, PathsOK
  <1>4. QED
    BY <1>1, <1>2, <1>3 DEF UsageTyped

LEMMA UsageIInv ==
  ASSUME IInv, NEW t \in UsageTypes, NEW inPath \in BOOLEAN,
         UsageNotification(t, inPath)
  PROVE  IInv'
  <1>1. /\ usage' \in [UsageTypes -> 0 .. MaxUsage]
        /\ paths' \in [UsageTypes -> 0 .. MaxUsage]
        /\ \A u \in UsageTypes : paths'[u] <= usage'[u]
    <2>1. CASE inPath
      BY <2>1, PathAdded DEF IInv, UsageNotification, Count
    <2>2. CASE ~inPath
      BY <2>2, PathTaken DEF IInv, UsageNotification, Count
    <2>3. QED
      BY <2>1, <2>2
  <1>2. notDisableable' \in BOOLEAN /\ refused' \subseteq UsageTypes
    BY DEF UsageNotification, IInv, UsageTyped
  <1>3. /\ mgr \in {"started", "vanished"}
        /\ UNCHANGED <<mgr, pnp, previous, resource, held, interrupted, fdo>>
    BY DEF UsageNotification
  <1>4. Books'
    BY <1>3, BooksSame DEF IInv
  <1>5. StateTyped' /\ InStepWithManager'
    BY <1>3 DEF IInv, StateTyped, InStepWithManager
  <1>6. IdleOK'
    BY <1>3 DEF IInv, IdleOK, StateTyped, MgrState
  <1>7. QED
    BY <1>1, <1>2, <1>3, <1>4, <1>5, <1>6 DEF IInv, UsageTyped, PathsOK

LEMMA StepIInv == IInv /\ [Next]_vars => IInv'
  <1> SUFFICES ASSUME IInv, [Next]_vars PROVE IInv'
    OBVIOUS
  <1> USE DEF IInv, StateTyped, InStepWithManager, IdleOK, MgrState
  <1>1. CASE SetPower
    <2>1. Books'
      <3>1. CASE SetPowerDown
        BY <3>1, BooksDown DEF SetPowerDown
      <3>2. CASE SetPowerUp
        BY <3>2, BooksUp, BooksFail, BooksSame DEF SetPowerUp
      <3>3. QED
        BY <1>1, <3>1, <3>2 DEF SetPower
    <2>2. UsageTyped' /\ PathsOK'
      BY <1>1, UsageSame DEF SetPower
    <2>3. QED
      BY <1>1, <2>1, <2>2 DEF SetPower
  <1>2. CASE Free
    <2>1. UsageTyped' /\ PathsOK'
      BY <1>2, UsageSame DEF Free, PathsOK
    <2>2. QED
      BY <1>2, <2>1, BooksSame DEF Free
  <1>3. CASE UNCHANGED vars
    <2>1. UsageTyped' /\ PathsOK'
      BY <1>3, UsageSame DEF vars, PathsOK
    <2>2. QED
      BY <1>3, <2>1, BooksSame DEF vars
  <1>4. QED
    BY <1>1, <1>2, <1>3, PnpIInv, UsageIInv DEF Next, Finished

\* The invariant above holds in every reachable state.
THEOREM DeviceInductive == Spec => []IInv
  BY InitIInv, StepIInv, PTL DEF Spec

\* Every variable has its type.
THEOREM DeviceTyping == Spec => []TypeOK
  <1>1. IInv => TypeOK
    BY Types DEF IInv, Books
  <1>2. QED
    BY <1>1, DeviceInductive, PTL

\* Nothing is acquired twice or leaked, whichever calls fail and wherever
\* the device vanishes.
THEOREM HoldingsMatchPower == Spec => []HeldMatchesPower
  <1>1. IInv => HeldMatchesPower
    BY DEF IInv, Books
  <1>2. QED
    BY <1>1, DeviceInductive, PTL

\* Driver and PnP manager agree on the state of the device.
THEOREM DriverInStep == Spec => []InStepWithManager
  <1>1. IInv => InStepWithManager
    BY DEF IInv
  <1>2. QED
    BY <1>1, DeviceInductive, PTL

-----------------------------------------------------------------------------
(* Removal                                                                 *)

\* FdoRemoveDevice powers down the device that vanished, or need not.
VanishedOK ==
    mgr = "vanished" =>
        interrupted \/ previous = "Started" \/ (power = "D3" /\ ~resource)

\* Only what was refused is miscounted.
CountsOK == \A t \in UsageTypes \ refused : usage[t] = paths[t]

RInv ==
    /\ VanishedOK /\ CountsOK
    /\ fdo = "assert" => interrupted \/ (~resource /\ ~callback)

LEMMA InitRInv == Init => RInv
  BY DEF Init, RInv, VanishedOK, CountsOK

LEMMA CountsStep ==
  ASSUME IInv, CountsOK, NEW t \in UsageTypes, NEW inPath \in BOOLEAN,
         UsageNotification(t, inPath)
  PROVE  CountsOK'
  <1>1. CASE inPath
    BY <1>1 DEF UsageNotification, Count, CountsOK, IInv, UsageTyped
  <1>2. CASE ~inPath
    <2>1. /\ paths' = [paths EXCEPT ![t] = @ - 1]
          /\ refused' = refused
      BY <1>2 DEF UsageNotification
    <2>2. paths[t] # 0
      BY <1>2 DEF UsageNotification, IInv, UsageTyped
    <2>3. usage' = [usage EXCEPT ![t] = IF @ = 0 THEN 0 ELSE @ - 1]
      BY <1>2 DEF UsageNotification, Count
    <2>4. QED
      BY <2>1, <2>2, <2>3 DEF CountsOK, IInv, UsageTyped
  <1>3. QED
    BY <1>1, <1>2

LEMMA StepRInv == IInv /\ RInv /\ [Next]_vars => RInv'
  <1> SUFFICES ASSUME IInv, RInv, [Next]_vars PROVE RInv'
    OBVIOUS
  <1> USE DEF RInv, VanishedOK, MgrMoves
  <1>1. ASSUME UNCHANGED usageVars PROVE CountsOK'
    BY <1>1 DEF CountsOK, usageVars
  <1>2. CASE StartDevice \/ StopDevice
    BY <1>1, <1>2 DEF StartDevice, StopDevice
  <1>3. CASE RemoveDevice
    <2>1. mgr \in {"added", "failed", "stopped", "removePending", "vanished"}
      BY <1>3 DEF RemoveDevice
    <2>2. interrupted' \/ (~resource' /\ ~callback')
      <3>1. CASE previous = "Started"
        <4>1. Books' /\ power' = "D3" /\ resource' = FALSE
          BY <1>3, <3>1, BooksLeave DEF RemoveDevice, IInv
        <4>2. QED
          BY <4>1 DEF Books, HeldMatchesPower
      <3>2. CASE previous # "Started"
        <4>1. interrupted \/ (power = "D3" /\ ~resource)
          BY <2>1, <3>2 DEF IInv, IdleOK, InStepWithManager
        <4>2. UNCHANGED <<held, resource, interrupted>>
          BY <1>3, <3>2 DEF RemoveDevice
        <4>3. QED
          BY <4>1, <4>2 DEF IInv, Books, HeldMatchesPower, held
      <3>3. QED
        BY <3>1, <3>2
    <2>3. CountsOK'
      BY <1>3 DEF RemoveDevice, CountsOK
    <2>4. QED
      BY <1>3, <2>2, <2>3 DEF RemoveDevice
  <1>4. CASE QueryStopDevice \/ CancelStopDevice \/ QueryRemoveDevice
             \/ CancelRemoveDevice
    BY <1>1, <1>4 DEF QueryStopDevice, CancelStopDevice, QueryRemoveDevice,
                      CancelRemoveDevice
  <1>5. CASE SurpriseRemoval
    <2>1. CountsOK' /\ mgr' = "vanished" /\ fdo' = "live"
      BY <1>1, <1>5 DEF SurpriseRemoval
    <2>2. CASE mgr = "started"
      BY <1>5, <2>1, <2>2 DEF SurpriseRemoval, SetState, IInv, InStepWithManager
    <2>3. CASE mgr \in {"stopPending", "removePending"}
      BY <1>5, <2>1, <2>3 DEF SurpriseRemoval
    <2>4. CASE mgr \in {"stopped", "failed"}
      BY <1>5, <2>1, <2>4 DEF SurpriseRemoval, IInv, IdleOK, held
    <2>5. QED
      BY <1>5, <2>2, <2>3, <2>4 DEF SurpriseRemoval
  <1>6. ASSUME NEW t \in UsageTypes, NEW inPath \in BOOLEAN,
               UsageNotification(t, inPath)
        PROVE  RInv'
    <2>1. CountsOK'
      BY <1>6, CountsStep
    <2>2. fdo = "live" /\ UNCHANGED <<mgr, previous, interrupted, fdo>>
      BY <1>6 DEF UsageNotification
    <2>3. UNCHANGED <<power, resource>>
      BY <1>6 DEF UsageNotification, held
    <2>4. QED
      BY <2>1, <2>2, <2>3
  <1>7. CASE Free \/ UNCHANGED vars
    BY <1>1, <1>7 DEF Free, vars, held
  <1>8. CASE SetPower
    BY <1>1, <1>8 DEF SetPower, IInv, IdleOK
  <1>9. QED
    BY <1>2, <1>3, <1>4, <1>5, <1>6, <1>7, <1>8 DEF Next, Finished

LEMMA RemovalInductive == Spec => []RInv
  BY InitRInv, StepRInv, DeviceInductive, PTL DEF Spec

\* FdoDestroy finds nothing of what the start acquired, unless the device
\* vanished while a query was pending, and counts exactly the paths in use
\* of every type that was never refused.
THEOREM RemovalLeavesNothing == Spec => []RemovalUndoesStart
  <1>1. RInv => RemovalUndoesStart
    BY DEF RInv, CountsOK, RemovalUndoesStart
  <1>2. QED
    BY <1>1, RemovalInductive, PTL

-----------------------------------------------------------------------------
(* NotDisableable                                                          *)

Accepting == "refuse" \notin Faults

NInv == refused = {} /\ NotDisableableTracksUsage

LEMMA StepNInv ==
  Accepting /\ IInv /\ RInv /\ RInv' /\ NInv /\ [Next]_vars => NInv'
  <1> SUFFICES ASSUME Accepting, IInv, RInv, RInv', NInv, [Next]_vars
               PROVE  NInv'
    OBVIOUS
  <1> USE DEF NInv, NotDisableableTracksUsage, Unused, MgrMoves, usageVars
  <1>1. ASSUME NEW t \in UsageTypes, NEW inPath \in BOOLEAN,
               UsageNotification(t, inPath)
        PROVE  NInv'
    <2>1. /\ refused' = {}
          /\ notDisableable' <=> \E u \in UsageTypes : usage'[u] # 0
      BY <1>1 DEF UsageNotification, Accepting
    <2>2. \A u \in UsageTypes : usage'[u] = paths'[u]
      BY <2>1 DEF RInv, CountsOK
    <2>3. QED
      BY <2>1, <2>2
  <1>2. CASE RemoveDevice
    BY <1>2 DEF RemoveDevice
  <1>3. CASE StartDevice \/ StopDevice \/ SurpriseRemoval
    BY <1>3 DEF StartDevice, StopDevice, SurpriseRemoval
  <1>4. CASE QueryStopDevice \/ CancelStopDevice \/ QueryRemoveDevice
             \/ CancelRemoveDevice
    BY <1>4 DEF QueryStopDevice, CancelStopDevice, QueryRemoveDevice,
                CancelRemoveDevice
  <1>5. CASE Free \/ SetPower \/ UNCHANGED vars
    BY <1>5 DEF Free, SetPower, vars
  <1>6. QED
    BY <1>1, <1>2, <1>3, <1>4, <1>5 DEF Next, Finished

\* The device is reported as not disableable exactly while it is in use, if
\* the lower driver refuses no path.
THEOREM NotDisableableIsExact ==
  ASSUME Accepting PROVE Spec => []NotDisableableTracksUsage
  <1>1. Init => NInv
    BY DEF Init, NInv, NotDisableableTracksUsage, Unused
  <1>2. IInv /\ RInv /\ RInv' /\ NInv /\ [Next]_vars => NInv'
    BY StepNInv
  <1>3. NInv => NotDisableableTracksUsage
    BY DEF NInv
  <1>4. QED
    BY <1>1, <1>2, <1>3, DeviceInductive, RemovalInductive, PTL DEF Spec

=============================================================================
