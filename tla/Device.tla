------------------------------- MODULE Device -------------------------------
(***************************************************************************)
(* The FDO's Plug and Play state, and what it acquires to be in D0         *)
(* (src/src/xencons/fdo.c).                                                *)
(*                                                                         *)
(* The PnP manager sends one request at a time and the power manager is    *)
(* quiet meanwhile, so a handler is one action; what is hard is the order  *)
(* of requests.  The driver remembers its state and the one before; the    *)
(* manager (external) has its own idea of where the device is, in mgr.     *)
(*                                                                         *)
(* What is published in the store is the subject of module Distribution;   *)
(* that its requests fail makes no difference to what is modelled here.    *)
(***************************************************************************)
EXTENDS Naturals

CONSTANTS
    Faults,         \* which calls may fail
    UsageTypes,     \* DEVICE_USAGE_NOTIFICATION_TYPE
    MaxUsage        \* bound on the paths of one type through the device

ASSUME DeviceFaultAssumption ==
    Faults \subseteq {"forward", "suspend", "store", "register", "refuse"}

ASSUME UsageAssumption == MaxUsage \in Nat

VARIABLES
    mgr,            \* what the PnP manager has the device down as
    pnp, previous,  \* Dx->DevicePnpState, Dx->PreviousDevicePnpState
    power,          \* Dx->DevicePowerState
    resource,       \* Fdo->Resource is not all zero
    suspendRefs, storeRefs, \* references held on the XENBUS interfaces
    callback,       \* Fdo->SuspendCallbackLate # NULL
    paths,          \* paging, hibernation and dump file paths in use
    usage, notDisableable,  \* Fdo->Usage, Fdo->NotDisableable
    refused,        \* history: types of which the lower driver refused a path
    interrupted,    \* history: the device vanished while a query was pending
    fdo             \* FdoDestroy: "live", at its last "assert", "freed"

held == <<power, suspendRefs, storeRefs, callback>>
usageVars == <<paths, usage, notDisableable, refused>>
vars == <<mgr, pnp, previous, resource, held, usageVars, interrupted, fdo>>

MgrState == {"added", "failed", "started", "stopPending", "stopped",
             "removePending", "vanished", "removed"}
PnpState == {"Added", "Started", "StopPending", "Stopped", "RemovePending",
             "SurpriseRemovePending", "Deleted"}

Init ==
    /\ mgr = "added"
    /\ pnp = "Added" /\ previous = "Added"
    /\ power = "D3"
    /\ resource = FALSE
    /\ suspendRefs = 0 /\ storeRefs = 0
    /\ callback = FALSE
    /\ paths = [t \in UsageTypes |-> 0]
    /\ usage = paths /\ notDisableable = FALSE
    /\ refused = {} /\ interrupted = FALSE
    /\ fdo = "live"

MgrMoves(from, to) == fdo = "live" /\ mgr \in from /\ mgr' = to

\* No such path runs through the device.
Unused == \A t \in UsageTypes : paths[t] = 0

-----------------------------------------------------------------------------
(* Mistakes the runs must notice; see "mutants" in PROJECT.json.           *)

SetStateOnly(state) == pnp' = state /\ UNCHANGED previous

RestoreAlways(state) == pnp' = previous /\ UNCHANGED previous

FailWithoutUnwind ==
    /\ "store" \in Faults
    /\ suspendRefs' = suspendRefs + 1
    /\ UNCHANGED <<power, storeRefs, callback>>

-----------------------------------------------------------------------------

\* __FdoSetDevicePnpState.
SetState(state) == pnp' = state /\ previous' = pnp

\* __FdoRestoreDevicePnpState: a cancel may come without its query.
Restore(state) ==
    /\ pnp' = IF pnp = state THEN previous ELSE pnp
    /\ UNCHANGED previous

\* FdoD3ToD0.  The results of FdoSetDistribution and of enabling the device
\* interface are ignored.
D3ToD0 ==
    /\ power' = "D0"
    /\ suspendRefs' = suspendRefs + 1
    /\ storeRefs' = storeRefs + 1
    /\ callback' = TRUE

\* Its error path releases what was acquired.
D3ToD0Fails ==
    /\ Faults \cap {"suspend", "store", "register"} # {}
    /\ UNCHANGED held

\* FdoD0ToD3; the handles go as well (module Handles).
D0ToD3 ==
    /\ power' = "D3"
    /\ callback' = FALSE
    /\ storeRefs' = storeRefs - 1
    /\ suspendRefs' = suspendRefs - 1

LeaveD0 == IF power = "D0" THEN D0ToD3 ELSE UNCHANGED held

-----------------------------------------------------------------------------
(* FdoDispatchPnp                                                          *)

StartDevice ==
    /\ \/ /\ MgrMoves({"added", "stopped"}, "started")
          /\ D3ToD0
          /\ resource' = TRUE
          /\ SetState("Started")
       \/ /\ MgrMoves({"added", "stopped"}, "failed")
          /\ \/ "forward" \in Faults /\ UNCHANGED <<held, resource>>
             \/ D3ToD0Fails /\ resource' = FALSE
          /\ UNCHANGED <<pnp, previous>>
    /\ UNCHANGED <<usageVars, interrupted, fdo>>

QueryStopDevice ==
    /\ MgrMoves({"started"}, "stopPending")
    /\ SetState("StopPending")
    /\ UNCHANGED <<resource, held, usageVars, interrupted, fdo>>

CancelStopDevice ==
    /\ MgrMoves({"started", "stopPending"}, "started")
    /\ Restore("StopPending")
    /\ UNCHANGED <<resource, held, usageVars, interrupted, fdo>>

StopDevice ==
    /\ MgrMoves({"stopPending"}, "stopped")
    /\ LeaveD0
    /\ resource' = FALSE
    /\ SetState("Stopped")
    /\ UNCHANGED <<usageVars, interrupted, fdo>>

QueryRemoveDevice ==
    /\ MgrMoves({"started"}, "removePending")
    /\ SetState("RemovePending")
    /\ UNCHANGED <<resource, held, usageVars, interrupted, fdo>>

CancelRemoveDevice ==
    /\ MgrMoves({"started", "removePending"}, "started")
    /\ Restore("RemovePending")
    /\ UNCHANGED <<resource, held, usageVars, interrupted, fdo>>

\* Whatever is pending, and whatever runs through the device.
SurpriseRemoval ==
    /\ MgrMoves({"started", "stopPending", "removePending", "stopped",
                 "failed"}, "vanished")
    /\ SetState("SurpriseRemovePending")
    /\ interrupted' = (mgr \in {"stopPending", "removePending"})
    /\ UNCHANGED <<resource, held, usageVars, fdo>>

\* "if (previous != Started) goto done" skips the return to D3.  FdoDestroy
\* follows: NotDisableable is reset, then its assertions are reached.
RemoveDevice ==
    /\ MgrMoves({"added", "failed", "stopped", "removePending", "vanished"},
                "removed")
    /\ IF previous = "Started"
       THEN LeaveD0 /\ resource' = FALSE
       ELSE UNCHANGED <<held, resource>>
    /\ SetState("Deleted")
    /\ notDisableable' = FALSE
    /\ fdo' = "assert"
    /\ UNCHANGED <<paths, usage, refused, interrupted>>

\* The extension as FdoDestroy has to leave it.
IsZero == ~resource /\ ~callback /\ \A t \in UsageTypes : usage[t] = 0

\* ASSERT(IsZeroMemory(Fdo, sizeof (XENCONS_FDO))), and the FDO is freed.
Free ==
    /\ fdo = "assert"
    /\ fdo' = "freed"
    /\ UNCHANGED <<mgr, pnp, previous, resource, held, usageVars, interrupted>>

-----------------------------------------------------------------------------
(* FdoDeviceUsageNotification                                              *)

Count(t, inPath) ==
    usage' = [usage EXCEPT ![t] =
                 IF inPath THEN @ + 1 ELSE IF @ = 0 THEN 0 ELSE @ - 1]

\* The lower driver may refuse a new path; the count is not taken back.
UsageNotification(t, inPath) ==
    /\ fdo = "live"
    /\ mgr = "started" \/ (mgr = "vanished" /\ ~inPath)
    /\ usage[t] < MaxUsage \/ ~inPath
    /\ paths[t] > 0 \/ inPath
    /\ Count(t, inPath)
    /\ \/ /\ paths' = [paths EXCEPT ![t] = IF inPath THEN @ + 1 ELSE @ - 1]
          /\ notDisableable' = (\E u \in UsageTypes : usage'[u] # 0)
          /\ UNCHANGED refused
       \/ /\ "refuse" \in Faults /\ inPath
          /\ refused' = refused \cup {t}
          /\ UNCHANGED <<paths, notDisableable>>
    /\ UNCHANGED <<mgr, pnp, previous, resource, held, interrupted, fdo>>

-----------------------------------------------------------------------------
(* The device power thread, while the PnP manager is quiet                 *)

SetPowerDown == power = "D0" /\ D0ToD3

\* The code asserts that FdoD3ToD0 has succeeded (fdo.c:1492); nothing sees to
\* that, and where the assertion is not compiled in the thread goes on.
SetPowerUp ==
    /\ power = "D3"
    /\ \/ D3ToD0
       \/ "forward" \in Faults /\ UNCHANGED held
       \/ D3ToD0Fails

SetPower ==
    /\ mgr = "started"
    /\ SetPowerDown \/ SetPowerUp
    /\ UNCHANGED <<mgr, pnp, previous, resource, usageVars, interrupted, fdo>>

Finished == fdo = "freed" /\ UNCHANGED vars

Next ==
    \/ StartDevice
    \/ QueryStopDevice \/ CancelStopDevice \/ StopDevice
    \/ QueryRemoveDevice \/ CancelRemoveDevice
    \/ SurpriseRemoval \/ RemoveDevice \/ Free
    \/ \E t \in UsageTypes, inPath \in BOOLEAN : UsageNotification(t, inPath)
    \/ SetPower
    \/ Finished

Spec == Init /\ [][Next]_vars

-----------------------------------------------------------------------------
(* Properties                                                              *)

\* Every variable has its type.
TypeOK ==
    /\ mgr \in MgrState
    /\ pnp \in PnpState /\ previous \in PnpState
    /\ power \in {"D0", "D3"}
    /\ resource \in BOOLEAN
    /\ suspendRefs \in 0 .. 1 /\ storeRefs \in 0 .. 1
    /\ callback \in BOOLEAN
    /\ paths \in [UsageTypes -> 0 .. MaxUsage]
    /\ usage \in [UsageTypes -> 0 .. MaxUsage]
    /\ notDisableable \in BOOLEAN
    /\ refused \subseteq UsageTypes
    /\ interrupted \in BOOLEAN
    /\ fdo \in {"live", "assert", "freed"}

\* The references and the suspend callback the device holds are what its
\* power state says, after any sequence of starts, stops, sleeps, failures
\* and surprises: nothing acquired twice or given up twice.
HeldMatchesPower ==
    LET up == power = "D0"
    IN  /\ suspendRefs = IF up THEN 1 ELSE 0
        /\ storeRefs = IF up THEN 1 ELSE 0
        /\ callback <=> up

\* The driver and the PnP manager agree on the device's state, whatever
\* queries were cancelled, or cancelled without having been made.
InStepWithManager ==
    /\ mgr = "started" => pnp = "Started"
    /\ mgr = "stopPending" => pnp = "StopPending" /\ previous = "Started"
    /\ mgr = "stopped" => pnp = "Stopped"
    /\ mgr = "removePending" => pnp = "RemovePending" /\ previous = "Started"
    /\ mgr = "vanished" => pnp = "SurpriseRemovePending"

\* FdoDestroy finds the resources and the suspend callback gone, whatever
\* sequence of requests led there, unless the device vanished while a query
\* was pending; and counted as in use only what is in use (a device may
\* vanish with a path running through it), but for the types of which the
\* lower driver has refused a path.
RemovalUndoesStart ==
    fdo = "assert" =>
        /\ interrupted \/ (~resource /\ ~callback)
        /\ \A t \in UsageTypes \ refused : usage[t] = paths[t]

\* ASSERT(IsZeroMemory(Fdo, sizeof (XENCONS_FDO))) in FdoDestroy
\* (fdo.c:2783), for a device that was not interrupted and is out of use.
DestroyAssertion == fdo = "assert" /\ ~interrupted /\ Unused => IsZero

\* The device is reported as not disableable exactly while some paging,
\* hibernation or dump file path runs through it (if the lower driver
\* refuses no notification).
NotDisableableTracksUsage ==
    fdo = "live" => (notDisableable <=> ~Unused)

=============================================================================
