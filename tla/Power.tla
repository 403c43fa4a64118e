-------------------------------- MODULE Power --------------------------------
(***************************************************************************)
(* The two power threads of the FDO (src/src/xencons/fdo.c).               *)
(*                                                                         *)
(* FdoDispatchPower leaves a query or set IRP in a slot, one for device    *)
(* and one for system power, and wakes the thread of that slot.  The       *)
(* system thread serves its IRP by asking the power manager for a device   *)
(* IRP, which comes back through the other slot, and waits for it.         *)
(*                                                                         *)
(* The power manager (external) has at most one IRP of each kind in the    *)
(* driver.  IRPs of a shutdown, and power minor functions other than       *)
(* these two, pass straight down and change nothing.                       *)
(*                                                                         *)
(* A request of the system thread may fail like any other power-up: the    *)
(* driver asserts that it does not (fdo.c:1492, 1590), which a free build  *)
(* does not look at, and the system thread goes on as if it had succeeded. *)
(***************************************************************************)
EXTENDS Naturals

CONSTANTS
    SystemStates,   \* the SYSTEM_POWER_STATEs the machine supports
    DeviceState,    \* LowerDeviceCapabilities.DeviceState, by system state
    ForwardFaults,  \* kinds of IRP that may fail on the way up: the lower
                    \* driver's doing or, of the device, FdoD3ToD0's
    RemoveBusy,     \* may the device be removed while power IRPs are about?
    MaxDispatchers  \* bound on the dispatch routines between store and wake

\* DEVICE_POWER_STATE and SYSTEM_POWER_STATE, as wdm.h numbers them.
PowerDeviceD0 == 1
PowerDeviceD3 == 4
PowerSystemWorking == 1
PowerSystemHibernate == 5

Kinds == {"device", "system"}

ASSUME StatesAssumption ==
    /\ PowerSystemWorking \in SystemStates
    /\ SystemStates \subseteq PowerSystemWorking .. PowerSystemHibernate

\* The driver asserts that it is never sent to D1 or D2.
ASSUME DeviceStateAssumption ==
    /\ DeviceState \in [SystemStates -> {PowerDeviceD0, PowerDeviceD3}]
    /\ \A s \in SystemStates :
          DeviceState[s] = PowerDeviceD0 <=> s = PowerSystemWorking

ASSUME PowerAssumption ==
    /\ ForwardFaults \subseteq Kinds
    /\ RemoveBusy \in BOOLEAN
    /\ MaxDispatchers \in Nat \ {0}

VARIABLES
    po,         \* whether the power manager has an IRP of a kind in the driver
    slot,       \* Fdo->DevicePowerIrp and Fdo->SystemPowerIrp
    waking,     \* dispatch routines about to call ThreadWake
    event, alerted, \* of DevicePowerThread and SystemPowerThread
    pc,         \* where each thread is
    held,       \* the IRP each thread serves
    request,    \* the device IRP the system thread asked for
    system,     \* Dx->SystemPowerState
    power,      \* Dx->DevicePowerState
    failed,     \* history: the last IRP to set the device's power failed
    fdo         \* where FdoDestroy is

irpVars == <<po, slot, held, request>>
threadVars == <<event, alerted, pc>>
deviceVars == <<power, failed>>
vars == <<irpVars, waking, threadVars, system, deviceVars, fdo>>

NoIrp == [minor |-> "none", to |-> 0]
Irps(states) == [minor : {"set", "query"}, to : states]

PC == {"check", "wait", "clear", "test", "take", "process", "ask", "await",
       "finish", "exit"}

FdoPC == {"live", "alertDevice", "joinDevice", "alertSystem", "joinSystem",
          "gone"}

Init ==
    /\ po = [k \in Kinds |-> "idle"]
    /\ slot = [k \in Kinds |-> NoIrp]
    /\ waking = [k \in Kinds |-> 0]
    /\ event = [k \in Kinds |-> FALSE]
    /\ alerted = [k \in Kinds |-> FALSE]
    /\ pc = [k \in Kinds |-> "check"]
    /\ held = [k \in Kinds |-> NoIrp]
    /\ request = "none"
    /\ system = PowerSystemWorking
    /\ power = PowerDeviceD3
    /\ failed = FALSE
    /\ fdo = "live"

Goto(k, l) == pc' = [pc EXCEPT ![k] = l]

At(k, from, to) == pc[k] = from /\ Goto(k, to)

-----------------------------------------------------------------------------
(* Mistakes the runs must notice; see "mutants" in PROJECT.json.           *)

WakeForgotten(k) ==
    /\ waking[k] > 0
    /\ waking' = [waking EXCEPT ![k] = @ - 1]
    /\ UNCHANGED <<irpVars, threadVars, system, deviceVars, fdo>>

\* KeClearEvent before the wait and not after it.
ClearBeforeWait(k) ==
    /\ \/ At(k, "wait", "wait") /\ event' = [event EXCEPT ![k] = FALSE]
       \/ event[k] /\ At(k, "wait", "clear") /\ UNCHANGED event
    /\ UNCHANGED <<irpVars, waking, alerted, system, deviceVars, fdo>>

TakeWithoutClear(k) ==
    /\ At(k, "take", IF slot[k] = NoIrp THEN "check" ELSE "process")
    /\ held' = [held EXCEPT ![k] = slot[k]]
    /\ UNCHANGED <<po, slot, request, waking, event, alerted, system,
                   deviceVars, fdo>>

PowerUpOnly ==
    /\ At("device", "process", "finish")
    /\ power' = IF held["device"].minor = "set" /\ held["device"].to < power
                THEN held["device"].to ELSE power
    /\ UNCHANGED <<irpVars, waking, event, alerted, system, failed, fdo>>

\* KeInitializeEvent with the event set: the wait is over before the answer.
AnswerNotAwaited ==
    /\ request # "none"
    /\ At("system", "await", "finish")
    /\ request' = "none"
    /\ UNCHANGED <<po, slot, held, waking, event, alerted, system, deviceVars,
                   fdo>>

-----------------------------------------------------------------------------
(* FdoDispatchPower                                                        *)

Dispatch(k, i) ==
    /\ fdo = "live" \/ RemoveBusy
    /\ po[k] = "idle"
    /\ waking[k] < MaxDispatchers
    /\ po' = [po EXCEPT ![k] = "sent"]
    /\ slot' = [slot EXCEPT ![k] = i]
    /\ waking' = [waking EXCEPT ![k] = @ + 1]

DispatchSystem ==
    /\ \E i \in Irps(SystemStates) : Dispatch("system", i)
    /\ UNCHANGED <<held, request, threadVars, system, deviceVars, fdo>>

\* The IRP the system thread asked for; it is not failed by PoRequestPowerIrp.
DispatchRequested ==
    /\ request = "asked"
    /\ Dispatch("device", [minor |-> held["system"].minor,
                           to |-> DeviceState[held["system"].to]])
    /\ request' = "sent"
    /\ UNCHANGED <<held, threadVars, system, deviceVars, fdo>>

\* Somebody else changes the power of the device while the system works.
DispatchDevice ==
    /\ po["system"] = "idle" /\ system = PowerSystemWorking
    /\ \E i \in Irps({PowerDeviceD0, PowerDeviceD3}) : Dispatch("device", i)
    /\ UNCHANGED <<held, request, threadVars, system, deviceVars, fdo>>

\* ThreadWake; the IRP may long be served.
Wake(k) ==
    /\ waking[k] > 0
    /\ waking' = [waking EXCEPT ![k] = @ - 1]
    /\ event' = [event EXCEPT ![k] = TRUE]
    /\ UNCHANGED <<irpVars, alerted, pc, system, deviceVars, fdo>>

-----------------------------------------------------------------------------
(* FdoDevicePower and FdoSystemPower: the common loop                      *)

CheckSlot(k) ==
    /\ At(k, "check", IF slot[k] = NoIrp THEN "wait" ELSE "test")
    /\ UNCHANGED <<irpVars, waking, event, alerted, system, deviceVars, fdo>>

Wait(k) ==
    /\ event[k]
    /\ At(k, "wait", "clear")
    /\ UNCHANGED <<irpVars, waking, event, alerted, system, deviceVars, fdo>>

ClearEvent(k) ==
    /\ At(k, "clear", "test")
    /\ event' = [event EXCEPT ![k] = FALSE]
    /\ UNCHANGED <<irpVars, waking, alerted, system, deviceVars, fdo>>

\* An alerted thread leaves whatever is in its slot.
TestAlerted(k) ==
    /\ At(k, "test", IF alerted[k] THEN "exit" ELSE "take")
    /\ UNCHANGED <<irpVars, waking, event, alerted, system, deviceVars, fdo>>

Take(k) ==
    /\ At(k, "take", IF slot[k] = NoIrp THEN "check" ELSE "process")
    /\ held' = [held EXCEPT ![k] = slot[k]]
    /\ slot' = [slot EXCEPT ![k] = NoIrp]
    /\ UNCHANGED <<po, request, waking, event, alerted, system, deviceVars, fdo>>

\* The IRP is completed, here or by the driver below.
Complete(k) ==
    /\ Goto(k, "check")
    /\ po' = [po EXCEPT ![k] = "idle"]
    /\ held' = [held EXCEPT ![k] = NoIrp]
    /\ request' = IF k = "device" /\ request = "sent" THEN "done" ELSE request
    /\ UNCHANGED slot

-----------------------------------------------------------------------------
(* __FdoSetDevicePower and __FdoQueryDevicePower                           *)

\* Up: the driver below first, then FdoD3ToD0, and either may fail.  Down:
\* FdoD0ToD3, which cannot.  To the state the device is in: nothing.
SetDevicePower ==
    /\ held["device"].minor = "set"
    /\ \/ power' = held["device"].to /\ failed' = FALSE
       \/ /\ "device" \in ForwardFaults /\ held["device"].to < power
          /\ failed' = TRUE
          /\ UNCHANGED power

\* Passed down, whatever becomes of it there.
QueryDevicePower ==
    /\ held["device"].minor = "query"
    /\ UNCHANGED deviceVars

ProcessDevice ==
    /\ At("device", "process", "finish")
    /\ SetDevicePower \/ QueryDevicePower
    /\ UNCHANGED <<irpVars, waking, event, alerted, system, fdo>>

FinishDevice ==
    /\ pc["device"] = "finish"
    /\ Complete("device")
    /\ UNCHANGED <<waking, event, alerted, system, deviceVars, fdo>>

-----------------------------------------------------------------------------
(* __FdoSetSystemPower and __FdoQuerySystemPower                           *)

\* Up: the driver below first, and the new state; then the device.
ProcessSystem ==
    LET irp == held["system"]
        forward == irp.to < system
    IN  /\ \/ irp.to # system /\ At("system", "process", "ask")
           \/ /\ irp.to = system \/ (forward /\ "system" \in ForwardFaults)
              /\ At("system", "process", "finish")
        /\ system' = IF forward /\ irp.minor = "set" /\ pc'["system"] = "ask"
                     THEN irp.to ELSE system
        /\ UNCHANGED <<irpVars, waking, event, alerted, deviceVars, fdo>>

\* FdoRequestSetDevicePower and FdoRequestQueryDevicePower.
AskForDevice ==
    /\ At("system", "ask", "await")
    /\ request' = "asked"
    /\ UNCHANGED <<po, slot, held, waking, event, alerted, system, deviceVars, fdo>>

AwaitDevice ==
    /\ request = "done"
    /\ At("system", "await", "finish")
    /\ request' = "none"
    /\ UNCHANGED <<po, slot, held, waking, event, alerted, system, deviceVars, fdo>>

\* Down: the device first, then the new state and the driver below.
FinishSystem ==
    /\ pc["system"] = "finish"
    /\ system' = IF held["system"].minor = "set" /\ held["system"].to > system
                 THEN held["system"].to ELSE system
    /\ Complete("system")
    /\ UNCHANGED <<waking, event, alerted, deviceVars, fdo>>

-----------------------------------------------------------------------------
(* FdoStartDevice, FdoStopDevice, FdoRemoveDevice and FdoDestroy           *)

Quiet ==
    /\ \A k \in Kinds : po[k] = "idle" /\ waking[k] = 0
    /\ system = PowerSystemWorking

\* FdoStartDevice and FdoStopDevice change the state of the device without
\* the device thread; a start that fails changes nothing.
StartDevice ==
    /\ fdo = "live" /\ Quiet
    /\ power = PowerDeviceD3 /\ power' = PowerDeviceD0
    /\ UNCHANGED <<irpVars, waking, threadVars, system, failed, fdo>>

StopDevice ==
    /\ fdo = "live" /\ Quiet
    /\ power = PowerDeviceD0 /\ power' = PowerDeviceD3
    /\ UNCHANGED <<irpVars, waking, threadVars, system, failed, fdo>>

\* A device that was not started before it went is left in its power state.
RemoveDevice ==
    /\ fdo = "live" /\ (RemoveBusy \/ Quiet)
    /\ power' \in {power, PowerDeviceD3}
    /\ fdo' = "alertDevice"
    /\ UNCHANGED <<irpVars, waking, threadVars, system, failed>>

\* ThreadAlert.
Alert(k) ==
    /\ alerted' = [alerted EXCEPT ![k] = TRUE]
    /\ event' = [event EXCEPT ![k] = TRUE]

AlertAndJoin ==
    /\ \/ /\ fdo = "alertDevice" /\ fdo' = "joinDevice"
          /\ Alert("device")
       \/ /\ fdo = "joinDevice" /\ fdo' = "alertSystem"
          /\ pc["device"] = "exit"
          /\ UNCHANGED <<event, alerted>>
       \/ /\ fdo = "alertSystem" /\ fdo' = "joinSystem"
          /\ Alert("system")
       \/ /\ fdo = "joinSystem" /\ fdo' = "gone"
          /\ pc["system"] = "exit"
          /\ UNCHANGED <<event, alerted>>
    /\ UNCHANGED <<irpVars, waking, pc, system, deviceVars>>

-----------------------------------------------------------------------------

ThreadStep(k) ==
    CheckSlot(k) \/ Wait(k) \/ ClearEvent(k) \/ TestAlerted(k) \/ Take(k)

DeviceStep == ThreadStep("device") \/ ProcessDevice \/ FinishDevice

SystemStep ==
    ThreadStep("system") \/ ProcessSystem \/ AskForDevice \/ AwaitDevice
        \/ FinishSystem

Finished == fdo = "gone" /\ UNCHANGED vars

Next ==
    \/ DispatchSystem \/ DispatchRequested \/ DispatchDevice
    \/ \E k \in Kinds : Wake(k)
    \/ DeviceStep \/ SystemStep
    \/ StartDevice \/ StopDevice \/ RemoveDevice \/ AlertAndJoin
    \/ Finished

Spec == Init /\ [][Next]_vars

\* Threads run, dispatch routines return, FdoDestroy runs, and the power
\* manager sends the IRP it was asked for.
Fairness ==
    /\ WF_vars(DeviceStep) /\ WF_vars(SystemStep)
    /\ \A k \in Kinds : WF_vars(Wake(k))
    /\ WF_vars(DispatchRequested)
    /\ WF_vars(AlertAndJoin)

FairSpec == Spec /\ Fairness

-----------------------------------------------------------------------------
(* Properties                                                              *)

\* Every variable has its type, and a thread that serves an IRP has one.
TypeOK ==
    /\ po \in [Kinds -> {"idle", "sent"}]
    /\ \A f \in {slot, held} :
          /\ DOMAIN f = Kinds
          /\ f["device"] \in Irps({PowerDeviceD0, PowerDeviceD3}) \cup {NoIrp}
          /\ f["system"] \in Irps(SystemStates) \cup {NoIrp}
    /\ waking \in [Kinds -> 0 .. MaxDispatchers]
    /\ event \in [Kinds -> BOOLEAN] /\ alerted \in [Kinds -> BOOLEAN]
    /\ pc \in [Kinds -> PC]
    /\ \A k \in Kinds :
          pc[k] \in {"process", "ask", "await", "finish"} => held[k] # NoIrp
    /\ request \in {"none", "asked", "sent", "done"}
    /\ system \in SystemStates
    /\ power \in {PowerDeviceD0, PowerDeviceD3}
    /\ failed \in BOOLEAN
    /\ fdo \in FdoPC

\* ASSERT3P(Fdo->DevicePowerIrp, ==, NULL) and the same of SystemPowerIrp
\* (fdo.c:2138 and 2150): whenever the power manager may send the next IRP,
\* the slot is free; every IRP it waits for is in the slot or with the thread.
SlotAssertion ==
    \A k \in Kinds :
        /\ po[k] = "idle" => slot[k] = NoIrp /\ held[k] = NoIrp
        /\ po[k] = "sent" => (slot[k] = NoIrp) # (held[k] = NoIrp)

\* A thread that waits has an empty slot or is about to be woken: an IRP
\* stored just after the thread looked is not slept over.
NoIrpSleptOver ==
    \A k \in Kinds :
        pc[k] = "wait" /\ slot[k] # NoIrp => event[k] \/ waking[k] > 0

\* A machine that sleeps has the device in D3: the system IRP is passed down
\* only when the device IRP has done its work.
SleepsInD3 ==
    system # PowerSystemWorking /\ po["system"] = "idle"
        => power = PowerDeviceD3

\* The system thread goes on only when the device IRP it asked for has done
\* its work: on the way down with the device in D3, whatever fails, and on
\* the way up with the device in D0 or the power-up failed (fdo.c:1481-1492,
\* which nobody hears of) or the device on its way out.
DeviceAnswersFirst ==
    [][pc["system"] = "await" /\ pc'["system"] = "finish"
          /\ held["system"].minor = "set"
          => \/ power = DeviceState[held["system"].to]
             \/ /\ DeviceState[held["system"].to] = PowerDeviceD0
                /\ failed \/ fdo # "live"]_vars

\* Every power IRP is completed.
PowerIrpsComplete == \A k \in Kinds : po[k] = "sent" ~> po[k] = "idle"

=============================================================================
