------------------------------- MODULE Driver -------------------------------
(***************************************************************************)
(* The life of xencons.sys and of its one device object: DriverEntry,      *)
(* AddDevice, Dispatch and DriverUnload of driver.c, FdoCreate and         *)
(* FdoDestroy of fdo.c, with the FDO's two power threads (Thread) and the  *)
(* registry helpers (Registry).                                            *)
(*                                                                         *)
(* FdoCreate climbs a ladder of eleven rungs and FdoDestroy goes down      *)
(* another way; on both ways the threads that use the FDO are told to end  *)
(* and waited for.  IRPs are dispatched meanwhile, and FdoRemoveDevice     *)
(* waits for none of them: one that passed the test of DevicePnpState just *)
(* before can find the FDO, or a thread it would wake, gone.  Such an IRP  *)
(* is followed no further ("astray"), and nothing is promised of it.       *)
(***************************************************************************)
EXTENDS Thread, Registry

CONSTANTS
    system, device,   \* Fdo->SystemPowerThread and Fdo->DevicePowerThread
    Irps,             \* the IRPs that may be in Dispatch at once
    Faults            \* what may fail in FdoCreate, beside DriverEntry

\* The thread objects are these two (of Thread, for any others, too, there
\* are theorems in DriverProofs).
PowerThreads == system # device /\ Threads = {system, device}

VARIABLES
    driver,     \* the rung of DriverEntry, NotLoaded or Loaded
    owned,      \* what the statics Driver and RegistryPath hold
    phase,      \* what becomes of the device object
    rung,       \* the rung or label of FdoCreate, or the step of FdoDestroy
    fdo,        \* what the device object and the FDO hold
    status,     \* the status FdoCreate will return
    irp         \* [Irps -> IrpPC]

deviceVars == <<phase, rung, fdo, status>>
driverVars == <<vars, registryVars, deviceVars, driver, owned, irp>>

\* "unwind" is on the labels of FdoCreate; "remove" is a device whose state
\* FdoRemoveDevice has set to Deleted.
Phase == {"none", "create", "unwind", "live", "remove", "gone"}

\* "found" has passed the test of DevicePnpState, "inside" has loaded Dx->Fdo.
IrpPC == {"idle", "found", "inside", "astray"}

\* The fields of struct _XENCONS_FDO that FdoCreate fills in; "Stack" is Dx
\* and the two device objects, and that the FDO is attached to them; "DxFdo",
\* below, is Dx->Fdo.
FdoFields == {"Stack", "SystemPowerThread", "DevicePowerThread",
              "LowerBusInterface", "VendorName", "DebugInterface",
              "SuspendInterface", "StoreInterface", "ConsoleInterface",
              "HandleList"}

-----------------------------------------------------------------------------
(* Mistakes the runs must notice; see "mutants" in PROJECT.json.           *)

DestroyKeepsSuspend ==
    << {"DxFdo"}, {"HandleList"}, {"ConsoleInterface"}, {"StoreInterface"},
       {"DebugInterface"}, {"VendorName"},
       {"LowerBusInterface", "BusReference"}, {"DevicePowerThread"},
       {"SystemPowerThread"}, {"Stack", "Fdo"}, {"Link"}, {"DeviceObject"} >>

DestroyFreesBeforeJoin ==
    << {"DxFdo"}, {"HandleList"}, {"ConsoleInterface"}, {"StoreInterface"},
       {"SuspendInterface"}, {"DebugInterface"}, {"VendorName"},
       {"LowerBusInterface", "BusReference"}, {"DevicePowerThread"},
       {"Stack", "Fdo"}, {"SystemPowerThread"}, {"Link"}, {"DeviceObject"} >>

StatusNotSet(n) == IF n \in {3, 7} THEN "success" ELSE "failure"

-----------------------------------------------------------------------------
(* DriverEntry and DriverUnload                                            *)

\* RegistryInitialize, RegistryOpenServiceKey, RegistryOpenSubKey.
EntryLadder ==
    << Rung("path", {"RegistryPath"}, {"DriverObject"}),
       Rung("service", {"ServiceKey"}, {"RegistryPath"}),
       Rung("parameters", {"ParametersKey"}, {"ServiceKey"}),
       RungDrops("done", {"ServiceKey"}, {}) >>

NotLoaded == 0
Loaded == Len(EntryLadder) + 1

DriverEntry ==
    /\ driver = NotLoaded
    /\ driver' = 1
    /\ owned' = owned \cup {"DriverObject"}
    /\ UNCHANGED <<vars, registryVars, deviceVars, irp>>

EntryGoesOn ==
    /\ driver \in 1 .. Len(EntryLadder)
    /\ driver' = driver + 1
    /\ owned' = Climbed(EntryLadder, driver, owned)
    /\ UNCHANGED <<vars, registryVars, deviceVars, irp>>

EntryFails ==
    /\ driver \in 1 .. Len(EntryLadder) - 1
    /\ driver' = NotLoaded
    /\ owned' = owned \ Unwound(EntryLadder, driver)
    /\ UNCHANGED <<vars, registryVars, deviceVars, irp>>

\* The I/O manager unloads a driver that has no device object.
DriverUnload ==
    /\ driver = Loaded
    /\ phase \in {"none", "gone"} /\ call.op = "none"
    /\ driver' = NotLoaded
    /\ owned' = owned \ {"ParametersKey", "RegistryPath", "DriverObject"}
    /\ UNCHANGED <<vars, registryVars, deviceVars, irp>>

-----------------------------------------------------------------------------
(* AddDevice and FdoCreate                                                 *)

\* The interface is allocated, filled in by the bus driver and referenced.
AcquireLowerBusInterface(undo) ==
    Rung("bus", {"LowerBusInterface", "BusReference"}, undo)

ReleaseLowerBusInterface == {"LowerBusInterface", "BusReference"}

\* FdoQueryInterface: an IRP to the lower driver fills in the field.
QueryInterface(name, field, undo) == Rung(name, {field}, undo)

\* fail11 clears ConsoleInterface, but no label clears StoreInterface.
CreateLadder ==
    << Rung("device", {"DeviceObject"}, {}),
       Rung("link", {"Link"}, {"DeviceObject"}),
       Rung("fdo", {"Fdo", "Stack"}, {"Link"}),
       Rung("thread", {"SystemPowerThread"}, {"Stack", "Fdo"}),
       Rung("thread", {"DevicePowerThread"}, {"SystemPowerThread"}),
       AcquireLowerBusInterface({"DevicePowerThread"}),
       Rung("busData", {"VendorName"}, ReleaseLowerBusInterface),
       QueryInterface("debug", "DebugInterface", {"VendorName"}),
       QueryInterface("suspend", "SuspendInterface", {"DebugInterface"}),
       QueryInterface("store", "StoreInterface", {"SuspendInterface"}),
       QueryInterface("console", "ConsoleInterface", {"ConsoleInterface"}),
       Rung("done", {"HandleList", "DxFdo"}, {}) >>

Fields == [t \in Threads |-> IF t = system THEN "SystemPowerThread"
                                           ELSE "DevicePowerThread"]

\* The thread whose rung FdoCreate stands on.
Creating(t) == phase = "create" /\ CreateLadder[rung].takes = {Fields[t]}

\* Each thread object is created once: AddDevice is not called again once it
\* came as far as the first.
AddDevice ==
    /\ driver = Loaded /\ call.op = "none"
    /\ phase = "none" /\ \A t \in Threads : owner[t] = "none"
    /\ phase' = "create"
    /\ rung' = 1
    /\ status' = "none"
    /\ UNCHANGED <<vars, registryVars, fdo, driver, owned, irp>>

\* ThreadCreate, until it returns; a late failure is "reference".
CreateThread(t) ==
    /\ Creating(t)
    /\ \/ Allocate(t) \/ Spawn(t)
       \/ "spawn" \in Faults /\ SpawnFails(t)
       \/ Reference(t) /\ (owner'[t] = "failAlert" => "reference" \in Faults)
       \/ owner[t] = "failAlert" /\ AlertStore(t)
       \/ owner[t] = "failWake" /\ AlertWake(t)
       \/ FailDrop(t)
    /\ UNCHANGED <<registryVars, deviceVars, driver, owned, irp>>

\* A rung succeeds; after the last one Dx->Fdo is set and IRPs may come.
CreateGoesOn ==
    /\ phase = "create"
    /\ \A t \in Threads : Creating(t) => owner[t] = "open"
    /\ fdo' = Climbed(CreateLadder, rung, fdo)
    /\ IF rung < Len(CreateLadder)
       THEN rung' = rung + 1 /\ UNCHANGED <<phase, status>>
       ELSE phase' = "live" /\ rung' = 0 /\ status' = "success"
    /\ UNCHANGED <<vars, registryVars, driver, owned, irp>>

\* FdoGetBusData returns a length: its failure leaves status as it was.
StatusOf(n) == IF CreateLadder[n].step = "busData" THEN "success" ELSE "failure"

\* A rung fails.  __FdoAcquireLowerBusInterface takes the interface before it
\* looks at its version ("busVersion"), and then does not dereference it.
CreateFails ==
    /\ phase = "create"
    /\ \/ /\ \A t \in Threads : ~Creating(t)
          /\ \/ CreateLadder[rung].step \in Faults /\ UNCHANGED fdo
             \/ /\ CreateLadder[rung].step = "bus" /\ "busVersion" \in Faults
                /\ fdo' = fdo \cup {"BusReference"}
       \/ \E t \in Threads :
             /\ Creating(t)
             /\ owner[t] = "failed" \/ (owner[t] = "none" /\ "thread" \in Faults)
             /\ UNCHANGED fdo
    /\ phase' = "unwind"
    /\ status' = StatusOf(rung)
    /\ UNCHANGED <<vars, registryVars, rung, driver, owned, irp>>

-----------------------------------------------------------------------------
(* The labels of FdoCreate, and FdoDestroy                                 *)

\* FdoRemoveDevice releases the bus interface first, so that FdoDestroy's own
\* release finds none.
DestroySteps ==
    << ReleaseLowerBusInterface,
       {"DxFdo"}, {"HandleList"}, {"ConsoleInterface"}, {"StoreInterface"},
       {"SuspendInterface"}, {"DebugInterface"}, {"VendorName"},
       ReleaseLowerBusInterface, {"DevicePowerThread"},
       {"SystemPowerThread"}, {"Stack", "Fdo"}, {"Link"}, {"DeviceObject"} >>

\* What is given back now, on either way down.
GivingUp ==
    CASE phase = "unwind" -> CreateLadder[rung].undo
      [] phase = "remove" -> DestroySteps[rung]
      [] OTHER -> {}

\* FdoRemoveDevice sets the state to Deleted before it calls FdoDestroy.
Remove ==
    /\ phase = "live"
    /\ phase' = "remove"
    /\ rung' = 1
    /\ UNCHANGED <<vars, registryVars, fdo, status, driver, owned, irp>>

\* ThreadAlert and ThreadJoin.
EndThread(t) ==
    /\ Fields[t] \in GivingUp
    /\ AlertStore(t) \/ AlertWake(t) \/ Join(t)
    /\ UNCHANGED <<registryVars, deviceVars, driver, owned, irp>>

LetGo ==
    /\ phase \in {"unwind", "remove"}
    /\ \A t \in Threads : Fields[t] \in GivingUp => owner[t] = "joined"
    /\ fdo' = fdo \ GivingUp
    /\ CASE phase = "unwind" /\ rung > 1 -> rung' = rung - 1 /\ UNCHANGED phase
         [] phase = "unwind" /\ rung = 1 -> rung' = 0 /\ phase' = "none"
         [] phase = "remove" /\ rung < Len(DestroySteps) ->
                rung' = rung + 1 /\ UNCHANGED phase
         [] OTHER -> rung' = 0 /\ phase' = "gone"
    /\ UNCHANGED <<vars, registryVars, status, driver, owned, irp>>

-----------------------------------------------------------------------------
(* Dispatch                                                                *)

\* Once the state is Deleted the IRP is completed with STATUS_NO_SUCH_DEVICE.
Arrive(i) ==
    /\ irp[i] = "idle" /\ phase = "live"
    /\ irp' = [irp EXCEPT ![i] = "found"]
    /\ UNCHANGED <<vars, registryVars, deviceVars, driver, owned>>

Enter(i) ==
    /\ irp[i] = "found" /\ "DxFdo" \in fdo
    /\ irp' = [irp EXCEPT ![i] = "inside"]
    /\ UNCHANGED <<vars, registryVars, deviceVars, driver, owned>>

\* FdoDispatchPower wakes the thread whose slot it filled.
WakeThread(i, t) ==
    /\ irp[i] = "inside"
    /\ Wake(t)
    /\ UNCHANGED <<registryVars, deviceVars, driver, owned, irp>>

\* Dx->Fdo is NULL, or the FDO it loaded, or a thread of it, has been freed:
\* from here on the behaviour is undefined.
GoAstray(i) ==
    /\ \/ irp[i] = "found" /\ "DxFdo" \notin fdo
       \/ /\ irp[i] = "inside"
          /\ "Fdo" \notin fdo \/ \E t \in Threads : memory[t] = "freed"
    /\ irp' = [irp EXCEPT ![i] = "astray"]
    /\ UNCHANGED <<vars, registryVars, deviceVars, driver, owned>>

Leave(i) ==
    /\ irp[i] = "inside"
    /\ irp' = [irp EXCEPT ![i] = "idle"]
    /\ UNCHANGED <<vars, registryVars, deviceVars, driver, owned>>

-----------------------------------------------------------------------------

DriverInit ==
    /\ Init /\ RegistryInit
    /\ driver = NotLoaded /\ owned = {}
    /\ phase = "none" /\ rung = 0 /\ fdo = {} /\ status = "none"
    /\ irp = [i \in Irps |-> "idle"]

\* The power threads: they end when they are alerted and not otherwise.
PowerThread(t) ==
    /\ WorkerStep(t)
    /\ UNCHANGED <<registryVars, deviceVars, driver, owned, irp>>

\* RegistryQuiet: the helpers are looked at while no device was added yet.
UseRegistry ==
    /\ driver = Loaded /\ phase = "none" /\ status = "none"
    /\ RegistryNext
    /\ UNCHANGED <<vars, deviceVars, driver, owned, irp>>

EntryStep == EntryGoesOn \/ EntryFails

DeviceStep ==
    \/ CreateGoesOn \/ CreateFails \/ LetGo
    \/ \E t \in Threads : CreateThread(t) \/ EndThread(t)

DriverNext ==
    \/ DriverEntry \/ EntryStep \/ DriverUnload \/ UseRegistry
    \/ AddDevice \/ Remove \/ DeviceStep
    \/ \E t \in Threads : PowerThread(t)
    \/ \E i \in Irps : \/ Arrive(i) \/ Enter(i) \/ GoAstray(i) \/ Leave(i)
                       \/ \E t \in Threads : WakeThread(i, t)

DriverSpec == DriverInit /\ [][DriverNext]_driverVars

\* A call of the I/O manager goes on until it returns, a thread runs when it
\* can.  Nothing obliges anybody to load the driver or to remove a device.
DriverFairness ==
    /\ WF_driverVars(EntryStep)
    /\ WF_driverVars(DeviceStep)
    /\ \A t \in Threads : WF_driverVars(PowerThread(t))

DriverFairSpec == DriverSpec /\ DriverFairness

-----------------------------------------------------------------------------
(* Properties                                                              *)

\* A driver that is not loaded holds nothing (Driver is zero memory, driver.c:213
\* and 300, and RegistryPath is freed), nor does a device that is gone; and an
\* AddDevice that failed, at whichever rung, says so and leaves nothing.
NothingLeft ==
    /\ driver = NotLoaded => owned = {}
    /\ phase \in {"none", "gone"} => fdo = {}
    /\ phase = "none" => status # "success"

\* ASSERT(IsZeroMemory(Fdo, sizeof (XENCONS_FDO))) on both ways to __FdoFree
\* (fdo.c:2710 and 2783): whichever rung failed and however far the power
\* threads are, every field was taken back before the FDO is.
FreeAssertion ==
    "Fdo" \in GivingUp => fdo \cap FdoFields \subseteq GivingUp

\* A power thread never runs without its FDO: both ways down wait for it,
\* wherever it is.  A thread whose ThreadCreate has failed after it started
\* is not waited for, and is the exception.
FdoOutlivesThreads ==
    \A t \in Threads :
        WorkerHolds(t) /\ owner[t] # "failed" => "Fdo" \in fdo

\* Every call of the I/O manager returns: DriverEntry, AddDevice wherever it
\* fails, and the removal, whose joins wait for threads that may be asleep.
CallsReturn ==
    /\ driver \in 1 .. Len(EntryLadder) ~> driver \in {NotLoaded, Loaded}
    /\ phase \in {"create", "unwind", "remove"} ~> phase \in {"none", "live", "gone"}

=============================================================================
