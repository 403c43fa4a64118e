---------------------------- MODULE DriverProofs ----------------------------
(***************************************************************************)
(* The life of the device object of xencons.sys, proved for every number   *)
(* of IRPs, every choice of what may fail and any registry content, and    *)
(* what the registry helpers hold and return.                              *)
(*                                                                         *)
(* Every step of Driver is a step of Thread or leaves the thread objects   *)
(* alone, so that what is proved first, of any thread objects whatever,    *)
(* holds of the two power threads.  To that the invariant adds, for every  *)
(* phase and rung, what the device object holds (FdoOK), where the two     *)
(* owners stand (PositionOK), and what FdoCreate will return (StatusOK).   *)
(***************************************************************************)
EXTENDS Driver, FiniteSetTheorems, TLAPS

-----------------------------------------------------------------------------
(* The thread object protocol of thread.c, for every set of thread objects. *)
(* The invariant counts: a reference for the owner while it may use the     *)
(* object, one for the thread function while it runs (and, on its behalf,   *)
(* one before PsCreateSystemThread), and the memory is live while the count *)
(* is not zero.                                                             *)

FunctionReference(t) == WorkerHolds(t) \/ owner[t] = "spawn"

CountOK(t) ==
    references[t] = (IF OwnerHolds(t) THEN 1 ELSE 0)
                    + (IF FunctionReference(t) THEN 1 ELSE 0)

MemoryOK(t) ==
    memory[t] = IF owner[t] = "none" THEN "none"
                ELSE IF references[t] = 0 THEN "freed" ELSE "live"

\* Which pairs of positions occur: no system thread before it is spawned,
\* always one in the life of an open thread, and it is over once joined.
PhasesOK(t) ==
    /\ owner[t] \in {"none", "spawn"} => worker[t] = "none" /\ ~alerted[t]
    /\ owner[t] \in {"reference", "failAlert", "failWake", "open",
                     "alertWake", "join"} => worker[t] # "none"
    /\ owner[t] = "joined" => worker[t] = "term"

AlertOK(t) ==
    alerted[t] /\ owner[t] \notin {"alertWake", "failWake"}
               /\ worker[t] = "run"
        => event[t]

ThreadOK(t) == CountOK(t) /\ MemoryOK(t) /\ PhasesOK(t) /\ AlertOK(t)

ThreadInv == TypeOK /\ \A t \in Threads : ThreadOK(t)

LEMMA InitThreadInv == Init => ThreadInv
  BY DEF Init, ThreadInv, TypeOK, OwnerPC, WorkerPC, Memory, ThreadOK, CountOK,
         MemoryOK, PhasesOK, AlertOK, OwnerHolds, WorkerHolds, FunctionReference

LEMMA StepThreadInv == ThreadInv /\ [Next]_vars => ThreadInv'
  <1> SUFFICES ASSUME ThreadInv, [Next]_vars PROVE ThreadInv'
    OBVIOUS
  <1> USE DEF ThreadInv, TypeOK, OwnerPC, WorkerPC, Memory, ThreadOK, CountOK,
              MemoryOK, PhasesOK, AlertOK, OwnerHolds, WorkerHolds,
              FunctionReference, OwnerAt, WorkerAt
  <1>1. CASE UNCHANGED vars
    BY <1>1 DEF vars
  <1>2. ASSUME NEW t \in Threads, Allocate(t) PROVE ThreadInv'
    BY <1>2 DEF Allocate, InitialReferences
  <1>3. ASSUME NEW t \in Threads, Spawn(t) PROVE ThreadInv'
    BY <1>3 DEF Spawn
  <1>4. ASSUME NEW t \in Threads, SpawnFails(t) PROVE ThreadInv'
    BY <1>4 DEF SpawnFails
  <1>5. ASSUME NEW t \in Threads, Reference(t) PROVE ThreadInv'
    BY <1>5 DEF Reference
  <1>6. ASSUME NEW t \in Threads, FailDrop(t) PROVE ThreadInv'
    BY <1>6 DEF FailDrop, Release
  <1>7. ASSUME NEW t \in Threads, AlertWake(t) PROVE ThreadInv'
    BY <1>7 DEF AlertWake
  <1>8. ASSUME NEW t \in Threads, Join(t) PROVE ThreadInv'
    BY <1>8 DEF Join
  <1>9. ASSUME NEW t \in Threads, AlertStore(t) PROVE ThreadInv'
    BY <1>9 DEF AlertStore
  <1>10. ASSUME NEW t \in Threads, Wake(t) PROVE ThreadInv'
    BY <1>10 DEF Wake
  <1>11. ASSUME NEW t \in Threads, ClearEvent(t) PROVE ThreadInv'
    BY <1>11 DEF ClearEvent
  <1>12. ASSUME NEW t \in Threads, TestAlerted(t) PROVE ThreadInv'
    BY <1>12 DEF TestAlerted
  <1>13. ASSUME NEW t \in Threads, GiveUp(t) PROVE ThreadInv'
    BY <1>13 DEF GiveUp
  <1>14. ASSUME NEW t \in Threads, FunctionReturns(t) PROVE ThreadInv'
    BY <1>14 DEF FunctionReturns, Release
  <1>15. ASSUME NEW t \in Threads, Terminate(t) PROVE ThreadInv'
    BY <1>15 DEF Terminate
  <1>16. ASSUME NEW t \in Threads, Finished(t) PROVE ThreadInv'
    BY <1>16 DEF Finished, vars
  <1>17. QED
    BY <1>1, <1>2, <1>3, <1>4, <1>5, <1>6, <1>7, <1>8, <1>9, <1>10, <1>11,
       <1>12, <1>13, <1>14, <1>15, <1>16 DEF Next, OwnerStep, WorkerStep

\* The invariant above holds in every reachable state.
THEOREM ThreadInductive == Spec => []ThreadInv
  BY InitThreadInv, StepThreadInv, PTL DEF Spec

\* Type correctness of struct _XENCONS_THREAD and of the two positions.
THEOREM ThreadTyping == Spec => []TypeOK
  <1>1. ThreadInv => TypeOK
    BY DEF ThreadInv
  <1>2. QED
    BY <1>1, ThreadInductive, PTL

\* The owner and the thread function never reach a freed thread object,
\* for every number of threads and on every error path of ThreadCreate.
THEOREM ThreadMemorySafe == Spec => []UsersFindItLive
  <1>1. ThreadInv => UsersFindItLive
    BY DEF ThreadInv, TypeOK, ThreadOK, CountOK, MemoryOK, PhasesOK,
           UsersFindItLive, OwnerHolds, WorkerHolds, FunctionReference
  <1>2. QED
    BY <1>1, ThreadInductive, PTL

\* No thread object is leaked: the last of the two users frees it.
THEOREM ThreadMemoryFreed == Spec => []LastUserFrees
  <1>1. ThreadInv => LastUserFrees
    BY DEF ThreadInv, TypeOK, ThreadOK, CountOK, MemoryOK, PhasesOK,
           LastUserFrees, OwnerHolds, WorkerHolds, FunctionReference
  <1>2. QED
    BY <1>1, ThreadInductive, PTL

\* The assertion in ThreadJoin (thread.c:222) never fails.
THEOREM JoinAssertionHolds == Spec => []JoinAssertion
  <1>1. ThreadInv => JoinAssertion
    BY DEF ThreadInv, TypeOK, ThreadOK, CountOK, JoinAssertion, OwnerHolds,
           WorkerHolds, FunctionReference
  <1>2. QED
    BY <1>1, ThreadInductive, PTL

\* ThreadAlert cannot be missed by a worker that waits for its event.
THEOREM AlertsAreSeen == Spec => []AlertNotLost
  <1>1. ThreadInv => AlertNotLost
    BY DEF ThreadInv, ThreadOK, AlertOK, AlertNotLost
  <1>2. QED
    BY <1>1, ThreadInductive, PTL

-----------------------------------------------------------------------------
(* What the device object holds                                            *)

\* All that CreateLadder takes, and the rung that takes it.
Everything == FdoFields \cup {"DeviceObject", "Link", "Fdo", "BusReference",
                              "DxFdo"}

Rank(f) ==
    IF f = "DeviceObject" THEN 1 ELSE IF f = "Link" THEN 2
    ELSE IF f \in {"Fdo", "Stack"} THEN 3
    ELSE IF f = "SystemPowerThread" THEN 4
    ELSE IF f = "DevicePowerThread" THEN 5
    ELSE IF f \in {"LowerBusInterface", "BusReference"} THEN 6
    ELSE IF f = "VendorName" THEN 7 ELSE IF f = "DebugInterface" THEN 8
    ELSE IF f = "SuspendInterface" THEN 9 ELSE IF f = "StoreInterface" THEN 10
    ELSE IF f = "ConsoleInterface" THEN 11 ELSE 12

\* The step of FdoDestroy that gives it back.
Turn(f) ==
    IF f \in {"LowerBusInterface", "BusReference"} THEN 1
    ELSE IF f = "DxFdo" THEN 2 ELSE IF f = "HandleList" THEN 3
    ELSE IF f = "ConsoleInterface" THEN 4 ELSE IF f = "StoreInterface" THEN 5
    ELSE IF f = "SuspendInterface" THEN 6 ELSE IF f = "DebugInterface" THEN 7
    ELSE IF f = "VendorName" THEN 8 ELSE IF f = "DevicePowerThread" THEN 10
    ELSE IF f = "SystemPowerThread" THEN 11
    ELSE IF f \in {"Stack", "Fdo"} THEN 12 ELSE IF f = "Link" THEN 13 ELSE 14

\* What the rungs below r have taken, and what FdoDestroy leaves to step s and
\* those after it.
Below(r) == {f \in Everything : Rank(f) < r}

LeftFor(s) == {f \in Everything : Turn(f) >= s}

\* What the labels may forget: the reference to a bus interface of another
\* version, and what fail11 leaves of the last two interfaces.
Leaks ==
    {f \in Everything :
        \/ f = "BusReference" /\ "busVersion" \in Faults
        \/ /\ f \in {"StoreInterface", "ConsoleInterface"}
           /\ Faults \cap {"console", "done"} # {}}

Rungs == 12
Turns == 14

-----------------------------------------------------------------------------
(* The invariant                                                           *)

DeviceTypeOK ==
    /\ phase \in Phase
    /\ rung \in Nat
    /\ phase \in {"create", "unwind"} => rung \in 1 .. Rungs
    /\ phase = "remove" => rung \in 1 .. Turns
    /\ fdo \subseteq Everything
    /\ irp \in [Irps -> IrpPC]

ThreadRung(t) == IF t = system THEN 4 ELSE 5
ThreadTurn(t) == IF t = system THEN 11 ELSE 10

Ending == {"open", "alertWake", "join", "joined"}

PositionOK(t) ==
    /\ phase = "create" =>
          /\ rung < ThreadRung(t) => owner[t] = "none"
          /\ rung = ThreadRung(t) => owner[t] \notin {"alertWake", "join", "joined"}
          /\ rung > ThreadRung(t) => owner[t] = "open"
    /\ phase = "unwind" =>
          /\ rung <= ThreadRung(t) => owner[t] \in {"none", "failed", "joined"}
          /\ rung = ThreadRung(t) + 1 => owner[t] \in Ending
          /\ rung > ThreadRung(t) + 1 => owner[t] = "open"
    /\ phase = "live" => owner[t] = "open"
    /\ phase = "remove" =>
          /\ rung < ThreadTurn(t) => owner[t] = "open"
          /\ rung = ThreadTurn(t) => owner[t] \in Ending
          /\ rung > ThreadTurn(t) => owner[t] = "joined"
    /\ phase = "none" => owner[t] \in {"none", "failed", "joined"}
    /\ phase = "gone" => owner[t] = "joined"

\* Nothing can have leaked before the first thread was made, which is why an
\* AddDevice that is called again starts from nothing.
FdoOK ==
    /\ phase = "create" => fdo = Below(rung)
    /\ phase = "unwind" =>
          /\ Below(rung) \subseteq fdo /\ fdo \subseteq Below(rung) \cup Leaks
          /\ owner[system] = "none" => fdo = Below(rung)
          /\ rung > 10 => Faults \cap {"console", "done"} # {}
    /\ phase = "live" => fdo = Everything
    /\ phase = "remove" => fdo = LeftFor(rung)
    /\ phase = "none" => fdo \subseteq Leaks /\ (owner[system] = "none" => fdo = {})
    /\ phase = "gone" => fdo = {}

StatusOK ==
    phase \in {"none", "unwind"} => status # "success" \/ "busData" \in Faults

EntryOK ==
    /\ driver \in 0 .. 5
    /\ driver = 0 => owned = {}
    /\ driver = 1 => owned = {"DriverObject"}
    /\ driver = 2 => owned = {"DriverObject", "RegistryPath"}
    /\ driver = 3 => owned = {"DriverObject", "RegistryPath", "ServiceKey"}
    /\ driver = 4 => owned = {"DriverObject", "RegistryPath", "ServiceKey",
                              "ParametersKey"}
    /\ driver = 5 => owned = {"DriverObject", "RegistryPath", "ParametersKey"}

DeviceInv ==
    /\ DeviceTypeOK
    /\ \A t \in Threads : PositionOK(t)
    /\ FdoOK
    /\ StatusOK
    /\ EntryOK

-----------------------------------------------------------------------------
(* The two ways down, rung by rung                                         *)

LEMMA CreateRungs ==
    /\ Len(CreateLadder) = Rungs
    /\ \A r \in 1 .. Rungs :
          /\ CreateLadder[r].drops = {}
          /\ CreateLadder[r].takes = {f \in Everything : Rank(f) = r}
  <1> USE DEF CreateLadder, Rung, AcquireLowerBusInterface, QueryInterface,
              Everything, FdoFields, Rungs, Rank
  <1>1. Len(CreateLadder) = Rungs
    OBVIOUS
  <1>2. ASSUME NEW r \in 1 .. Rungs
        PROVE  /\ CreateLadder[r].drops = {}
               /\ CreateLadder[r].takes = {f \in Everything : Rank(f) = r}
    <2>1. CASE r = 1 BY <2>1
    <2>2. CASE r = 2 BY <2>2
    <2>3. CASE r = 3 BY <2>3
    <2>4. CASE r = 4 BY <2>4
    <2>5. CASE r = 5 BY <2>5
    <2>6. CASE r = 6 BY <2>6
    <2>7. CASE r = 7 BY <2>7
    <2>8. CASE r = 8 BY <2>8
    <2>9. CASE r = 9 BY <2>9
    <2>10. CASE r = 10 BY <2>10
    <2>11. CASE r = 11 BY <2>11
    <2>12. CASE r = 12 BY <2>12
    <2>13. r \in {1, 2, 3, 4, 5, 6, 7, 8, 9, 10, 11, 12}
      BY DEF Rungs
    <2>14. QED
      BY ONLY <2>1, <2>2, <2>3, <2>4, <2>5, <2>6, <2>7, <2>8, <2>9, <2>10,
              <2>11, <2>12, <2>13
  <1>3. QED
    BY ONLY <1>1, <1>2

\* The label of a rung undoes the rung below, but for the last two.
LEMMA CreateLabels ==
    \A r \in 1 .. Rungs :
        CreateLadder[r].undo =
            IF r = 12 THEN {}
            ELSE IF r = 11 THEN {"ConsoleInterface"}
            ELSE {f \in Everything : Rank(f) = r - 1}
  <1> USE DEF CreateLadder, Rung, AcquireLowerBusInterface, QueryInterface,
              ReleaseLowerBusInterface, Everything, FdoFields, Rungs, Rank
  <1> SUFFICES ASSUME NEW r \in 1 .. Rungs
               PROVE  CreateLadder[r].undo =
                        IF r = 12 THEN {}
                        ELSE IF r = 11 THEN {"ConsoleInterface"}
                        ELSE {f \in Everything : Rank(f) = r - 1}
    OBVIOUS
  <1>1. CASE r = 1 BY <1>1
  <1>2. CASE r = 2 BY <1>2
  <1>3. CASE r = 3 BY <1>3
  <1>4. CASE r = 4 BY <1>4
  <1>5. CASE r = 5 BY <1>5
  <1>6. CASE r = 6 BY <1>6
  <1>7. CASE r = 7 BY <1>7
  <1>8. CASE r = 8 BY <1>8
  <1>9. CASE r = 9 BY <1>9
  <1>10. CASE r = 10 BY <1>10
  <1>11. CASE r = 11 BY <1>11
  <1>12. CASE r = 12 BY <1>12
  <1>13. r \in {1, 2, 3, 4, 5, 6, 7, 8, 9, 10, 11, 12}
    BY DEF Rungs
  <1>14. QED
    BY ONLY <1>1, <1>2, <1>3, <1>4, <1>5, <1>6, <1>7, <1>8, <1>9, <1>10,
            <1>11, <1>12, <1>13

LEMMA DestroyTurns ==
    /\ Len(DestroySteps) = Turns
    /\ \A s \in 1 .. Turns :
          DestroySteps[s] = IF s = 9 THEN {"LowerBusInterface", "BusReference"}
                            ELSE {f \in Everything : Turn(f) = s}
  <1> USE DEF DestroySteps, ReleaseLowerBusInterface, Everything, FdoFields,
              Turns, Turn
  <1>1. Len(DestroySteps) = Turns
    OBVIOUS
  <1>2. ASSUME NEW s \in 1 .. Turns
        PROVE  DestroySteps[s] =
                    IF s = 9 THEN {"LowerBusInterface", "BusReference"}
                    ELSE {f \in Everything : Turn(f) = s}
    <2>1. CASE s = 1 BY <2>1
    <2>2. CASE s = 2 BY <2>2
    <2>3. CASE s = 3 BY <2>3
    <2>4. CASE s = 4 BY <2>4
    <2>5. CASE s = 5 BY <2>5
    <2>6. CASE s = 6 BY <2>6
    <2>7. CASE s = 7 BY <2>7
    <2>8. CASE s = 8 BY <2>8
    <2>9. CASE s = 9 BY <2>9
    <2>10. CASE s = 10 BY <2>10
    <2>11. CASE s = 11 BY <2>11
    <2>12. CASE s = 12 BY <2>12
    <2>13. CASE s = 13 BY <2>13
    <2>14. CASE s = 14 BY <2>14
    <2>15. s \in {1, 2, 3, 4, 5, 6, 7, 8, 9, 10, 11, 12, 13, 14}
      BY DEF Turns
    <2>16. QED
      BY ONLY <2>1, <2>2, <2>3, <2>4, <2>5, <2>6, <2>7, <2>8, <2>9, <2>10,
              <2>11, <2>12, <2>13, <2>14, <2>15
  <1>3. QED
    BY ONLY <1>1, <1>2

LEMMA Giving ==
    /\ phase = "unwind" => GivingUp = CreateLadder[rung].undo
    /\ phase = "remove" => GivingUp = DestroySteps[rung]
    /\ phase \notin {"unwind", "remove"} => GivingUp = {}
  BY DEF GivingUp

-----------------------------------------------------------------------------
(* The power threads are threads                                           *)

LEMMA DriverStepIsThreadStep == [DriverNext]_driverVars => [Next]_vars
  <1> SUFFICES ASSUME [DriverNext]_driverVars PROVE [Next]_vars
    OBVIOUS
  <1>1. CASE UNCHANGED driverVars
    BY <1>1 DEF driverVars
  <1>2. CASE DriverEntry \/ EntryStep \/ DriverUnload \/ UseRegistry
             \/ AddDevice \/ Remove
    BY <1>2 DEF DriverEntry, EntryStep, EntryGoesOn, EntryFails, DriverUnload,
                UseRegistry, AddDevice, Remove
  <1>3. CASE CreateGoesOn \/ CreateFails \/ LetGo
    BY <1>3 DEF CreateGoesOn, CreateFails, LetGo
  <1>4. ASSUME NEW t \in Threads, CreateThread(t) \/ EndThread(t)
        PROVE  Next
    BY <1>4 DEF CreateThread, EndThread, Next, OwnerStep
  <1>5. ASSUME NEW t \in Threads, PowerThread(t) PROVE Next
    BY <1>5 DEF PowerThread, Next
  <1>6. ASSUME NEW i \in Irps, Arrive(i) \/ Enter(i) \/ GoAstray(i) \/ Leave(i)
        PROVE  UNCHANGED vars
    BY <1>6 DEF Arrive, Enter, GoAstray, Leave
  <1>7. ASSUME NEW i \in Irps, NEW t \in Threads, WakeThread(i, t) PROVE Next
    BY <1>7 DEF WakeThread, Next
  <1>8. QED
    BY <1>1, <1>2, <1>3, <1>4, <1>5, <1>6, <1>7 DEF DriverNext, DeviceStep

\* Whatever the driver does with its two power threads is what ThreadCreate,
\* ThreadWake, ThreadAlert and ThreadJoin may do: Driver implements Thread.
THEOREM PowerThreadsAreThreads == DriverSpec => Spec
  <1>1. DriverInit => Init
    BY DEF DriverInit
  <1>2. QED
    BY <1>1, DriverStepIsThreadStep, PTL DEF DriverSpec, Spec

\* The owner and the function of a power thread find its object allocated,
\* wherever FdoCreate fails and whoever wakes the thread meanwhile.
THEOREM PowerThreadsMemorySafe == DriverSpec => []UsersFindItLive
  BY PowerThreadsAreThreads, ThreadMemorySafe, PTL

\* And the last of them frees it: AddDevice leaks no thread object.
THEOREM PowerThreadsFreed == DriverSpec => []LastUserFrees
  BY PowerThreadsAreThreads, ThreadMemoryFreed, PTL

\* A power thread that is to end is never left asleep with its alert.
THEOREM PowerThreadsHearAlerts == DriverSpec => []AlertNotLost
  BY PowerThreadsAreThreads, AlertsAreSeen, PTL

-----------------------------------------------------------------------------
(* The invariant is inductive                                              *)

LEMMA InitDeviceInv == DriverInit => DeviceInv
  BY DEF DriverInit, Init, NotLoaded, DeviceInv, DeviceTypeOK, PositionOK, FdoOK,
         StatusOK, EntryOK, Phase, IrpPC, Leaks, Everything

LEMMA ThreadIsTaken ==
    ASSUME DeviceTypeOK, NEW t \in Threads
    PROVE  /\ Creating(t) <=> phase = "create" /\ rung = ThreadRung(t)
           /\ Fields[t] \in GivingUp <=>
                 \/ phase = "unwind" /\ rung = ThreadRung(t) + 1
                 \/ phase = "remove" /\ rung = ThreadTurn(t)
  <1>1. Fields[t] = IF t = system THEN "SystemPowerThread"
                                  ELSE "DevicePowerThread"
    BY DEF Fields
  <1>2. Creating(t) <=> phase = "create" /\ rung = ThreadRung(t)
    BY <1>1, CreateRungs DEF Creating, DeviceTypeOK, ThreadRung, Rank,
            Everything, FdoFields, Rungs
  <1>3. CASE phase = "unwind"
    BY <1>1, <1>2, <1>3, CreateLabels, Giving
       DEF DeviceTypeOK, ThreadRung, Rank, Everything, FdoFields, Rungs
  <1>4. CASE phase = "remove"
    BY <1>1, <1>2, <1>4, DestroyTurns, Giving
       DEF DeviceTypeOK, ThreadTurn, Turn, Everything, FdoFields, Turns
  <1>5. QED
    BY <1>2, <1>3, <1>4, Giving


\* The parts of DeviceInv that a step of a thread object cannot disturb.
LEMMA OnlyThreadsMove ==
    ASSUME DeviceInv, UNCHANGED <<deviceVars, driver, owned, irp>>,
           \A t \in Threads : PositionOK(t)',
           owner[system] # "none" => owner'[system] # "none"
    PROVE  DeviceInv'
  <1>1. DeviceTypeOK' /\ StatusOK' /\ EntryOK'
    BY DEF DeviceInv, DeviceTypeOK, StatusOK, EntryOK, deviceVars
  <1>2. FdoOK'
    BY DEF DeviceInv, FdoOK, deviceVars
  <1>3. QED
    BY <1>1, <1>2 DEF DeviceInv

\* A step that leaves the thread objects and the device alone.
LEMMA DeviceStaysPut ==
    ASSUME DeviceInv, UNCHANGED <<vars, deviceVars>>,
           irp' \in [Irps -> IrpPC], EntryOK'
    PROVE  DeviceInv'
  BY DEF DeviceInv, DeviceTypeOK, PositionOK, FdoOK, StatusOK, vars, deviceVars

LEMMA EntryKeepsInv ==
    ASSUME DeviceInv, DriverEntry \/ EntryStep \/ DriverUnload
    PROVE  DeviceInv'
  <1> USE DEF DeviceInv, EntryOK, NotLoaded, Loaded, EntryLadder, Rung,
              RungDrops
  <1>1. UNCHANGED <<vars, deviceVars, irp>>
    BY DEF DriverEntry, EntryStep, EntryGoesOn, EntryFails, DriverUnload
  <1>2. irp' \in [Irps -> IrpPC]
    BY <1>1 DEF DeviceInv, deviceVars, DeviceTypeOK
  <1>3. Len(EntryLadder) = 4
    OBVIOUS
  <1>4. CASE DriverEntry \/ DriverUnload
    <2>1. EntryOK'
      BY <1>3, <1>4 DEF DriverEntry, DriverUnload
    <2>2. QED
      BY ONLY <2>1, <1>1, <1>2, DeviceStaysPut, DeviceInv
  <1>5. CASE EntryGoesOn
    <2>1. driver \in {1, 2, 3, 4} /\ driver' = driver + 1
          /\ owned' = (owned \ EntryLadder[driver].drops)
                            \cup EntryLadder[driver].takes
      BY <1>3, <1>5 DEF EntryGoesOn, Climbed
    <2>2. EntryOK'
      BY <2>1
    <2>3. QED
      BY ONLY <2>2, <1>1, <1>2, DeviceStaysPut, DeviceInv
  <1>6. CASE EntryFails
    <2>1. driver \in {1, 2, 3} /\ driver' = 0
          /\ owned' = owned \ Unwound(EntryLadder, driver)
      BY <1>3, <1>6 DEF EntryFails
    <2>2. owned \subseteq Unwound(EntryLadder, driver)
      <3>1. ASSUME NEW i \in 1 .. driver
            PROVE  EntryLadder[i].undo \subseteq Unwound(EntryLadder, driver)
        BY DEF Unwound
      <3>2. CASE driver = 1
        BY <3>1, <3>2
      <3>3. CASE driver = 2
        BY <3>1, <3>3
      <3>4. CASE driver = 3
        BY <3>1, <3>4
      <3>5. QED
        BY <2>1, <3>2, <3>3, <3>4
    <2>3. EntryOK'
      BY <2>1, <2>2
    <2>4. QED
      BY ONLY <2>3, <1>1, <1>2, DeviceStaysPut, DeviceInv
  <1>7. QED
    BY <1>4, <1>5, <1>6 DEF EntryStep

LEMMA DispatchKeepsInv ==
    ASSUME DeviceInv, NEW i \in Irps, Arrive(i) \/ Enter(i) \/ GoAstray(i) \/ Leave(i)
    PROVE  DeviceInv'
  <1>1. UNCHANGED <<vars, deviceVars, driver, owned>>
    BY DEF Arrive, Enter, GoAstray, Leave
  <1>2. EntryOK'
    BY <1>1 DEF DeviceInv, EntryOK
  <1>3. irp' \in [Irps -> IrpPC]
    BY <1>1 DEF DeviceInv, DeviceTypeOK, deviceVars, Arrive, Enter, GoAstray,
               Leave, IrpPC
  <1>4. QED
    BY <1>1, <1>2, <1>3, DeviceStaysPut

LEMMA AddRemoveKeepInv ==
    ASSUME PowerThreads, DeviceInv, AddDevice \/ Remove
    PROVE  DeviceInv'
  <1> USE DEF DeviceInv
  <1>1. EntryOK' /\ owner' = owner /\ irp' = irp /\ fdo' = fdo
    BY DEF AddDevice, Remove, EntryOK, vars
  <1>2. CASE AddDevice
    <2>1. /\ phase = "none" /\ \A t \in Threads : owner[t] = "none"
          /\ phase' = "create" /\ rung' = 1 /\ status' = "none"
      BY <1>2 DEF AddDevice
    <2>2. fdo' = Below(1)
      BY <1>1, <2>1 DEF PowerThreads, FdoOK, Below, Everything, FdoFields, Rank
    <2>3. \A t \in Threads : PositionOK(t)'
      BY <1>1, <2>1 DEF PositionOK, ThreadRung
    <2>4. DeviceTypeOK' /\ FdoOK' /\ StatusOK'
      BY <1>1, <2>1, <2>2 DEF DeviceTypeOK, FdoOK, StatusOK, Phase, Rungs
    <2>5. QED
      BY <1>1, <2>3, <2>4
  <1>3. CASE Remove
    <2>1. phase' = "remove" /\ rung' = 1 /\ phase = "live"
      BY <1>3 DEF Remove
    <2>2. fdo' = LeftFor(1)
      BY <1>1, <2>1 DEF FdoOK, LeftFor, Everything, FdoFields, Turn
    <2>3. \A t \in Threads : PositionOK(t)'
      BY <1>1, <2>1 DEF PositionOK, ThreadTurn
    <2>4. DeviceTypeOK' /\ FdoOK' /\ StatusOK'
      BY <1>1, <2>1, <2>2 DEF DeviceTypeOK, FdoOK, StatusOK, Phase, Turns
    <2>5. QED
      BY <1>1, <2>3, <2>4
  <1>4. QED
    BY <1>2, <1>3


\* A step of a thread that its owner does not take.
LEMMA WorkersKeepInv ==
    ASSUME DeviceInv, NEW t \in Threads,
           PowerThread(t) \/ \E i \in Irps : WakeThread(i, t)
    PROVE  DeviceInv'
  <1>1. UNCHANGED <<deviceVars, driver, owned, irp, owner>>
    BY DEF PowerThread, WakeThread, WorkerStep, ClearEvent, TestAlerted,
           FunctionReturns, Terminate, Wake
  <1>2. \A u \in Threads : PositionOK(u)'
    BY <1>1 DEF DeviceInv, PositionOK, deviceVars
  <1>3. QED
    BY <1>1, <1>2, OnlyThreadsMove

LEMMA CreateThreadKeepsInv ==
    ASSUME PowerThreads, TypeOK, DeviceInv, NEW t \in Threads, CreateThread(t)
    PROVE  DeviceInv'
  <1>1. UNCHANGED <<deviceVars, driver, owned, irp>>
    BY DEF CreateThread
  <1>2. phase = "create" /\ rung = ThreadRung(t)
    BY ThreadIsTaken DEF CreateThread, DeviceInv
  <1>3. /\ owner \in [Threads -> OwnerPC]
        /\ \A u \in Threads \ {t} : owner'[u] = owner[u]
        /\ owner'[t] \notin {"none", "alertWake", "join", "joined"}
    BY <1>2 DEF TypeOK, CreateThread, Allocate, Spawn, SpawnFails, Reference,
           AlertStore, AlertWake, FailDrop, OwnerAt, DeviceInv, PositionOK
  <1>4. \A u \in Threads : PositionOK(u)'
    <2>1. PositionOK(t)'
      BY <1>1, <1>2, <1>3 DEF PositionOK, ThreadRung, deviceVars
    <2>2. ASSUME NEW u \in Threads \ {t} PROVE PositionOK(u)'
      BY <1>1, <1>3, <2>2 DEF DeviceInv, PositionOK, deviceVars
    <2>3. QED
      BY <2>1, <2>2
  <1>5. owner[system] # "none" => owner'[system] # "none"
    BY <1>3 DEF PowerThreads
  <1>6. QED
    BY <1>1, <1>4, <1>5, OnlyThreadsMove

LEMMA EndThreadKeepsInv ==
    ASSUME PowerThreads, TypeOK, DeviceInv, NEW t \in Threads, EndThread(t)
    PROVE  DeviceInv'
  <1>1. UNCHANGED <<deviceVars, driver, owned, irp>>
    BY DEF EndThread
  <1>2. \/ phase = "unwind" /\ rung = ThreadRung(t) + 1
        \/ phase = "remove" /\ rung = ThreadTurn(t)
    BY ThreadIsTaken DEF EndThread, DeviceInv
  <1>3. owner[t] \in Ending
    BY <1>2 DEF DeviceInv, PositionOK
  <1>4. /\ \A u \in Threads \ {t} : owner'[u] = owner[u]
        /\ owner'[t] \in Ending
    BY <1>3 DEF TypeOK, EndThread, AlertStore, AlertWake, Join, OwnerAt, Ending
  <1>5. \A u \in Threads : PositionOK(u)'
    <2>1. PositionOK(t)'
      BY <1>1, <1>2, <1>4
         DEF PositionOK, ThreadRung, ThreadTurn, deviceVars
    <2>2. ASSUME NEW u \in Threads \ {t} PROVE PositionOK(u)'
      BY <1>1, <1>4, <2>2 DEF DeviceInv, PositionOK, deviceVars
    <2>3. QED
      BY <2>1, <2>2
  <1>6. owner[system] # "none" => owner'[system] # "none"
    BY <1>4 DEF PowerThreads, Ending
  <1>7. QED
    BY <1>1, <1>5, <1>6, OnlyThreadsMove

LEMMA CreateGoesOnKeepsInv ==
    ASSUME DeviceInv, CreateGoesOn
    PROVE  DeviceInv'
  <1>1. /\ phase = "create" /\ rung \in 1 .. Rungs /\ fdo = Below(rung)
        /\ UNCHANGED <<vars, driver, owned, irp>>
    BY DEF CreateGoesOn, DeviceInv, DeviceTypeOK, FdoOK
  <1>2. fdo' = Below(rung + 1)
    <2>1. fdo' = (fdo \ CreateLadder[rung].drops) \cup CreateLadder[rung].takes
      BY DEF CreateGoesOn, Climbed
    <2>2. Below(rung + 1) = Below(rung) \cup {f \in Everything : Rank(f) = rung}
      BY <1>1 DEF Below, Rank, Rungs
    <2>3. QED
      BY <1>1, <2>1, <2>2, CreateRungs
  <1>3. EntryOK' /\ irp' \in [Irps -> IrpPC] /\ owner' = owner
    BY <1>1 DEF DeviceInv, DeviceTypeOK, EntryOK, vars
  <1>4. \A t \in Threads : rung = ThreadRung(t) => owner[t] = "open"
    BY <1>1, ThreadIsTaken DEF CreateGoesOn, DeviceInv
  <1>5. CASE rung < Rungs
    <2>1. phase' = "create" /\ rung' = rung + 1
      BY <1>1, <1>5, CreateRungs DEF CreateGoesOn
    <2>2. \A t \in Threads : PositionOK(t)'
      BY <1>1, <1>3, <1>4, <2>1 DEF DeviceInv, PositionOK, ThreadRung, Rungs
    <2>3. DeviceTypeOK' /\ FdoOK' /\ StatusOK'
      BY <1>1, <1>2, <1>3, <1>5, <2>1
         DEF DeviceTypeOK, FdoOK, StatusOK, Phase, Rungs, Below
    <2>4. QED
      BY <1>3, <2>2, <2>3 DEF DeviceInv
  <1>6. CASE rung = Rungs
    <2>1. phase' = "live" /\ rung' = 0
      BY <1>1, <1>6, CreateRungs DEF CreateGoesOn
    <2>2. \A t \in Threads : PositionOK(t)'
      BY <1>1, <1>3, <1>6, <2>1 DEF DeviceInv, PositionOK, ThreadRung, Rungs
    <2>3. fdo' = Everything
      BY <1>2, <1>6 DEF Below, Rank, Rungs
    <2>4. DeviceTypeOK' /\ FdoOK' /\ StatusOK'
      BY <1>3, <2>1, <2>3
         DEF DeviceTypeOK, FdoOK, StatusOK, Phase
    <2>5. QED
      BY <1>3, <2>2, <2>4 DEF DeviceInv
  <1>7. QED
    BY <1>1, <1>5, <1>6 DEF Rungs

LEMMA CreateFailsKeepsInv ==
    ASSUME PowerThreads, DeviceInv, CreateFails
    PROVE  DeviceInv'
  <1>1. /\ phase = "create" /\ rung \in 1 .. Rungs /\ fdo = Below(rung)
        /\ phase' = "unwind"
        /\ UNCHANGED <<vars, rung, driver, owned, irp>>
    BY DEF CreateFails, DeviceInv, DeviceTypeOK, FdoOK
  <1>2. EntryOK' /\ irp' \in [Irps -> IrpPC] /\ owner' = owner
    BY <1>1 DEF DeviceInv, DeviceTypeOK, EntryOK, vars
  <1>3. \A t \in Threads : rung = ThreadRung(t) => owner[t] \in {"none", "failed"}
    BY <1>1, ThreadIsTaken
       DEF PowerThreads, CreateFails, DeviceInv, ThreadRung
  <1>4. \A t \in Threads : PositionOK(t)'
    BY <1>1, <1>2, <1>3 DEF DeviceInv, PositionOK, ThreadRung, Ending
  <1>5. \/ fdo' = fdo
        \/ /\ fdo' = fdo \cup {"BusReference"} /\ "busVersion" \in Faults
           /\ CreateLadder[rung].step = "bus"
    BY DEF CreateFails
  <1>6. CreateLadder[rung].step = "bus" => rung = 6
    BY <1>1 DEF CreateLadder, Rung, AcquireLowerBusInterface, QueryInterface, Rungs
  <1>7. rung > 10 => Faults \cap {"console", "done"} # {}
    <2>1. /\ CreateLadder[11].step = "console"
          /\ CreateLadder[12].step = "done"
      BY DEF CreateLadder, Rung, QueryInterface
    <2>2. rung > 10 => CreateLadder[rung].step \in Faults
      BY <1>1, <1>5, <1>6, ThreadIsTaken
         DEF CreateFails, DeviceInv, ThreadRung
    <2>3. QED
      BY <1>1, <2>1, <2>2 DEF Rungs
  <1>8. FdoOK'
    <2>1. owner[system] = "none" => rung <= 4
      BY <1>1 DEF PowerThreads, DeviceInv, PositionOK, ThreadRung
    <2>2. fdo' \subseteq Below(rung) \cup Leaks /\ Below(rung) \subseteq fdo'
      BY <1>1, <1>5 DEF Leaks, Everything
    <2>3. QED
      BY <1>1, <1>2, <1>5, <1>6, <1>7, <2>1, <2>2 DEF FdoOK
  <1>9. StatusOK'
    <2>1. status' = IF CreateLadder[rung].step = "busData" THEN "success"
                                                           ELSE "failure"
      BY DEF CreateFails, StatusOf
    <2>2. CreateLadder[rung].step = "busData" => rung = 7
      BY <1>1 DEF CreateLadder, Rung, AcquireLowerBusInterface,
                  QueryInterface, Rungs
    <2>3. rung = 7 => CreateLadder[rung].step \in Faults \cup {"bus"}
      BY <1>1, ThreadIsTaken DEF CreateFails, DeviceInv, ThreadRung
    <2>4. QED
      BY <2>1, <2>2, <2>3 DEF StatusOK
  <1>10. DeviceTypeOK'
    <2>1. fdo' \subseteq Everything
      BY <1>1, <1>5 DEF Below, Everything
    <2>2. QED
      BY <1>1, <1>2, <2>1 DEF DeviceTypeOK, Phase
  <1>11. QED
    BY <1>2, <1>4, <1>8, <1>9, <1>10 DEF DeviceInv


\* The labels of FdoCreate, one after the other.
LEMMA UnwindKeepsInv ==
    ASSUME PowerThreads, DeviceInv, LetGo, phase = "unwind"
    PROVE  DeviceInv'
  <1>1. /\ rung \in 1 .. Rungs
        /\ fdo' = fdo \ CreateLadder[rung].undo
        /\ UNCHANGED <<vars, status, driver, owned, irp>>
        /\ rung > 1 => phase' = "unwind" /\ rung' = rung - 1
        /\ rung = 1 => phase' = "none" /\ rung' = 0
    BY Giving DEF LetGo, DeviceInv, DeviceTypeOK, Rungs
  <1>2. EntryOK' /\ irp' \in [Irps -> IrpPC] /\ owner' = owner
    BY <1>1 DEF DeviceInv, DeviceTypeOK, EntryOK, vars
  <1>3. \A t \in Threads : rung = ThreadRung(t) + 1 => owner[t] = "joined"
    BY ThreadIsTaken DEF LetGo, DeviceInv
  <1>4. \A t \in Threads : PositionOK(t)'
    BY <1>1, <1>2, <1>3 DEF DeviceInv, PositionOK, ThreadRung, Ending, Rungs
  <1>5. /\ Below(rung) \subseteq fdo /\ fdo \subseteq Below(rung) \cup Leaks
        /\ owner[system] = "none" => fdo = Below(rung) /\ rung <= 4
        /\ rung > 10 => Faults \cap {"console", "done"} # {}
    <2>1. owner[system] = "none" => rung <= 4
      BY <1>1 DEF PowerThreads, DeviceInv, PositionOK, ThreadRung, Ending, Rungs
    <2>2. QED
      BY <2>1 DEF DeviceInv, FdoOK
  <1>6. /\ Below(rung - 1) \subseteq fdo'
        /\ fdo' \subseteq Below(rung - 1) \cup Leaks
        /\ owner[system] = "none" => fdo' = Below(rung - 1)
    <2>1. CASE rung \notin {11, 12}
      <3>1. CreateLadder[rung].undo = {f \in Everything : Rank(f) = rung - 1}
        BY <1>1, <2>1, CreateLabels
      <3>2. Below(rung) = Below(rung - 1) \cup {f \in Everything : Rank(f) = rung - 1}
        BY <1>1 DEF Below, Rank, Rungs
      <3>3. \A f \in Below(rung - 1) : Rank(f) # rung - 1
        BY <1>1 DEF Below, Rungs
      <3>4. Below(rung - 1) \cap CreateLadder[rung].undo = {}
        BY <3>1, <3>3
      <3>5. Below(rung) \subseteq Below(rung - 1) \cup CreateLadder[rung].undo
        BY <3>1, <3>2
      <3>6. Below(rung - 1) \subseteq Below(rung)
        BY <3>2
      <3>7. Below(rung) \ CreateLadder[rung].undo = Below(rung - 1)
        BY <3>4, <3>5, <3>6
      <3>8. QED
        BY <1>1, <1>5, <3>4, <3>5, <3>6, <3>7
    <2>2. CASE rung = 11
      <3>1. CreateLadder[rung].undo = {"ConsoleInterface"}
        BY <2>2, CreateLabels DEF Rungs
      <3>2. /\ Below(11) = Below(10) \cup {"StoreInterface"}
            /\ "ConsoleInterface" \notin Below(10)
        BY DEF Below, Rank, Everything, FdoFields
      <3>3. "StoreInterface" \in Leaks
        BY <1>5, <2>2 DEF Leaks, Everything, FdoFields
      <3>4. QED
        BY <1>1, <1>5, <2>2, <3>1, <3>2, <3>3
    <2>3. CASE rung = 12
      <3>1. CreateLadder[rung].undo = {}
        BY <1>1, <2>3, CreateLabels
      <3>2. Below(12) = Below(11) \cup {"ConsoleInterface"}
        BY DEF Below, Rank, Everything, FdoFields
      <3>3. "ConsoleInterface" \in Leaks
        BY <1>5, <2>3 DEF Leaks, Everything, FdoFields
      <3>4. QED
        BY <1>1, <1>5, <2>3, <3>1, <3>2, <3>3
    <2>4. QED
      BY <2>1, <2>2, <2>3
  <1>7. FdoOK'
    <2>1. CASE rung > 1
      BY <1>1, <1>2, <1>5, <1>6, <2>1 DEF FdoOK, Rungs
    <2>2. CASE rung = 1
      <3>1. Below(rung - 1) = {}
        BY <2>2 DEF Below, Rank
      <3>2. QED
        BY <1>1, <1>2, <1>6, <2>2, <3>1 DEF FdoOK
    <2>3. QED
      BY <1>1, <2>1, <2>2 DEF Rungs
  <1>8. DeviceTypeOK' /\ StatusOK'
    <2>1. fdo' \subseteq Everything
      BY <1>1 DEF DeviceInv, DeviceTypeOK
    <2>2. QED
      BY <1>1, <1>2, <2>1 DEF DeviceInv, DeviceTypeOK, StatusOK, Phase, Rungs
  <1>9. QED
    BY <1>2, <1>4, <1>7, <1>8 DEF DeviceInv

\* The steps of FdoDestroy, one after the other.
LEMMA DestroyKeepsInv ==
    ASSUME DeviceInv, LetGo, phase = "remove"
    PROVE  DeviceInv'
  <1>1. /\ rung \in 1 .. Turns
        /\ fdo = LeftFor(rung) /\ fdo' = fdo \ DestroySteps[rung]
        /\ UNCHANGED <<vars, status, driver, owned, irp>>
        /\ rung < Turns => phase' = "remove" /\ rung' = rung + 1
        /\ rung = Turns => phase' = "gone" /\ rung' = 0
    BY Giving, DestroyTurns DEF LetGo, DeviceInv, DeviceTypeOK, FdoOK, Turns
  <1>2. EntryOK' /\ irp' \in [Irps -> IrpPC] /\ owner' = owner
    BY <1>1 DEF DeviceInv, DeviceTypeOK, EntryOK, vars
  <1>3. \A t \in Threads : rung = ThreadTurn(t) => owner[t] = "joined"
    BY ThreadIsTaken DEF LetGo, DeviceInv
  <1>4. \A t \in Threads : PositionOK(t)'
    BY <1>1, <1>2, <1>3 DEF DeviceInv, PositionOK, ThreadTurn, Ending, Turns
  <1>5. fdo' = LeftFor(rung + 1)
    <2>1. CASE rung # 9
      <3>1. DestroySteps[rung] = {f \in Everything : Turn(f) = rung}
        BY <1>1, <2>1, DestroyTurns
      <3>2. QED
        BY <1>1, <3>1 DEF LeftFor, Turn, Turns
    <2>2. CASE rung = 9
      <3>1. DestroySteps[rung] = {"LowerBusInterface", "BusReference"}
        BY <1>1, <2>2, DestroyTurns
      <3>2. LeftFor(9) = LeftFor(10)
            /\ LeftFor(9) \cap {"LowerBusInterface", "BusReference"} = {}
        BY DEF LeftFor, Turn, Everything, FdoFields
      <3>3. QED
        BY <1>1, <2>2, <3>1, <3>2
    <2>3. QED
      BY <2>1, <2>2
  <1>6. FdoOK'
    <2>1. CASE rung < Turns
      BY <1>1, <1>5, <2>1 DEF FdoOK
    <2>2. CASE rung = Turns
      <3>1. LeftFor(rung + 1) = {}
        BY <2>2 DEF LeftFor, Turn, Turns
      <3>2. QED
        BY <1>1, <1>5, <2>2, <3>1 DEF FdoOK
    <2>3. QED
      BY <1>1, <2>1, <2>2 DEF Turns
  <1>7. DeviceTypeOK' /\ StatusOK'
    <2>1. fdo' \subseteq Everything
      BY <1>1 DEF DeviceInv, DeviceTypeOK
    <2>2. QED
      BY <1>1, <1>2, <2>1 DEF DeviceTypeOK, StatusOK, Phase, Turns
  <1>8. QED
    BY <1>2, <1>4, <1>6, <1>7 DEF DeviceInv

LEMMA StepDeviceInv ==
    ASSUME PowerThreads
    PROVE  ThreadInv /\ DeviceInv /\ [DriverNext]_driverVars => DeviceInv'
  <1> SUFFICES ASSUME ThreadInv, DeviceInv, [DriverNext]_driverVars
               PROVE  DeviceInv'
    OBVIOUS
  <1>1. TypeOK
    BY DEF ThreadInv
  <1>2. CASE UseRegistry \/ UNCHANGED driverVars
    <2>1. UNCHANGED <<vars, deviceVars, driver, owned, irp>>
      BY <1>2 DEF UseRegistry, driverVars
    <2>2. EntryOK' /\ irp' \in [Irps -> IrpPC]
      BY <2>1 DEF DeviceInv, DeviceTypeOK, EntryOK, deviceVars
    <2>3. QED
      BY <2>1, <2>2, DeviceStaysPut
  <1>3. ASSUME NEW t \in Threads, CreateThread(t) PROVE DeviceInv'
    BY <1>1, <1>3, CreateThreadKeepsInv
  <1>4. ASSUME NEW t \in Threads, EndThread(t) PROVE DeviceInv'
    BY <1>1, <1>4, EndThreadKeepsInv
  <1>5. ASSUME NEW t \in Threads,
               PowerThread(t) \/ \E i \in Irps : WakeThread(i, t)
        PROVE  DeviceInv'
    BY <1>5, WorkersKeepInv
  <1>6. ASSUME NEW i \in Irps, Arrive(i) \/ Enter(i) \/ GoAstray(i) \/ Leave(i)
        PROVE  DeviceInv'
    BY <1>6, DispatchKeepsInv
  <1>7. CASE LetGo
    <2>1. phase \in {"unwind", "remove"}
      BY <1>7 DEF LetGo
    <2>2. QED
      BY <1>7, <2>1, UnwindKeepsInv, DestroyKeepsInv
  <1>8. QED
    BY <1>2, <1>3, <1>4, <1>5, <1>6, <1>7, EntryKeepsInv, AddRemoveKeepInv,
       CreateGoesOnKeepsInv, CreateFailsKeepsInv DEF DriverNext, DeviceStep

\* DeviceInv and the invariant of the thread objects, in every reachable state.
THEOREM DriverInductive ==
    ASSUME PowerThreads
    PROVE  DriverSpec => [](ThreadInv /\ DeviceInv)
  <1>1. DriverSpec => []ThreadInv
    BY PowerThreadsAreThreads, ThreadInductive, PTL
  <1>2. QED
    BY <1>1, InitDeviceInv, StepDeviceInv, PTL DEF DriverSpec

-----------------------------------------------------------------------------
(* What the driver promises                                                *)

\* Nothing is left of an unloaded driver, a device that is gone or a failed
\* AddDevice, which says that it failed, whichever rung that was; for this the
\* bus interface must have the version asked for, its data must be readable,
\* and the console interface must be there, see "hazards".
THEOREM DriverLeavesNothing ==
    ASSUME PowerThreads, Faults \cap {"busVersion", "busData", "console", "done"} = {}
    PROVE  DriverSpec => []NothingLeft
  <1>1. Leaks = {}
    BY DEF Leaks
  <1>2. DeviceInv => NothingLeft
    BY <1>1 DEF DeviceInv, EntryOK, FdoOK, StatusOK, NothingLeft, NotLoaded
  <1>3. QED
    BY <1>2, DriverInductive, PTL

\* Neither assertion on the way to __FdoFree fails, unless the lower driver
\* has no console interface.
THEOREM FdoIsZeroWhenFreed ==
    ASSUME PowerThreads, Faults \cap {"console", "done"} = {}
    PROVE  DriverSpec => []FreeAssertion
  <1>1. Leaks \subseteq {"BusReference"}
    BY DEF Leaks
  <1>2. ASSUME DeviceInv PROVE FreeAssertion
    <2>1. SUFFICES ASSUME "Fdo" \in GivingUp
                   PROVE  fdo \cap FdoFields \subseteq GivingUp
      BY DEF FreeAssertion
    <2>2. CASE phase = "unwind"
      <3>1. rung \in 1 .. Rungs /\ GivingUp = CreateLadder[rung].undo
        BY <1>2, <2>2, Giving DEF DeviceInv, DeviceTypeOK
      <3>2. rung = 4
        BY <2>1, <3>1, CreateLabels DEF Rank, Rungs
      <3>3. QED
        BY <1>1, <1>2, <2>2, <3>1, <3>2, CreateLabels
           DEF DeviceInv, FdoOK, Below, Rank, Everything, FdoFields, Rungs
    <2>3. CASE phase = "remove"
      <3>1. rung \in 1 .. Turns /\ GivingUp = DestroySteps[rung]
        BY <1>2, <2>3, Giving DEF DeviceInv, DeviceTypeOK
      <3>2. rung = 12
        BY <2>1, <3>1, DestroyTurns DEF Turn, Turns
      <3>3. QED
        BY <1>2, <2>3, <3>1, <3>2, DestroyTurns
           DEF DeviceInv, FdoOK, LeftFor, Turn, Everything, FdoFields, Turns
    <2>4. QED
      BY <2>1, <2>2, <2>3, Giving
  <1>3. QED
    BY <1>2, DriverInductive, PTL

\* The FDO is there while a power thread runs, but for one that ThreadCreate
\* has failed to take a reference to; whatever else fails.
THEOREM ThreadsRunInsideFdo ==
    ASSUME PowerThreads
    PROVE  DriverSpec => []FdoOutlivesThreads
  <1>1. ASSUME ThreadInv, DeviceInv PROVE FdoOutlivesThreads
    <2>1. SUFFICES ASSUME NEW t \in Threads, WorkerHolds(t), owner[t] # "failed"
                   PROVE  "Fdo" \in fdo
      BY DEF FdoOutlivesThreads
    <2>2. owner[t] \notin {"none", "failed", "joined"}
      BY <1>1, <2>1 DEF ThreadInv, ThreadOK, PhasesOK, WorkerHolds
    <2>3. /\ phase \in {"create", "unwind"} => rung > 3
          /\ phase = "remove" => rung < 12
          /\ phase \in {"create", "unwind", "live", "remove"}
      BY <1>1, <2>2 DEF DeviceInv, DeviceTypeOK, PositionOK, ThreadRung,
                        ThreadTurn, Phase, Rungs, Turns
    <2>4. QED
      BY <1>1, <2>3 DEF DeviceInv, DeviceTypeOK, FdoOK, Below, LeftFor, Rank,
                        Turn, Everything, Rungs, Turns
  <1>2. QED
    BY <1>1, DriverInductive, PTL

-----------------------------------------------------------------------------
(* The registry helpers, for any values and arrays of strings, however many *)
(* keys and names they work on, and whatever others write in between.  The  *)
(* invariant says what a helper holds at each rung of its ladder (Holds).   *)
(* That follows from the order of its labels, and every ladder is Orderly.  *)

\* What a call holds before the rung r, if it returns the set given.
Holds(l, given, r) ==
    IF r > Len(l) THEN given
    ELSE IF l[r].step = "done" THEN l[r].drops \cup given
    ELSE IF l[r].step = "called" THEN Unwound(l, r) \cup {"Ansi"}
    ELSE Unwound(l, r)

Tidy(l, given) ==
    /\ Holds(l, given, 1) = {}
    /\ \A r \in 1 .. Len(l) :
          /\ Climbed(l, r, Holds(l, given, r)) = Holds(l, given, r + 1)
          /\ Unwound(l, r) \subseteq Holds(l, given, r)

\* What the labels of a ladder of n + 1 rungs say of the rungs: a rung takes
\* what the next label gives back, and no label gives back what was not taken,
\* but for a name, which is freed when the callback was called with it.
Orderly(l, n, given) ==
    /\ Len(l) = n + 1
    /\ l[1].step # "called" /\ l[1].undo = {}
    /\ \A r \in 1 .. n + 1 : l[r].step = "done" <=> r = n + 1
    /\ \A r \in 1 .. n :
          IF l[r].step = "called"
          THEN l[r].undo = {} /\ l[r].takes = {} /\ l[r].drops = {"Ansi"}
          ELSE l[r].drops = {} /\ "Ansi" \notin l[r].undo
    /\ \A r \in 1 .. n - 1 :
          /\ \A x \in l[r + 1].undo : \E q \in 1 .. r : x \in l[q].takes
          /\ IF l[r + 1].step = "called" THEN l[r].takes = {"Ansi"}
             ELSE l[r].takes \subseteq l[r + 1].undo
    /\ "Ansi" \notin l[n].takes
    /\ l[n + 1].takes = {} /\ l[n + 1].undo = {}
    /\ \A x : x # "Ansi" /\ (\E r \in 1 .. n : x \in l[r].takes)
                 <=> x \in l[n + 1].drops \cup given
    /\ l[n + 1].drops \cap given = {}

Kept(l, r) == {x \in UNION {l[q].takes : q \in 1 .. r - 1} : x # "Ansi"}

LEMMA KeptIsUnwound ==
  ASSUME NEW l, NEW n \in Nat \ {0}, NEW given, Orderly(l, n, given),
         NEW r \in 1 .. n
  PROVE  Unwound(l, r) = Kept(l, r)
  <1>1. ASSUME NEW x \in Unwound(l, r) PROVE x \in Kept(l, r)
    <2>1. PICK i \in 1 .. r : x \in l[i].undo
      BY <1>1 DEF Unwound
    <2>2. i # 1
      BY <2>1 DEF Orderly
    <2>3. PICK p \in 1 .. n - 1 : i = p + 1
      BY <2>2
    <2>4. PICK q \in 1 .. p : x \in l[q].takes
      BY <2>1, <2>3 DEF Orderly
    <2>5. i \in 1 .. n /\ q \in 1 .. r - 1
      BY <2>3
    <2>6. x # "Ansi"
      BY <2>1, <2>5 DEF Orderly
    <2>7. QED
      BY <2>4, <2>5, <2>6 DEF Kept
  <1>2. ASSUME NEW x \in Kept(l, r) PROVE x \in Unwound(l, r)
    <2>1. PICK q \in 1 .. r - 1 : x \in l[q].takes
      BY <1>2 DEF Kept
    <2>2. x # "Ansi"
      BY <1>2 DEF Kept
    <2>3. q \in 1 .. n - 1 /\ q + 1 \in 1 .. r
      OBVIOUS
    <2>4. x \in l[q + 1].undo
      BY <2>1, <2>2, <2>3 DEF Orderly
    <2>5. QED
      BY <2>3, <2>4 DEF Unwound
  <1>3. QED
    BY <1>1, <1>2

LEMMA KeptNext ==
  ASSUME NEW l, NEW r \in Nat \ {0}
  PROVE  Kept(l, r + 1) = Kept(l, r) \cup (l[r].takes \ {"Ansi"})
  <1>1. 1 .. (r + 1) - 1 = (1 .. r - 1) \cup {r}
    OBVIOUS
  <1>2. QED
    BY <1>1 DEF Kept

LEMMA OrderlyIsTidy ==
  ASSUME NEW l, NEW n \in Nat \ {0}, NEW given, Orderly(l, n, given)
  PROVE  Tidy(l, given)
  <1>1. Kept(l, n + 1) = l[n + 1].drops \cup given
    <2>1. (n + 1) - 1 = n
      OBVIOUS
    <2>2. \A x : x \in Kept(l, n + 1)
                    <=> x # "Ansi" /\ (\E r \in 1 .. n : x \in l[r].takes)
      BY <2>1 DEF Kept
    <2>3. \A x : x \in Kept(l, n + 1) <=> x \in l[n + 1].drops \cup given
      BY <2>2 DEF Orderly
    <2>4. QED
      BY <2>3
  <1>2. ASSUME NEW r \in 1 .. n
        PROVE  Holds(l, given, r)
                 = Kept(l, r) \cup IF l[r].step = "called" THEN {"Ansi"} ELSE {}
    <2>1. l[r].step # "done" /\ ~(r > Len(l))
      BY DEF Orderly
    <2>2. QED
      BY <2>1, KeptIsUnwound DEF Holds
  <1>3. Holds(l, given, n + 1) = l[n + 1].drops \cup given
    BY DEF Holds, Orderly
  <1>4. Holds(l, given, n + 2) = given
    BY DEF Holds, Orderly
  <1>5. Holds(l, given, 1) = {}
    <2>1. Kept(l, 1) = {}
      BY 1 .. 1 - 1 = {} DEF Kept
    <2>2. QED
      BY <1>2, <2>1 DEF Orderly
  <1>6. ASSUME NEW r \in 1 .. n PROVE Unwound(l, r) \subseteq Holds(l, given, r)
    BY <1>2, KeptIsUnwound
  <1>7. ASSUME NEW r \in 1 .. n
         PROVE  Climbed(l, r, Holds(l, given, r)) = Holds(l, given, r + 1)
    <2>1. Kept(l, r + 1) = Kept(l, r) \cup (l[r].takes \ {"Ansi"})
      BY KeptNext
    <2>2. "Ansi" \notin Kept(l, r)
      BY DEF Kept
    <2>3. Holds(l, given, r)
             = Kept(l, r) \cup IF l[r].step = "called" THEN {"Ansi"} ELSE {}
      BY <1>2
    <2>4. Climbed(l, r, Holds(l, given, r))
             = Kept(l, r + 1) \cup (l[r].takes \cap {"Ansi"})
      <3>1. CASE l[r].step = "called"
        <4>1. l[r].takes = {} /\ l[r].drops = {"Ansi"}
          BY <3>1 DEF Orderly
        <4>2. QED
          BY <2>1, <2>2, <2>3, <3>1, <4>1 DEF Climbed
      <3>2. CASE l[r].step # "called"
        <4>1. l[r].drops = {}
          BY <3>2 DEF Orderly
        <4>2. QED
          BY <2>1, <2>2, <2>3, <3>2, <4>1 DEF Climbed
      <3>3. QED
        BY <3>1, <3>2
    <2>5. CASE r = n
      <3>1. "Ansi" \notin l[r].takes
        BY <2>5 DEF Orderly
      <3>2. l[r].takes \cap {"Ansi"} = {}
        BY <3>1
      <3>3. Holds(l, given, r + 1) = Kept(l, r + 1)
        BY <1>1, <1>3, <2>5
      <3>4. QED
        BY <2>4, <3>2, <3>3
    <2>6. CASE r # n
      <3>1. r \in 1 .. n - 1 /\ r + 1 \in 1 .. n
        BY <2>6
      <3>2. Holds(l, given, r + 1)
              = Kept(l, r + 1) \cup IF l[r + 1].step = "called" THEN {"Ansi"} ELSE {}
        BY <1>2, <3>1
      <3>3. CASE l[r + 1].step = "called"
        <4>1. l[r].takes = {"Ansi"}
          BY <3>1, <3>3 DEF Orderly
        <4>2. l[r].takes \cap {"Ansi"} = {"Ansi"}
          BY <4>1
        <4>3. QED
          BY <2>4, <3>2, <3>3, <4>2
      <3>4. CASE l[r + 1].step # "called"
        <4>1. l[r].takes \subseteq l[r + 1].undo
          BY <3>1, <3>4 DEF Orderly
        <4>2. "Ansi" \notin l[r + 1].undo
          BY <3>1, <3>4 DEF Orderly
        <4>3. l[r].takes \cap {"Ansi"} = {}
          BY <4>1, <4>2
        <4>4. QED
          BY <2>4, <3>2, <3>4, <4>3
      <3>5. QED
        BY <3>3, <3>4
    <2>7. QED
      BY <2>5, <2>6
  <1>8. /\ Climbed(l, n + 1, Holds(l, given, n + 1)) = Holds(l, given, n + 2)
        /\ Unwound(l, n + 1) \subseteq Holds(l, given, n + 1)
    <2>1. l[n + 1].takes = {} /\ l[n + 1].undo = {} /\ l[n + 1].drops \cap given = {}
      BY DEF Orderly
    <2>2. 1 .. n + 1 = (1 .. n) \cup {n + 1} /\ n \in 1 .. n
      OBVIOUS
    <2>3. Unwound(l, n + 1) = Unwound(l, n)
      BY <2>1, <2>2 DEF Unwound
    <2>4. Unwound(l, n) \subseteq Kept(l, n + 1)
      BY <2>2, KeptIsUnwound, KeptNext
    <2>5. QED
      BY <1>1, <1>3, <1>4, <2>1, <2>3, <2>4 DEF Climbed
  <1>9. Len(l) = n + 1 /\ 1 .. n + 1 = (1 .. n) \cup {n + 1}
    BY DEF Orderly
  <1>10. QED
    BY <1>5, <1>6, <1>7, <1>8, <1>9, (n + 1) + 1 = n + 2 DEF Tidy

LEMMA OpenHardwareKeyIsOrderly == Orderly(OpenHardwareKey, 5, {"Key"})
    BY SMTT(30) DEF Orderly, OpenHardwareKey, TwoQueries, Rung, Done, RungDrops

LEMMA CreateKeyRungs ==
  ASSUME NEW n \in Nat
  PROVE  /\ Len(CreateKey(n)) = n + 4
         /\ CreateKey(n)[1] = Rung("copy", {"Buffer"}, {})
         /\ CreateKey(n)[2] = Rung("root", {"Key"}, {"Buffer"})
         /\ CreateKey(n)[3] = Rung("name", {}, {"Key"})
         /\ \A i \in 1 .. n : CreateKey(n)[i + 3] = Rung("child", {}, {})
         /\ CreateKey(n)[n + 4] = Done({"Buffer"})
  BY SMTT(30) DEF CreateKey

LEMMA CreateKeyIsOrderly ==
  ASSUME NEW n \in Nat
  PROVE  Orderly(CreateKey(n), n + 3, {"Key"})
  <1> DEFINE l == CreateKey(n)
  <1>1. ASSUME NEW r \in 4 .. n + 3 PROVE l[r] = Rung("child", {}, {})
    <2>1. PICK i \in 1 .. n : r = i + 3
      OBVIOUS
    <2>2. QED
      BY <2>1, CreateKeyRungs
  <1>2. /\ Len(l) = n + 4
        /\ l[1] = Rung("copy", {"Buffer"}, {})
        /\ l[2] = Rung("root", {"Key"}, {"Buffer"})
        /\ l[3] = Rung("name", {}, {"Key"})
        /\ l[n + 4] = Done({"Buffer"})
    BY CreateKeyRungs
  <1>3. \A r \in 4 .. n + 3 :
            l[r].step = "child" /\ l[r].takes = {} /\ l[r].drops = {} /\ l[r].undo = {}
    BY <1>1 DEF Rung
  <1> HIDE DEF l
  <1>4. l[1].step = "copy" /\ l[1].takes = {"Buffer"} /\ l[1].drops = {} /\ l[1].undo = {}
    BY <1>2 DEF Rung
  <1>5. l[2].step = "root" /\ l[2].takes = {"Key"} /\ l[2].drops = {} /\ l[2].undo = {"Buffer"}
    BY <1>2 DEF Rung
  <1>6. l[3].step = "name" /\ l[3].takes = {} /\ l[3].drops = {} /\ l[3].undo = {"Key"}
    BY <1>2 DEF Rung
  <1>7. l[n + 4].step = "done" /\ l[n + 4].takes = {} /\ l[n + 4].drops = {"Buffer"}
           /\ l[n + 4].undo = {}
    BY <1>2 DEF Done, RungDrops
  <1>8. \A r \in 1 .. n + 3 : r = 1 \/ r = 2 \/ r = 3 \/ r \in 4 .. n + 3
    OBVIOUS
  <1>9. \A r \in 1 .. n + 4 : l[r].step = "done" <=> r = n + 4
    BY <1>4, <1>5, <1>6, <1>3, <1>7, <1>8
  <1>10. \A r \in 1 .. n + 3 :
          /\ l[r].step # "called" /\ l[r].drops = {} /\ "Ansi" \notin l[r].undo
          /\ "Ansi" \notin l[r].takes
    BY <1>4, <1>5, <1>6, <1>3, <1>8
  <1>11. \A r \in 1 .. n + 2 :
          /\ \A x \in l[r + 1].undo : \E q \in 1 .. r : x \in l[q].takes
          /\ l[r].takes \subseteq l[r + 1].undo
    <2> TAKE r \in 1 .. n + 2
    <2>1. r = 1 \/ r = 2 \/ r \in 3 .. n + 2
      OBVIOUS
    <2>2. QED
      BY <2>1, <1>4, <1>5, <1>6, <1>3
  <1>12. \A x : (\E r \in 1 .. n + 3 : x \in l[r].takes) <=> x \in {"Buffer", "Key"}
    BY <1>4, <1>5, <1>6, <1>3, <1>8
  <1>13. Orderly(l, n + 3, {"Key"})
    <2>1. (n + 3) + 1 = n + 4 /\ (n + 3) - 1 = n + 2
      OBVIOUS
    <2>2. \A r \in 1 .. (n + 3) - 1 :
          /\ \A x \in l[r + 1].undo : \E q \in 1 .. r : x \in l[q].takes
          /\ IF l[r + 1].step = "called" THEN l[r].takes = {"Ansi"}
             ELSE l[r].takes \subseteq l[r + 1].undo
      BY <1>10, <1>11, <2>1
    <2>3. \A x : x # "Ansi" /\ (\E r \in 1 .. n + 3 : x \in l[r].takes)
                 <=> x \in l[n + 4].drops \cup {"Key"}
      BY <1>12, <1>7
    <2>4. \A r \in 1 .. n + 3 :
          IF l[r].step = "called"
          THEN l[r].undo = {} /\ l[r].takes = {} /\ l[r].drops = {"Ansi"}
          ELSE l[r].drops = {} /\ "Ansi" \notin l[r].undo
      BY <1>10
    <2>5. "Ansi" \notin l[n + 3].takes
      BY <1>10
    <2>6. /\ Len(l) = (n + 3) + 1 /\ l[1].step # "called" /\ l[1].undo = {}
          /\ l[(n + 3) + 1].takes = {} /\ l[(n + 3) + 1].undo = {}
          /\ l[(n + 3) + 1].drops \cap {"Key"} = {}
      BY <1>2, <1>4, <1>7, <2>1
    <2>7. \A r \in 1 .. (n + 3) + 1 : l[r].step = "done" <=> r = (n + 3) + 1
      BY <1>9, <2>1
    <2>8. \A x : x # "Ansi" /\ (\E r \in 1 .. n + 3 : x \in l[r].takes)
                 <=> x \in l[(n + 3) + 1].drops \cup {"Key"}
      BY <2>1, <2>3
    <2>9. QED
      BY ONLY <2>2, <2>4, <2>5, <2>6, <2>7, <2>8 DEF Orderly
  <1>14. QED
    BY <1>13 DEF l

LEMMA CreateSubKeyRungs ==
  ASSUME NEW n \in Nat \ {0}
  PROVE  /\ Len(CreateSubKey(n)) = n + 4
         /\ CreateSubKey(n)[1] = Rung("unicode", {"Unicode"}, {})
         /\ CreateSubKey(n)[2] = Rung("copy", {"Buffer"}, {"Unicode"})
         /\ CreateSubKey(n)[3] = Rung("name", {}, {"Buffer"})
         /\ CreateSubKey(n)[4] = Rung("child", {"Key"}, {})
         /\ \A r \in 5 .. n + 3 : CreateSubKey(n)[r] = Rung("child", {}, {"Key"})
         /\ CreateSubKey(n)[n + 4] = Done({"Buffer", "Unicode"})
  <1>1. \A i \in 2 .. n : CreateSubKey(n)[i + 3] = Rung("child", {}, {"Key"})
    BY SMTT(30) DEF CreateSubKey
  <1>2. \A r \in 5 .. n + 3 : r - 3 \in 2 .. n /\ r = (r - 3) + 3
    OBVIOUS
  <1>3. \A r \in 5 .. n + 3 : CreateSubKey(n)[r] = Rung("child", {}, {"Key"})
    BY <1>1, <1>2
  <1>4. CreateSubKey(n)[4] = Rung("child", {"Key"}, {})
    BY SMTT(30) DEF CreateSubKey
  <1>5. /\ Len(CreateSubKey(n)) = n + 4
        /\ CreateSubKey(n)[n + 4] = Done({"Buffer", "Unicode"})
    BY SMTT(30) DEF CreateSubKey
  <1>6. /\ CreateSubKey(n)[1] = Rung("unicode", {"Unicode"}, {})
        /\ CreateSubKey(n)[2] = Rung("copy", {"Buffer"}, {"Unicode"})
        /\ CreateSubKey(n)[3] = Rung("name", {}, {"Buffer"})
    BY SMTT(30) DEF CreateSubKey, Unicode
  <1>7. QED
    BY <1>3, <1>4, <1>5, <1>6

LEMMA EnumerateRungs ==
  ASSUME NEW n \in Nat, NEW l, l = Snapshot \o Rounds(n) \o <<Done({"Basic", "Full"})>>
  PROVE  /\ Len(l) = 4 * n + 5
         /\ l[1] = Rung("size", {}, {})
         /\ l[2] = Rung("block", {"Full"}, {})
         /\ l[3] = Rung("query", {}, {"Full"})
         /\ l[4] = Rung("basic", {"Basic"}, {})
         /\ \A k \in 0 .. n - 1 :
               /\ l[4 * k + 5] = Rung("enumerate", {}, {"Basic"})
               /\ l[4 * k + 6] = Rung("name", {"Ansi"}, {})
               /\ l[4 * k + 7] = RungDrops("called", {"Ansi"}, {})
               /\ l[4 * k + 8] = Rung("callback", {}, {})
         /\ l[4 * n + 5] = Done({"Basic", "Full"})
  <1>1. \A i \in 1 .. 4 * n : l[i + 4] = NameRound[((i - 1) % 4) + 1]
    BY SMTT(30) DEF Snapshot, Rounds
  <1>2. ASSUME NEW k \in 0 .. n - 1, NEW j \in 1 .. 4
        PROVE  l[4 * k + j + 4] = NameRound[j]
    <2>1. 4 * k + j \in 1 .. 4 * n /\ (((4 * k + j) - 1) % 4) + 1 = j
      OBVIOUS
    <2>2. QED
      BY <1>1, <2>1
  <1>3. ASSUME NEW k \in 0 .. n - 1
        PROVE  /\ l[4 * k + 5] = NameRound[1] /\ l[4 * k + 6] = NameRound[2]
               /\ l[4 * k + 7] = NameRound[3] /\ l[4 * k + 8] = NameRound[4]
    <2>1. /\ 4 * k + 1 + 4 = 4 * k + 5 /\ 4 * k + 2 + 4 = 4 * k + 6
          /\ 4 * k + 3 + 4 = 4 * k + 7 /\ 4 * k + 4 + 4 = 4 * k + 8
      OBVIOUS
    <2>2. 1 \in 1 .. 4 /\ 2 \in 1 .. 4 /\ 3 \in 1 .. 4 /\ 4 \in 1 .. 4
      OBVIOUS
    <2>3. l[4 * k + 1 + 4] = NameRound[1]
      BY <1>2, <2>2
    <2>4. l[4 * k + 2 + 4] = NameRound[2]
      BY <1>2, <2>2
    <2>5. l[4 * k + 3 + 4] = NameRound[3]
      BY <1>2, <2>2
    <2>6. l[4 * k + 4 + 4] = NameRound[4]
      BY <1>2, <2>2
    <2>7. QED
      BY ONLY <2>1, <2>3, <2>4, <2>5, <2>6
  <1>4. ASSUME NEW k \in 0 .. n - 1
        PROVE  /\ l[4 * k + 5] = Rung("enumerate", {}, {"Basic"})
               /\ l[4 * k + 6] = Rung("name", {"Ansi"}, {})
               /\ l[4 * k + 7] = RungDrops("called", {"Ansi"}, {})
               /\ l[4 * k + 8] = Rung("callback", {}, {})
    BY ONLY <1>3, k \in 0 .. n - 1 DEF NameRound
  <1>5. /\ Len(l) = 4 * n + 5
        /\ l[1] = Rung("size", {}, {})
        /\ l[2] = Rung("block", {"Full"}, {})
        /\ l[3] = Rung("query", {}, {"Full"})
        /\ l[4] = Rung("basic", {"Basic"}, {})
        /\ l[4 * n + 5] = Done({"Basic", "Full"})
    BY SMTT(30) DEF Snapshot, Rounds
  <1>6. QED
    BY <1>4, <1>5

LEMMA QuerySzValueRungs ==
  ASSUME NEW n \in Nat
  PROVE  /\ Len(QuerySzValue(n)) = n + 7
         /\ QuerySzValue(n)[1] = Rung("unicode", {"Unicode"}, {})
         /\ QuerySzValue(n)[2] = Rung("size", {}, {"Unicode"})
         /\ QuerySzValue(n)[3] = Rung("block", {"Value"}, {})
         /\ QuerySzValue(n)[4] = Rung("query", {}, {"Value"})
         /\ QuerySzValue(n)[5] = Rung("isString", {}, {})
         /\ QuerySzValue(n)[6] = Rung("array", {"Array"}, {})
         /\ \A r \in 7 .. n + 6 :
                QuerySzValue(n)[r] = Rung("buffer", {Buffer(r - 6)},
                                          IF r = 7 THEN {"Array"} ELSE {Buffer(r - 7)})
         /\ QuerySzValue(n)[n + 7] = Done({"Value", "Unicode"})
  <1>1. \A i \in 1 .. n : QuerySzValue(n)[i + 6] = Rung("buffer", {Buffer(i)},
                                  IF i = 1 THEN {"Array"} ELSE {Buffer(i - 1)})
    BY SMTT(30) DEF QuerySzValue, TwoQueries, ArrayOf, Buffers
  <1>2. \A r \in 7 .. n + 6 : r - 6 \in 1 .. n /\ r = (r - 6) + 6 /\ (r - 6) - 1 = r - 7
    OBVIOUS
  <1>3. QED
    BY SMTT(30), <1>1, <1>2 DEF QuerySzValue, TwoQueries, ArrayOf, Buffers, Unicode

LEMMA FixedAreOrderly ==
  /\ Orderly(OpenKey, 1, {"Key"})
  /\ Orderly(OpenSoftwareKey, 1, {"Key"})
  /\ Orderly(OpenSubKey, 2, {"Key"})
  /\ Orderly(DeleteSubKey, 3, {})
  /\ Orderly(DeleteValue, 2, {})
  /\ Orderly(QueryDwordValue, 5, {})
  /\ Orderly(UpdateDwordValue, 3, {})
  /\ Orderly(QueryBinaryValue, 6, {"Data"})
  /\ Orderly(UpdateBinaryValue, 3, {})
  /\ Orderly(UpdateSzValue, 4, {})
  <1>1. Orderly(OpenKey, 1, {"Key"})
    BY SMTT(30) DEF Orderly, OpenKey, Rung, Done, RungDrops
  <1>2. Orderly(OpenSoftwareKey, 1, {"Key"})
    BY SMTT(30) DEF Orderly, OpenSoftwareKey, Rung, Done, RungDrops
  <1>3. Orderly(OpenSubKey, 2, {"Key"})
    BY SMTT(30) DEF Orderly, OpenSubKey, Unicode, Rung, Done, RungDrops
  <1>4. Orderly(DeleteSubKey, 3, {})
    BY SMTT(30) DEF Orderly, DeleteSubKey, Unicode, Rung, Done, RungDrops
  <1>5. Orderly(DeleteValue, 2, {})
    BY SMTT(30) DEF Orderly, DeleteValue, Unicode, Rung, Done, RungDrops
  <1>6. Orderly(QueryDwordValue, 5, {})
    BY SMTT(30) DEF Orderly, QueryDwordValue, TwoQueries, Unicode, Rung, Done, RungDrops
  <1>7. Orderly(UpdateDwordValue, 3, {})
    BY SMTT(30) DEF Orderly, UpdateDwordValue, Unicode, Rung, Done, RungDrops
  <1>8. Orderly(QueryBinaryValue, 6, {"Data"})
    BY SMTT(30) DEF Orderly, QueryBinaryValue, TwoQueries, Unicode, Rung, Done, RungDrops
  <1>9. Orderly(UpdateBinaryValue, 3, {})
    BY SMTT(30) DEF Orderly, UpdateBinaryValue, Unicode, Rung, Done, RungDrops
  <1>10. Orderly(UpdateSzValue, 4, {})
    BY SMTT(30) DEF Orderly, UpdateSzValue, Unicode, Rung, Done, RungDrops
  <1>11. QED
    BY <1>1, <1>2, <1>3, <1>4, <1>5, <1>6, <1>7, <1>8, <1>9, <1>10

LEMMA OneStringIsOrderly ==
  /\ Orderly(QueryKeyName, 5, {"Array", Buffer(1)})
  /\ Orderly(QuerySystemStartOption, 5, {"Array", Buffer(1)})
  <1>1. Buffer(1) \notin Others
    <2>1. 1 \in DOMAIN BufferNames
      BY RegistryAssumption
    <2>2. QED
      BY <2>1, RegistryAssumption DEF Buffer
  <1>2. /\ Len(QueryKeyName) = 6
        /\ QueryKeyName[1] = Rung("size", {}, {})
        /\ QueryKeyName[2] = Rung("block", {"Value"}, {})
        /\ QueryKeyName[3] = Rung("query", {}, {"Value"})
        /\ QueryKeyName[4] = Rung("array", {"Array"}, {})
        /\ QueryKeyName[5] = Rung("buffer", {Buffer(1)}, {"Array"})
        /\ QueryKeyName[6] = Done({"Value"})
    BY SMTT(30) DEF QueryKeyName, TwoQueries, ArrayOf, Buffers
  <1>3. /\ Len(QuerySystemStartOption) = 6
        /\ QuerySystemStartOption[1] = Rung("open", {"Control"}, {})
        /\ QuerySystemStartOption[2] = Rung("options", {"Options"}, {"Control"})
        /\ QuerySystemStartOption[3] = Rung("scan", {}, {"Options"})
        /\ QuerySystemStartOption[4] = Rung("array", {"Array"}, {})
        /\ QuerySystemStartOption[5] = Rung("buffer", {Buffer(1)}, {"Array"})
        /\ QuerySystemStartOption[6] = Done({"Options", "Control"})
    BY SMTT(30) DEF QuerySystemStartOption, ArrayOf, Buffers
  <1>4. Orderly(QueryKeyName, 5, {"Array", Buffer(1)})
    BY SMTT(30), <1>1, <1>2 DEF Orderly, Rung, Done, RungDrops, Others
  <1>5. Orderly(QuerySystemStartOption, 5, {"Array", Buffer(1)})
    BY SMTT(30), <1>1, <1>3 DEF Orderly, Rung, Done, RungDrops, Others
  <1>6. QED
    BY <1>4, <1>5

LEMMA CreateSubKeyIsOrderly ==
  ASSUME NEW n \in Nat \ {0}
  PROVE  Orderly(CreateSubKey(n), n + 3, {"Key"})
  <1> DEFINE l == CreateSubKey(n)
  <1>1. /\ Len(l) = n + 4
        /\ l[1] = Rung("unicode", {"Unicode"}, {})
        /\ l[2] = Rung("copy", {"Buffer"}, {"Unicode"})
        /\ l[3] = Rung("name", {}, {"Buffer"})
        /\ l[4] = Rung("child", {"Key"}, {})
        /\ \A r \in 5 .. n + 3 : l[r] = Rung("child", {}, {"Key"})
        /\ l[n + 4] = Done({"Buffer", "Unicode"})
    BY CreateSubKeyRungs
  <1> HIDE DEF l
  <1>2. l[1].step = "unicode" /\ l[1].takes = {"Unicode"} /\ l[1].drops = {} /\ l[1].undo = {}
    BY <1>1 DEF Rung
  <1>3. l[2].step = "copy" /\ l[2].takes = {"Buffer"} /\ l[2].drops = {} /\ l[2].undo = {"Unicode"}
    BY <1>1 DEF Rung
  <1>4. l[3].step = "name" /\ l[3].takes = {} /\ l[3].drops = {} /\ l[3].undo = {"Buffer"}
    BY <1>1 DEF Rung
  <1>5. l[4].step = "child" /\ l[4].takes = {"Key"} /\ l[4].drops = {} /\ l[4].undo = {}
    BY <1>1 DEF Rung
  <1>6. \A r \in 5 .. n + 3 :
            l[r].step = "child" /\ l[r].takes = {} /\ l[r].drops = {} /\ l[r].undo = {"Key"}
    BY <1>1 DEF Rung
  <1>7. l[n + 4].step = "done" /\ l[n + 4].takes = {} /\ l[n + 4].drops = {"Buffer", "Unicode"} /\ l[n + 4].undo = {}
    BY <1>1 DEF Done, RungDrops
  <1>8. \A r \in 1 .. n + 3 : r = 1 \/ r = 2 \/ r = 3 \/ r = 4 \/ r \in 5 .. n + 3
    OBVIOUS
  <1>9. \A r \in 1 .. n + 4 : l[r].step = "done" <=> r = n + 4
    BY <1>2, <1>3, <1>4, <1>5, <1>6, <1>7, <1>8
  <1>10. \A r \in 1 .. n + 3 :
          /\ l[r].step # "called" /\ l[r].drops = {} /\ "Ansi" \notin l[r].undo
          /\ "Ansi" \notin l[r].takes
    BY <1>2, <1>3, <1>4, <1>5, <1>6, <1>8
  <1>11. \A r \in 1 .. n + 2 :
          /\ \A x \in l[r + 1].undo : \E q \in 1 .. r : x \in l[q].takes
          /\ l[r].takes \subseteq l[r + 1].undo
    <2> TAKE r \in 1 .. n + 2
    <2>1. r = 1 \/ r = 2 \/ r = 3 \/ r \in 4 .. n + 2
      OBVIOUS
    <2>2. r \in 4 .. n + 2 => r + 1 \in 5 .. n + 3 /\ 4 \in 1 .. r /\ (r = 4 \/ r \in 5 .. n + 3)
      OBVIOUS
    <2>3. CASE r \in 4 .. n + 2
      BY <2>2, <2>3, <1>5, <1>6
    <2>4. QED
      BY <2>1, <2>3, <1>2, <1>3, <1>4, <1>5
  <1>12. \A x : (\E r \in 1 .. n + 3 : x \in l[r].takes) <=> x \in {"Unicode", "Buffer", "Key"}
    BY <1>2, <1>3, <1>4, <1>5, <1>6, <1>8
  <1>13. Orderly(l, n + 3, {"Key"})
    <2>1. (n + 3) + 1 = n + 4 /\ (n + 3) - 1 = n + 2
      OBVIOUS
    <2>2. \A r \in 1 .. (n + 3) - 1 :
          /\ \A x \in l[r + 1].undo : \E q \in 1 .. r : x \in l[q].takes
          /\ IF l[r + 1].step = "called" THEN l[r].takes = {"Ansi"}
             ELSE l[r].takes \subseteq l[r + 1].undo
      BY <1>10, <1>11, <2>1
    <2>3. \A x : x # "Ansi" /\ (\E r \in 1 .. n + 3 : x \in l[r].takes)
                 <=> x \in l[n + 4].drops \cup {"Key"}
      BY <1>12, <1>7
    <2>4. \A r \in 1 .. n + 3 :
          IF l[r].step = "called"
          THEN l[r].undo = {} /\ l[r].takes = {} /\ l[r].drops = {"Ansi"}
          ELSE l[r].drops = {} /\ "Ansi" \notin l[r].undo
      BY <1>10
    <2>5. "Ansi" \notin l[n + 3].takes
      BY <1>10
    <2>6. /\ Len(l) = (n + 3) + 1 /\ l[1].step # "called" /\ l[1].undo = {}
          /\ l[(n + 3) + 1].takes = {} /\ l[(n + 3) + 1].undo = {}
          /\ l[(n + 3) + 1].drops \cap {"Key"} = {}
      BY <1>1, <1>2, <1>7, <2>1
    <2>7. \A r \in 1 .. (n + 3) + 1 : l[r].step = "done" <=> r = (n + 3) + 1
      BY <1>9, <2>1
    <2>8. \A x : x # "Ansi" /\ (\E r \in 1 .. n + 3 : x \in l[r].takes)
                 <=> x \in l[(n + 3) + 1].drops \cup {"Key"}
      BY <2>1, <2>3
    <2>9. QED
      BY ONLY <2>2, <2>4, <2>5, <2>6, <2>7, <2>8 DEF Orderly
  <1>14. QED
    BY <1>13 DEF l

LEMMA QuerySzValueIsOrderly ==
  ASSUME NEW n \in 0 .. Len(BufferNames)
  PROVE  Orderly(QuerySzValue(n), n + 6, {"Array"} \cup {Buffer(i) : i \in 1 .. n})
  <1> DEFINE l == QuerySzValue(n)
             given == {"Array"} \cup {Buffer(i) : i \in 1 .. n}
  <1>1. n \in Nat /\ Len(BufferNames) \in Nat
    BY RegistryAssumption
  <1>2. /\ Len(l) = n + 7
        /\ l[1] = Rung("unicode", {"Unicode"}, {})
        /\ l[2] = Rung("size", {}, {"Unicode"})
        /\ l[3] = Rung("block", {"Value"}, {})
        /\ l[4] = Rung("query", {}, {"Value"})
        /\ l[5] = Rung("isString", {}, {})
        /\ l[6] = Rung("array", {"Array"}, {})
        /\ \A r \in 7 .. n + 6 :
                l[r] = Rung("buffer", {Buffer(r - 6)},
                            IF r = 7 THEN {"Array"} ELSE {Buffer(r - 7)})
        /\ l[n + 7] = Done({"Value", "Unicode"})
    BY <1>1, QuerySzValueRungs
  <1>3. \A i \in 1 .. n : Buffer(i) \notin Others
    BY RegistryAssumption DEF Buffer
  <1> HIDE DEF l
  <1>4. l[1].step = "unicode" /\ l[1].takes = {"Unicode"} /\ l[1].drops = {} /\ l[1].undo = {}
    BY <1>2 DEF Rung
  <1>5. l[2].step = "size" /\ l[2].takes = {} /\ l[2].drops = {} /\ l[2].undo = {"Unicode"}
    BY <1>2 DEF Rung
  <1>6. l[3].step = "block" /\ l[3].takes = {"Value"} /\ l[3].drops = {} /\ l[3].undo = {}
    BY <1>2 DEF Rung
  <1>7. l[4].step = "query" /\ l[4].takes = {} /\ l[4].drops = {} /\ l[4].undo = {"Value"}
    BY <1>2 DEF Rung
  <1>8. l[5].step = "isString" /\ l[5].takes = {} /\ l[5].drops = {} /\ l[5].undo = {}
    BY <1>2 DEF Rung
  <1>9. l[6].step = "array" /\ l[6].takes = {"Array"} /\ l[6].drops = {} /\ l[6].undo = {}
    BY <1>2 DEF Rung
  <1>10. \A r \in 7 .. n + 6 :
            /\ l[r].step = "buffer" /\ l[r].takes = {Buffer(r - 6)} /\ l[r].drops = {}
            /\ r = 7 => l[r].undo = {"Array"}
            /\ r # 7 => l[r].undo = {Buffer(r - 7)}
    <2> TAKE r \in 7 .. n + 6
    <2>1. l[r] = Rung("buffer", {Buffer(r - 6)}, IF r = 7 THEN {"Array"} ELSE {Buffer(r - 7)})
      BY <1>2
    <2>2. /\ l[r].step = "buffer" /\ l[r].takes = {Buffer(r - 6)} /\ l[r].drops = {}
          /\ l[r].undo = IF r = 7 THEN {"Array"} ELSE {Buffer(r - 7)}
      BY ONLY <2>1 DEF Rung
    <2>3. QED
      BY <2>2
  <1>11. l[n + 7].step = "done" /\ l[n + 7].takes = {} /\ l[n + 7].drops = {"Value", "Unicode"} /\ l[n + 7].undo = {}
    BY <1>2 DEF Done, RungDrops
  <1>12. \A r \in 1 .. n + 6 : \/ r = 1 \/ r = 2 \/ r = 3 \/ r = 4 \/ r = 5 \/ r = 6
                               \/ r \in 7 .. n + 6
    BY <1>1
  <1>13. \A r \in 7 .. n + 6 : r - 6 \in 1 .. n /\ (r # 7 => r - 7 \in 1 .. n)
    BY <1>1
  <1>14. \A r \in 1 .. n + 7 : l[r].step = "done" <=> r = n + 7
    <2>1. \A r \in 1 .. n + 7 : r \in 1 .. n + 6 \/ r = n + 7
      BY <1>1
    <2>2. \A r \in 1 .. n + 6 : l[r].step # "done" /\ r # n + 7
      BY <1>1, <1>4, <1>5, <1>6, <1>7, <1>10, <1>8, <1>9, <1>12
    <2>3. QED
      BY <2>1, <2>2, <1>11
  <1>15. \A r \in 1 .. n + 6 :
          /\ l[r].step # "called" /\ l[r].drops = {} /\ "Ansi" \notin l[r].undo
          /\ "Ansi" \notin l[r].takes
    <2>1. \A r \in 7 .. n + 6 : "Ansi" \notin l[r].undo /\ "Ansi" \notin l[r].takes
      BY <1>10, <1>13, <1>3 DEF Others
    <2>2. QED
      BY <2>1, <1>4, <1>5, <1>6, <1>7, <1>10, <1>8, <1>9, <1>12
  <1>16. \A r \in 1 .. n + 5 :
          /\ \A x \in l[r + 1].undo : \E q \in 1 .. r : x \in l[q].takes
          /\ l[r].takes \subseteq l[r + 1].undo
    <2> TAKE r \in 1 .. n + 5
    <2>1. r = 1 \/ r = 2 \/ r = 3 \/ r = 4 \/ r = 5 \/ r = 6 \/ r \in 7 .. n + 5
      BY <1>1
    <2>2. CASE r \in 7 .. n + 5
      <3>1. r + 1 \in 7 .. n + 6 /\ r \in 7 .. n + 6 /\ r + 1 # 7 /\ (r + 1) - 7 = r - 6
               /\ r \in 1 .. r
        BY <1>1, <2>2
      <3>2. l[r + 1].undo = {Buffer(r - 6)} /\ l[r].takes = {Buffer(r - 6)}
        BY <1>10, <3>1
      <3>3. QED
        BY <3>1, <3>2
    <2>3. CASE r = 6
      <3>1. 7 \in 7 .. n + 6 /\ 6 \in 1 .. r
        BY <1>1, <2>3
      <3>2. l[r + 1].undo = {"Array"} /\ l[6].takes = {"Array"}
        BY <1>10, <1>9, <2>3, <3>1
      <3>3. QED
        BY <3>1, <3>2, <2>3
    <2>4. QED
      BY <2>1, <2>2, <2>3, <1>4, <1>5, <1>6, <1>7, <1>8, <1>9
  <1>17. \A x : (\E r \in 1 .. n + 6 : x \in l[r].takes) <=> x \in {"Value", "Unicode"} \cup given
    <2>1. \A x : (\E r \in 7 .. n + 6 : x \in l[r].takes) <=> x \in {Buffer(i) : i \in 1 .. n}
      <3>1. \A i \in 1 .. n : i + 6 \in 7 .. n + 6 /\ (i + 6) - 6 = i
        BY <1>1
      <3>2. \A r \in 7 .. n + 6 : l[r].takes = {Buffer(r - 6)}
        BY <1>10
      <3>3. ASSUME NEW x, NEW r \in 7 .. n + 6, x \in l[r].takes
            PROVE  x \in {Buffer(i) : i \in 1 .. n}
        <4>1. x = Buffer(r - 6) /\ r - 6 \in 1 .. n
          BY <3>2, <3>3, <1>13
        <4>2. QED
          BY <4>1
      <3>4. ASSUME NEW i \in 1 .. n PROVE \E r \in 7 .. n + 6 : Buffer(i) \in l[r].takes
        <4>1. i + 6 \in 7 .. n + 6 /\ (i + 6) - 6 = i
          BY <3>1
        <4>2. l[i + 6].takes = {Buffer(i)}
          BY <3>2, <4>1
        <4>3. QED
          BY <4>1, <4>2
      <3>5. QED
        BY <3>3, <3>4
    <2>2. 7 .. n + 6 \subseteq 1 .. n + 6 /\ 1 .. 6 \subseteq 1 .. n + 6
      BY <1>1
    <2>3. \A x : (\E r \in 1 .. 6 : x \in l[r].takes) <=> x \in {"Value", "Unicode", "Array"}
      BY <1>4, <1>5, <1>6, <1>7, <1>8, <1>9
    <2>4. \A r \in 1 .. n + 6 : r \in 1 .. 6 \/ r \in 7 .. n + 6
      BY <1>1
    <2>5. \A x : (\E r \in 1 .. n + 6 : x \in l[r].takes)
                    <=> (\E r \in 1 .. 6 : x \in l[r].takes) \/ (\E r \in 7 .. n + 6 : x \in l[r].takes)
      BY <2>2, <2>4
    <2>6. QED
      BY <2>1, <2>3, <2>5
  <1>18. l[n + 7].drops \cap given = {} /\ "Ansi" \notin given
    BY <1>11, <1>3 DEF Others
  <1> HIDE DEF given
  <1>19. Orderly(l, n + 6, given)
    <2>1. (n + 6) + 1 = n + 7 /\ (n + 6) - 1 = n + 5
      BY <1>1
    <2>2. \A r \in 1 .. (n + 6) - 1 :
          /\ \A x \in l[r + 1].undo : \E q \in 1 .. r : x \in l[q].takes
          /\ IF l[r + 1].step = "called" THEN l[r].takes = {"Ansi"}
             ELSE l[r].takes \subseteq l[r + 1].undo
      <3>1. \A r \in 1 .. n + 5 : r + 1 \in 1 .. n + 6
        BY <1>1
      <3>2. QED
        BY <1>15, <1>16, <2>1, <3>1
    <2>3. \A x : x # "Ansi" /\ (\E r \in 1 .. n + 6 : x \in l[r].takes)
                 <=> x \in l[n + 7].drops \cup given
      BY <1>17, <1>11, <1>18
    <2>4. \A r \in 1 .. n + 6 :
          IF l[r].step = "called"
          THEN l[r].undo = {} /\ l[r].takes = {} /\ l[r].drops = {"Ansi"}
          ELSE l[r].drops = {} /\ "Ansi" \notin l[r].undo
      BY <1>15
    <2>5. "Ansi" \notin l[n + 6].takes
      BY <1>1, <1>15
    <2>6. QED
      BY <1>2, <1>4, <1>11, <1>14, <1>18, <2>1, <2>2, <2>3, <2>4, <2>5 DEF Orderly
  <1>20. QED
    BY <1>19 DEF l, given

LEMMA RoundsAreOrderly ==
  ASSUME NEW n \in Nat, NEW l,
         Len(l) = 4 * n + 5,
         l[1] = Rung("size", {}, {}),
         l[2] = Rung("block", {"Full"}, {}),
         l[3] = Rung("query", {}, {"Full"}),
         l[4] = Rung("basic", {"Basic"}, {}),
         \A k \in 0 .. n - 1 :
               /\ l[4 * k + 5] = Rung("enumerate", {}, {"Basic"})
               /\ l[4 * k + 6] = Rung("name", {"Ansi"}, {})
               /\ l[4 * k + 7] = RungDrops("called", {"Ansi"}, {})
               /\ l[4 * k + 8] = Rung("callback", {}, {}),
         l[4 * n + 5] = Done({"Basic", "Full"})
  PROVE  Orderly(l, 4 * n + 4, {})
  <1> DEFINE P == [j \in 5 .. 8 |-> {4 * k + j : k \in 0 .. n - 1}]
  <1>1. /\ 5 .. 4 * n + 4 \subseteq P[5] \cup P[6] \cup P[7] \cup P[8]
        /\ \A r \in P[5] : r + 1 \in P[6]
        /\ \A r \in P[6] : r + 1 \in P[7]
        /\ \A r \in P[7] : r + 1 \in P[8]
        /\ \A r \in P[8] : r # 4 * n + 4 => r + 1 \in P[5]
        /\ n # 0 => 5 \in P[5] /\ 4 * n + 4 \in P[8]
    <2>1. ASSUME NEW r \in 5 .. 4 * n + 4 PROVE r \in P[5] \cup P[6] \cup P[7] \cup P[8]
      <3>1. (r - 5) \div 4 \in 0 .. n - 1 /\ (r - 5) % 4 \in 0 .. 3
            /\ r - 5 = 4 * ((r - 5) \div 4) + ((r - 5) % 4)
        OBVIOUS
      <3>2. PICK k \in 0 .. n - 1, d \in 0 .. 3 : r = 4 * k + (d + 5)
        BY <3>1
      <3>3. d + 5 \in 5 .. 8
        OBVIOUS
      <3>4. r \in P[d + 5]
        BY <3>2, <3>3
      <3>5. d + 5 = 5 \/ d + 5 = 6 \/ d + 5 = 7 \/ d + 5 = 8
        OBVIOUS
      <3>6. QED
        BY <3>4, <3>5
    <2>2. \A r \in P[5] : r + 1 \in P[6]
      OBVIOUS
    <2>3. \A r \in P[6] : r + 1 \in P[7]
      OBVIOUS
    <2>4. \A r \in P[7] : r + 1 \in P[8]
      OBVIOUS
    <2>5. ASSUME NEW r \in P[8], r # 4 * n + 4 PROVE r + 1 \in P[5]
      <3>1. PICK k \in 0 .. n - 1 : r = 4 * k + 8
        OBVIOUS
      <3>2. k + 1 \in 0 .. n - 1 /\ r + 1 = 4 * (k + 1) + 5
        BY <2>5, <3>1
      <3>3. P[5] = {4 * j + 5 : j \in 0 .. n - 1}
        OBVIOUS
      <3>4. QED
        BY ONLY <3>2, <3>3
    <2>6. ASSUME n # 0 PROVE 5 \in P[5] /\ 4 * n + 4 \in P[8]
      <3>1. 0 \in 0 .. n - 1 /\ n - 1 \in 0 .. n - 1 /\ 5 = 4 * 0 + 5
            /\ 4 * n + 4 = 4 * (n - 1) + 8
        BY <2>6
      <3>2. QED
        BY <3>1
    <2>7. QED
      BY <2>1, <2>2, <2>3, <2>4, <2>5, <2>6
  <1>2. l[1].step = "size" /\ l[1].takes = {} /\ l[1].drops = {} /\ l[1].undo = {}
    BY DEF Rung
  <1>3. l[2].step = "block" /\ l[2].takes = {"Full"} /\ l[2].drops = {} /\ l[2].undo = {}
    BY DEF Rung
  <1>4. l[3].step = "query" /\ l[3].takes = {} /\ l[3].drops = {} /\ l[3].undo = {"Full"}
    BY DEF Rung
  <1>5. l[4].step = "basic" /\ l[4].takes = {"Basic"} /\ l[4].drops = {} /\ l[4].undo = {}
    BY DEF Rung
  <1>6. \A r \in P[5] :
               l[r].step = "enumerate" /\ l[r].takes = {} /\ l[r].drops = {} /\ l[r].undo = {"Basic"}
    BY DEF Rung
  <1>7. \A r \in P[6] :
               l[r].step = "name" /\ l[r].takes = {"Ansi"} /\ l[r].drops = {} /\ l[r].undo = {}
    BY DEF Rung
  <1>8. \A r \in P[7] : l[r] = RungDrops("called", {"Ansi"}, {})
    OBVIOUS
  <1>9. \A r \in P[7] :
               l[r].step = "called" /\ l[r].takes = {} /\ l[r].drops = {"Ansi"} /\ l[r].undo = {}
    BY ONLY <1>8 DEF RungDrops
  <1>10. \A r \in P[8] :
               l[r].step = "callback" /\ l[r].takes = {} /\ l[r].drops = {} /\ l[r].undo = {}
    BY DEF Rung
  <1> HIDE DEF P
  <1>11. l[4 * n + 5].step = "done" /\ l[4 * n + 5].takes = {} /\ l[4 * n + 5].drops = {"Basic", "Full"} /\ l[4 * n + 5].undo = {}
    BY DEF Done, RungDrops
  <1>12. Len(l) = 4 * n + 5
    OBVIOUS
  <1>13. \A r \in 1 .. 4 * n + 4 :
           r = 1 \/ r = 2 \/ r = 3 \/ r = 4 \/ r \in P[5] \/ r \in P[6] \/ r \in P[7] \/ r \in P[8]
    <2>1. \A r \in 1 .. 4 * n + 4 : r = 1 \/ r = 2 \/ r = 3 \/ r = 4 \/ r \in 5 .. 4 * n + 4
      OBVIOUS
    <2>2. QED
      BY ONLY <1>1, <2>1
  <1>14. \A r \in 1 .. 4 * n + 5 : l[r].step = "done" <=> r = 4 * n + 5
    <2>1. \A r \in 1 .. 4 * n + 5 : r \in 1 .. 4 * n + 4 \/ r = 4 * n + 5
      OBVIOUS
    <2>2. \A r \in 1 .. 4 * n + 4 : l[r].step # "done"
      BY ONLY <1>2, <1>3, <1>4, <1>5, <1>6, <1>7, <1>9, <1>10, <1>13
    <2>3. \A r \in 1 .. 4 * n + 4 : r # 4 * n + 5
      OBVIOUS
    <2>4. QED
      BY ONLY <2>1, <2>2, <2>3, <1>11
  <1>15. \A r \in 1 .. 4 * n + 4 :
          IF l[r].step = "called"
          THEN l[r].undo = {} /\ l[r].takes = {} /\ l[r].drops = {"Ansi"}
          ELSE l[r].drops = {} /\ "Ansi" \notin l[r].undo
    BY ONLY <1>2, <1>3, <1>4, <1>5, <1>6, <1>7, <1>9, <1>10, <1>13
  <1>16. ASSUME NEW r \in 1 .. 4 * n + 3
         PROVE
          /\ \A x \in l[r + 1].undo : \E q \in 1 .. r : x \in l[q].takes
          /\ IF l[r + 1].step = "called" THEN l[r].takes = {"Ansi"}
             ELSE l[r].takes \subseteq l[r + 1].undo
    <2>1. r = 1 \/ r = 2 \/ r = 3 \/ r = 4 \/ r \in 5 .. 4 * n + 3
      OBVIOUS
    <2>2. CASE r \in 5 .. 4 * n + 3
      <3>1. r \in 5 .. 4 * n + 4 /\ 4 \in 1 .. r /\ r # 4 * n + 4
        BY <2>2
      <3>2. \/ r \in P[5] /\ r + 1 \in P[6]
            \/ r \in P[6] /\ r + 1 \in P[7]
            \/ r \in P[7] /\ r + 1 \in P[8]
            \/ r \in P[8] /\ r + 1 \in P[5]
        BY ONLY <1>1, <3>1
      <3>3. QED
        BY ONLY <3>1, <3>2, <1>5, <1>6, <1>7, <1>9, <1>10
    <2>3. CASE r = 4
      <3>1. 5 \in P[5] /\ 4 \in 1 .. r
        BY <2>3, <1>1
      <3>2. r + 1 = 5
        BY <2>3
      <3>3. QED
        BY ONLY <2>3, <3>1, <3>2, <1>5, <1>6
    <2>4. CASE r = 1 \/ r = 2 \/ r = 3
      BY ONLY <2>4, <1>2, <1>3, <1>4, <1>5
    <2>5. QED
      BY <2>1, <2>2, <2>3, <2>4
  <1>17. \A x : x # "Ansi" /\ (\E r \in 1 .. 4 * n + 4 : x \in l[r].takes)
                 <=> x \in {"Basic", "Full"}
    <2>1. \A r \in 1 .. 4 * n + 4 : l[r].takes \subseteq {"Ansi", "Basic", "Full"}
      BY ONLY <1>2, <1>3, <1>4, <1>5, <1>6, <1>7, <1>9, <1>10, <1>13
    <2>2. 2 \in 1 .. 4 * n + 4 /\ 4 \in 1 .. 4 * n + 4
      OBVIOUS
    <2>3. QED
      BY ONLY <1>3, <1>5, <2>1, <2>2
  <1>18. "Ansi" \notin l[4 * n + 4].takes
    <2>1. CASE n = 0
      <3>1. 4 * n + 4 = 4
        BY <2>1
      <3>2. QED
        BY ONLY <3>1, <1>5
    <2>2. CASE n # 0
      BY ONLY <1>1, <1>10, <2>2
    <2>3. QED
      BY <2>1, <2>2
  <1>19. QED
    <2>1. (4 * n + 4) + 1 = 4 * n + 5 /\ (4 * n + 4) - 1 = 4 * n + 3
      OBVIOUS
    <2>2. \A x : x # "Ansi" /\ (\E r \in 1 .. 4 * n + 4 : x \in l[r].takes)
                 <=> x \in l[4 * n + 5].drops \cup {}
      BY ONLY <1>17, <1>11
    <2>3. \A r \in 1 .. (4 * n + 4) - 1 :
          /\ \A x \in l[r + 1].undo : \E q \in 1 .. r : x \in l[q].takes
          /\ IF l[r + 1].step = "called" THEN l[r].takes = {"Ansi"}
             ELSE l[r].takes \subseteq l[r + 1].undo
      BY <1>16, <2>1
    <2>4. QED
      BY ONLY <1>12, <1>2, <1>11, <1>14, <1>15, <1>18, <2>1, <2>2, <2>3 DEF Orderly

LEMMA EnumerateIsOrderly ==
  ASSUME NEW n \in Nat
  PROVE  Orderly(EnumerateSubKeys(n), 4 * n + 4, {})
  BY EnumerateRungs, RoundsAreOrderly DEF EnumerateSubKeys


Ops == KeyOps \cup ValueOps

Counted(op, n) ==
    /\ n \in Nat
    /\ op = "CreateSubKey" => n # 0
    /\ op = "QuerySzValue" => n <= Len(BufferNames)
    /\ op \in {"QueryKeyName", "QuerySystemStartOption"} => n = 1

LEMMA StepsAreOrderly ==
  ASSUME NEW op \in Ops, NEW n, Counted(op, n)
  PROVE  \E m \in Nat \ {0} : Orderly(Steps(op, n), m, GivenBack(op, n))
  <1>1. CASE op = "CreateKey"
    <2>1. Steps(op, n) = CreateKey(n) /\ GivenBack(op, n) = {"Key"}
      BY <1>1 DEF Steps, GivenBack
    <2>2. n + 3 \in Nat \ {0}
      BY DEF Counted
    <2>3. QED
      BY <2>1, <2>2, CreateKeyIsOrderly DEF Counted
  <1>2. CASE op = "CreateSubKey"
    <2>1. Steps(op, n) = CreateSubKey(n) /\ GivenBack(op, n) = {"Key"}
      BY <1>2 DEF Steps, GivenBack
    <2>2. n + 3 \in Nat \ {0} /\ n \in Nat \ {0}
      BY <1>2 DEF Counted
    <2>3. QED
      BY <2>1, <2>2, CreateSubKeyIsOrderly
  <1>3. CASE op \in {"EnumerateSubKeys", "EnumerateValues"}
    <2>1. Steps(op, n) = EnumerateSubKeys(n) /\ GivenBack(op, n) = {}
      BY <1>3 DEF Steps, GivenBack, EnumerateSubKeys, EnumerateValues
    <2>2. 4 * n + 4 \in Nat \ {0}
      BY DEF Counted
    <2>3. QED
      BY <2>1, <2>2, EnumerateIsOrderly DEF Counted
  <1>4. CASE op = "QuerySzValue"
    <2>1. /\ Steps(op, n) = QuerySzValue(n)
          /\ GivenBack(op, n) = {"Array"} \cup {Buffer(i) : i \in 1 .. n}
      BY <1>4 DEF Steps, GivenBack
    <2>2. n + 6 \in Nat \ {0} /\ n \in 0 .. Len(BufferNames)
      BY <1>4, RegistryAssumption DEF Counted
    <2>3. QED
      BY <2>1, <2>2, QuerySzValueIsOrderly
  <1>5. CASE op \in {"QueryKeyName", "QuerySystemStartOption"}
    <2>1. n = 1
      BY <1>5 DEF Counted
    <2>2. {Buffer(i) : i \in 1 .. n} = {Buffer(1)}
      BY <2>1
    <2>3. /\ Steps(op, n) = IF op = "QueryKeyName" THEN QueryKeyName ELSE QuerySystemStartOption
          /\ GivenBack(op, n) = {"Array", Buffer(1)}
      BY <1>5, <2>2 DEF Steps, GivenBack
    <2>4. QED
      BY <1>5, <2>3, OneStringIsOrderly
  <1>6. CASE op = "OpenHardwareKey"
    <2>1. Steps(op, n) = OpenHardwareKey /\ GivenBack(op, n) = {"Key"}
      BY <1>6 DEF Steps, GivenBack
    <2>2. QED
      BY <2>1, OpenHardwareKeyIsOrderly
  <1>7. CASE op \in {"OpenKey", "OpenSoftwareKey", "OpenSubKey"}
    <2>1. /\ Steps(op, n) = CASE op = "OpenKey" -> OpenKey [] op = "OpenSoftwareKey" -> OpenSoftwareKey
                              [] OTHER -> OpenSubKey
          /\ GivenBack(op, n) = {"Key"}
      BY <1>7 DEF Steps, GivenBack
    <2>2. QED
      BY <1>7, <2>1, FixedAreOrderly
  <1>8. CASE op \in {"DeleteSubKey", "DeleteValue", "QueryDwordValue", "UpdateDwordValue"}
    <2>1. /\ Steps(op, n) = CASE op = "DeleteSubKey" -> DeleteSubKey [] op = "DeleteValue" -> DeleteValue
                              [] op = "QueryDwordValue" -> QueryDwordValue [] OTHER -> UpdateDwordValue
          /\ GivenBack(op, n) = {}
      BY <1>8 DEF Steps, GivenBack
    <2>2. QED
      BY <1>8, <2>1, FixedAreOrderly
  <1>9. CASE op \in {"QueryBinaryValue", "UpdateBinaryValue", "UpdateSzValue"}
    <2>1. /\ Steps(op, n) = CASE op = "QueryBinaryValue" -> QueryBinaryValue
                              [] op = "UpdateBinaryValue" -> UpdateBinaryValue [] OTHER -> UpdateSzValue
          /\ GivenBack(op, n) = IF op = "QueryBinaryValue" THEN {"Data"} ELSE {}
      BY <1>9 DEF Steps, GivenBack
    <2>2. QED
      BY <1>9, <2>1, FixedAreOrderly
  <1>10. QED
    BY <1>1, <1>2, <1>3, <1>4, <1>5, <1>6, <1>7, <1>8, <1>9 DEF Ops, KeyOps, ValueOps

LEMMA LadderIsTidy ==
  ASSUME NEW op \in Ops, NEW n, Counted(op, n)
  PROVE  Tidy(Steps(op, n), GivenBack(op, n)) /\ Len(Steps(op, n)) \in Nat \ {0}
  <1>1. PICK m \in Nat \ {0} : Orderly(Steps(op, n), m, GivenBack(op, n))
    BY StepsAreOrderly
  <1>2. Len(Steps(op, n)) = m + 1
    BY <1>1 DEF Orderly
  <1>3. QED
    BY <1>1, <1>2, OrderlyIsTidy

\* Which helpers have which rungs.
LEMMA WhereSteps ==
  ASSUME NEW op \in Ops, NEW n, Counted(op, n), NEW r \in 1 .. Len(Steps(op, n)),
         NEW step, step = Steps(op, n)[r].step
  PROVE  /\ step = "isString" => op = "QuerySzValue"
         /\ step = "set" => op \in {"UpdateDwordValue", "UpdateBinaryValue", "UpdateSzValue"}
         /\ op \in ValueOps /\ step = "query"
               => op \in {"QueryDwordValue", "QueryBinaryValue", "QuerySzValue"}
         /\ op = "QuerySzValue" => (step = "isString" <=> r = 5) /\ (step = "query" <=> r = 4)
  <1>1. CASE op = "CreateKey"
    <2>1. Steps(op, n) = CreateKey(n) /\ n \in Nat
      BY <1>1 DEF Steps, Counted
    <2>2. r = 1 \/ r = 2 \/ r = 3 \/ r = n + 4 \/ (r - 3 \in 1 .. n /\ r = (r - 3) + 3)
      BY <2>1, CreateKeyRungs
    <2>3. Steps(op, n)[r] \in {Rung("copy", {"Buffer"}, {}), Rung("root", {"Key"}, {"Buffer"}),
                               Rung("name", {}, {"Key"}), Rung("child", {}, {}), Done({"Buffer"})}
      BY <2>1, <2>2, CreateKeyRungs
    <2>4. step \in {"copy", "root", "name", "child", "done"}
      BY <2>3 DEF Rung, Done, RungDrops
    <2>5. QED
      BY <1>1, <2>4 DEF ValueOps
  <1>2. CASE op = "CreateSubKey"
    <2>1. Steps(op, n) = CreateSubKey(n) /\ n \in Nat \ {0}
      BY <1>2 DEF Steps, Counted
    <2>2. r = 1 \/ r = 2 \/ r = 3 \/ r = 4 \/ r = n + 4 \/ r \in 5 .. n + 3
      BY <2>1, CreateSubKeyRungs
    <2>3. Steps(op, n)[r] \in {Rung("unicode", {"Unicode"}, {}), Rung("copy", {"Buffer"}, {"Unicode"}),
                               Rung("name", {}, {"Buffer"}), Rung("child", {"Key"}, {}),
                               Rung("child", {}, {"Key"}), Done({"Buffer", "Unicode"})}
      BY <2>1, <2>2, CreateSubKeyRungs
    <2>4. step \in {"unicode", "copy", "name", "child", "done"}
      BY <2>3 DEF Rung, Done, RungDrops
    <2>5. QED
      BY <1>2, <2>4 DEF ValueOps
  <1>3. CASE op \in {"EnumerateSubKeys", "EnumerateValues"}
    <2> DEFINE l == EnumerateSubKeys(n)
    <2>1. Steps(op, n) = l /\ n \in Nat
      BY <1>3 DEF Steps, EnumerateSubKeys, EnumerateValues, Counted
    <2>2. /\ Len(l) = 4 * n + 5
          /\ l[1] = Rung("size", {}, {})
          /\ l[2] = Rung("block", {"Full"}, {})
          /\ l[3] = Rung("query", {}, {"Full"})
          /\ l[4] = Rung("basic", {"Basic"}, {})
          /\ \A k \in 0 .. n - 1 :
                /\ l[4 * k + 5] = Rung("enumerate", {}, {"Basic"})
                /\ l[4 * k + 6] = Rung("name", {"Ansi"}, {})
                /\ l[4 * k + 7] = RungDrops("called", {"Ansi"}, {})
                /\ l[4 * k + 8] = Rung("callback", {}, {})
          /\ l[4 * n + 5] = Done({"Basic", "Full"})
      BY <2>1, EnumerateRungs DEF EnumerateSubKeys
    <2> HIDE DEF l
    <2>3. r = 1 \/ r = 2 \/ r = 3 \/ r = 4 \/ r = 4 * n + 5 \/ r \in 5 .. 4 * n + 4
      BY <2>1, <2>2
    <2>4. CASE r \in 5 .. 4 * n + 4
      <3>1. (r - 5) \div 4 \in 0 .. n - 1 /\ (r - 5) % 4 \in 0 .. 3
            /\ r - 5 = 4 * ((r - 5) \div 4) + ((r - 5) % 4)
        BY <2>1, <2>4
      <3>2. PICK k \in 0 .. n - 1, d \in 0 .. 3 : r - 5 = 4 * k + d
        BY <3>1
      <3>3. r = 4 * k + 5 \/ r = 4 * k + 6 \/ r = 4 * k + 7 \/ r = 4 * k + 8
        BY <3>2, <2>4, <2>1
      <3>4. l[r] \in {Rung("enumerate", {}, {"Basic"}), Rung("name", {"Ansi"}, {}),
                      RungDrops("called", {"Ansi"}, {}), Rung("callback", {}, {})}
        BY <2>2, <3>3
      <3>5. l[r].step \in {"enumerate", "name", "called", "callback"}
        BY <3>4 DEF Rung, RungDrops
      <3>6. QED
        BY <2>1, <3>5, <1>3 DEF ValueOps
    <2>5. CASE r # 3 /\ r \notin 5 .. 4 * n + 4
      <3>1. l[r].step \in {"size", "block", "basic", "done"}
        BY <2>5, <2>2, <2>3 DEF Rung, Done, RungDrops
      <3>2. QED
        BY <2>1, <3>1, <1>3 DEF ValueOps
    <2>6. CASE r = 3
      <3>1. l[r].step = "query"
        BY <2>6, <2>2 DEF Rung
      <3>2. QED
        BY <2>1, <3>1, <1>3 DEF ValueOps
    <2>7. QED
      BY <2>4, <2>5, <2>6
  <1>4. CASE op = "QuerySzValue"
    <2> DEFINE l == QuerySzValue(n)
    <2>1. Steps(op, n) = l /\ n \in Nat
      BY <1>4 DEF Steps, Counted
    <2>2. /\ Len(l) = n + 7
          /\ l[1] = Rung("unicode", {"Unicode"}, {})
          /\ l[2] = Rung("size", {}, {"Unicode"})
          /\ l[3] = Rung("block", {"Value"}, {})
          /\ l[4] = Rung("query", {}, {"Value"})
          /\ l[5] = Rung("isString", {}, {})
          /\ l[6] = Rung("array", {"Array"}, {})
          /\ \A i \in 7 .. n + 6 : l[i] = Rung("buffer", {Buffer(i - 6)},
                                             IF i = 7 THEN {"Array"} ELSE {Buffer(i - 7)})
          /\ l[n + 7] = Done({"Value", "Unicode"})
      BY <2>1, QuerySzValueRungs
    <2> HIDE DEF l
    <2>3. r = 1 \/ r = 2 \/ r = 3 \/ r = 4 \/ r = 5 \/ r = 6 \/ r \in 7 .. n + 6 \/ r = n + 7
      BY <2>1, <2>2
    <2>4. ASSUME NEW i \in 7 .. n + 6 PROVE l[i].step = "buffer"
      <3>1. l[i] = Rung("buffer", {Buffer(i - 6)}, IF i = 7 THEN {"Array"} ELSE {Buffer(i - 7)})
        BY <2>2
      <3>2. QED
        BY ONLY <3>1 DEF Rung
    <2>5. /\ l[1].step = "unicode" /\ l[2].step = "size" /\ l[3].step = "block"
          /\ l[4].step = "query" /\ l[5].step = "isString" /\ l[6].step = "array"
          /\ l[n + 7].step = "done"
      BY <2>2 DEF Rung, Done, RungDrops
    <2>6. /\ step = "isString" <=> r = 5
          /\ step = "query" <=> r = 4
          /\ step # "set"
      BY <2>1, <2>3, <2>4, <2>5
    <2>7. QED
      BY <1>4, <2>6
  <1>5. CASE op \in {"QueryKeyName", "QuerySystemStartOption"}
    <2>1. Steps(op, n) = IF op = "QueryKeyName" THEN QueryKeyName ELSE QuerySystemStartOption
      BY <1>5 DEF Steps
    <2>2. step \in {"size", "block", "query", "array", "buffer", "done", "open", "options", "scan"}
      BY SMTT(30), <1>5, <2>1 DEF QueryKeyName, QuerySystemStartOption, TwoQueries, ArrayOf,
         Buffers, Rung, Done, RungDrops
    <2>3. QED
      BY <1>5, <2>2 DEF ValueOps
  <1>6. CASE op = "OpenHardwareKey"
    <2>1. Steps(op, n) = OpenHardwareKey
      BY <1>6 DEF Steps
    <2>2. step \in {"device", "size", "block", "query", "open", "done"}
      BY SMTT(30), <2>1 DEF OpenHardwareKey, TwoQueries, Rung, Done, RungDrops
    <2>3. QED
      BY <1>6, <2>2 DEF ValueOps
  <1>7. CASE op \in {"OpenKey", "OpenSoftwareKey", "OpenSubKey", "DeleteSubKey", "DeleteValue"}
    <2>1. Steps(op, n) \in {OpenKey, OpenSoftwareKey, OpenSubKey, DeleteSubKey, DeleteValue}
      BY <1>7 DEF Steps
    <2>2. step \in {"open", "delete", "deleteValue", "unicode", "done"}
      BY SMTT(30), <2>1 DEF OpenKey, OpenSoftwareKey, OpenSubKey, DeleteSubKey, DeleteValue,
         Unicode, Rung, Done, RungDrops
    <2>3. QED
      BY <1>7, <2>2
  <1>8. CASE op \in {"UpdateDwordValue", "UpdateBinaryValue", "UpdateSzValue"}
    <2>1. Steps(op, n) \in {UpdateDwordValue, UpdateBinaryValue, UpdateSzValue}
      BY <1>8 DEF Steps
    <2>2. step \in {"unicode", "partial", "convert", "set", "done"}
      BY SMTT(30), <2>1 DEF UpdateDwordValue, UpdateBinaryValue, UpdateSzValue,
         Unicode, Rung, Done, RungDrops
    <2>3. QED
      BY <1>8, <2>2
  <1>9. CASE op \in {"QueryDwordValue", "QueryBinaryValue"}
    <2>1. Steps(op, n) = QueryDwordValue \/ Steps(op, n) = QueryBinaryValue
      BY <1>9 DEF Steps
    <2>2. CASE Steps(op, n) = QueryDwordValue
      BY SMTT(30), <1>9, <2>2 DEF QueryDwordValue, TwoQueries, Unicode, Rung, Done, RungDrops
    <2>3. CASE Steps(op, n) = QueryBinaryValue
      BY SMTT(30), <1>9, <2>3 DEF QueryBinaryValue, TwoQueries, Unicode, Rung, Done, RungDrops
    <2>4. QED
      BY <2>1, <2>2, <2>3
  <1>10. QED
    BY <1>1, <1>2, <1>3, <1>4, <1>5, <1>6, <1>7, <1>8, <1>9 DEF Ops, KeyOps, ValueOps


-----------------------------------------------------------------------------
(* Arrays of strings                                                       *)

LEMMA LeastExists ==
  ASSUME NEW S \in SUBSET Nat, S # {}
  PROVE  \E i \in S : \A j \in S : i <= j
  <1> DEFINE R == StrictSubsetOrdering(Nat)
             F == FiniteSubsetsOf(Nat)
             T == {0 .. m : m \in S}
  <1>1. IsWellFoundedOn(R, F)
    BY FS_StrictSubsetOrderingWellFounded, Zenon
  <1>2. T \subseteq F /\ T # {}
    <2>1. \A m \in Nat : IsFiniteSet(0 .. m) /\ 0 .. m \subseteq Nat
      BY FS_Interval
    <2>2. QED
      BY <2>1 DEF FiniteSubsetsOf
  <1>3. \E x \in T : \A y \in T : ~(<<y, x>> \in R)
    <2> HIDE DEF R, F, T
    <2> QED BY <1>1, <1>2, WFMin, Zenon
  <1>4. PICK m \in S : \A n \in S : <<0 .. n, 0 .. m>> \notin R
    BY <1>3
  <1>5. ASSUME NEW j \in S, ~(m <= j) PROVE FALSE
    <2>1. 0 .. j \subseteq 0 .. m /\ m \in 0 .. m /\ m \notin 0 .. j
      BY <1>5
    <2>2. 0 .. j # 0 .. m
      BY <2>1, Zenon
    <2>3. 0 .. j \in SUBSET Nat /\ 0 .. m \in SUBSET Nat
      OBVIOUS
    <2>4. <<0 .. j, 0 .. m>> \in R
      BY <2>1, <2>2, <2>3 DEF StrictSubsetOrdering
    <2>5. QED
      BY <1>4, <2>4
  <1>6. QED
    BY <1>5

LEMMA ReadsMultiSz ==
  ASSUME NEW array \in Arrays
  PROVE  /\ Len(ToAnsi(MultiSz(array))) \in 0 .. Len(BufferNames)
         /\ (\A i \in 1 .. Len(array) : array[i] # "empty") => ToAnsi(MultiSz(array)) = array
  <1>1. array \in Seq(Strings) /\ Len(array) \in 1 .. Len(BufferNames) /\ Len(BufferNames) \in Nat
    BY RegistryAssumption
  <1> DEFINE data == Append(array, "empty")
             ends == {i \in 1 .. Len(data) : data[i] = "empty"}
             end == CHOOSE i \in ends : \A j \in ends : i <= j
  <1>2. /\ Len(data) = Len(array) + 1 /\ data[Len(array) + 1] = "empty"
        /\ \A i \in 1 .. Len(array) : data[i] = array[i]
        /\ Len(array) \in Nat
    BY <1>1
  <1>3. ends \in SUBSET Nat /\ Len(array) + 1 \in ends
    BY <1>2
  <1>4. end \in ends /\ \A j \in ends : end <= j
    <2>1. \E i \in ends : \A j \in ends : i <= j
      BY <1>3, LeastExists
    <2> HIDE DEF ends
    <2>2. QED
      BY <2>1
  <1>5. ToAnsi(MultiSz(array)) = SubSeq(data, 1, end - 1)
    <2>1. MultiSz(array).type # "SZ" /\ MultiSz(array).strings = data
      BY DEF MultiSz
    <2>2. ends # {}
      BY <1>3
    <2>3. ToAnsi(MultiSz(array)) = UpToEmpty(data)
      BY <2>1 DEF ToAnsi
    <2>4. QED
      BY <2>2, <2>3 DEF UpToEmpty
  <1>6. end \in 1 .. Len(array) + 1
    BY <1>2, <1>4
  <1> HIDE DEF end
  <1>7. Len(ToAnsi(MultiSz(array))) = end - 1
    <2>1. data \in Seq(Strings \cup {"empty"})
      BY <1>1
    <2>2. QED
      BY <1>2, <1>5, <1>6, <2>1
  <1>8. ASSUME \A i \in 1 .. Len(array) : array[i] # "empty"
        PROVE  ToAnsi(MultiSz(array)) = array
    <2>1. end = Len(array) + 1
      BY <1>2, <1>4, <1>6, <1>8
    <2>2. SubSeq(data, 1, Len(array)) = array
      BY <1>1
    <2>3. QED
      BY <1>2, <1>5, <2>1, <2>2
  <1>9. QED
    BY <1>1, <1>6, <1>7, <1>8

LEMMA ReadsSz ==
  ASSUME NEW array \in Arrays
  PROVE  Sz(array).type = "SZ" /\ ToAnsi(Sz(array)) = <<Head(array)>>
  BY DEF Sz, ToAnsi

-----------------------------------------------------------------------------

Readable(v) ==
    v.type \in {"SZ", "MULTI_SZ"} => Len(ToAnsi(v)) \in 0 .. Len(BufferNames)

MadeFrom(v, array) ==
    array # <<>> => array \in Arrays /\ v \in {Sz(array), MultiSz(array)}

LEMMA WhatIsWritten ==
  ASSUME NEW array \in Arrays, NEW type \in {"SZ", "MULTI_SZ"}
  PROVE  Readable(FromAnsi(type, array)) /\ MadeFrom(FromAnsi(type, array), array)
  <1>1. Readable(MultiSz(array))
    BY ReadsMultiSz DEF Readable
  <1>2. Readable(Sz(array))
    <2>1. Len(ToAnsi(Sz(array))) = 1 /\ 1 \in 0 .. Len(BufferNames)
      BY ReadsSz, RegistryAssumption
    <2>2. QED
      BY <2>1 DEF Readable
  <1>3. QED
    BY <1>1, <1>2 DEF FromAnsi, MadeFrom

LEMMA OthersAreReadable ==
  /\ \A v \in Values \cup {Absent, Dword, Binary(4)} : Readable(v)
  /\ \A v : MadeFrom(v, <<>>)
  <1>1. ASSUME NEW v \in Values PROVE Readable(v)
    <2>1. CASE v.type = "SZ"
      <3>1. Len(ToAnsi(v)) = 1 /\ 1 \in 0 .. Len(BufferNames)
        BY <2>1, RegistryAssumption DEF ToAnsi
      <3>2. QED
        BY <3>1 DEF Readable
    <2>2. CASE v.type # "SZ"
      BY <2>2, RegistryAssumption DEF Readable
    <2>3. QED
      BY <2>1, <2>2
  <1>2. QED
    BY <1>1 DEF Readable, MadeFrom, Absent, Dword, Binary

-----------------------------------------------------------------------------

Whole(c) == c = [op |-> c.op, rung |-> c.rung, count |-> c.count, size |-> c.size,
                 read |-> c.read, type |-> c.type, array |-> c.array]

\* A call holds what Holds says of the rung it has come to.
Placed(c, held) ==
    IF c.op = "none" THEN held = {}
    ELSE /\ Counted(c.op, c.count)
         /\ c.rung \in 1 .. Len(Steps(c.op, c.count)) + 1
         /\ held = Holds(Steps(c.op, c.count), GivenBack(c.op, c.count), c.rung)

\* And what it knows of the value.
Informed(c) ==
    /\ c.op = "UpdateSzValue" => c.type \in {"SZ", "MULTI_SZ"} /\ c.array \in Arrays
    /\ c.op \in {"UpdateDwordValue", "UpdateBinaryValue"} => c.array = <<>>
    /\ c.op = "QuerySzValue" =>
          /\ c.rung <= 5 => c.count = 0
          /\ c.rung >= 5 => /\ Readable(c.read) /\ MadeFrom(c.read, c.array)
                            /\ c.type = c.read.type
          /\ c.rung >= 6 => /\ c.type \in {"SZ", "MULTI_SZ"}
                            /\ c.count = Len(ToAnsi(c.read))

RegistryInvariant ==
    /\ Whole(call) /\ call.op \in Ops \cup {"none"}
    /\ Placed(call, blocks)
    /\ Informed(call)
    /\ Readable(value) /\ MadeFrom(value, written)

LEMMA NoneIsNoOp == "none" \notin Ops
  BY DEF Ops, KeyOps, ValueOps

LEMMA RegistryStarts == RegistryInit => RegistryInvariant
  BY OthersAreReadable DEF RegistryInit, RegistryInvariant, Whole, Idle, Placed, Informed

LEMMA BlocksWhileClimbing ==
  ASSUME RegistryInvariant, Standing
  PROVE  /\ call.op \in Ops /\ Counted(call.op, call.count)
         /\ call.rung \in 1 .. Len(Ladder) /\ Len(Ladder) \in Nat
         /\ blocks = Holds(Ladder, GivenBack(call.op, call.count), call.rung)
         /\ Climbed(Ladder, call.rung, blocks)
               = Holds(Ladder, GivenBack(call.op, call.count), call.rung + 1)
         /\ Unwound(Ladder, call.rung) \subseteq blocks
  <1>1. call.op \in Ops /\ Counted(call.op, call.count)
    BY DEF RegistryInvariant, Placed, Standing
  <1>2. Tidy(Ladder, GivenBack(call.op, call.count)) /\ Len(Ladder) \in Nat \ {0}
    BY <1>1, LadderIsTidy DEF Ladder
  <1>3. /\ call.rung \in 1 .. Len(Ladder)
        /\ blocks = Holds(Ladder, GivenBack(call.op, call.count), call.rung)
    BY <1>2 DEF RegistryInvariant, Placed, Standing, Ladder
  <1>4. QED
    BY <1>1, <1>2, <1>3 DEF Tidy

LEMMA BlocksWhenReturned ==
  ASSUME RegistryInvariant, call.op # "none", ~Standing
  PROVE  /\ call.op \in Ops /\ Counted(call.op, call.count)
         /\ call.rung = Len(Ladder) + 1 /\ Len(Ladder) \in Nat
         /\ blocks = GivenBack(call.op, call.count)
  <1>1. call.op \in Ops /\ Counted(call.op, call.count)
    BY DEF RegistryInvariant, Placed
  <1>2. Len(Ladder) \in Nat \ {0}
    BY <1>1, LadderIsTidy DEF Ladder
  <1>3. /\ call.rung \in 1 .. Len(Ladder) + 1
        /\ blocks = Holds(Ladder, GivenBack(call.op, call.count), call.rung)
    BY DEF RegistryInvariant, Placed, Ladder
  <1>4. call.rung = Len(Ladder) + 1
    BY <1>2, <1>3 DEF Standing
  <1>5. QED
    BY <1>1, <1>2, <1>3, <1>4 DEF Holds

LEMMA NothingLeaksOfInvariant == RegistryInvariant => NothingLeaks
  <1>1. ASSUME RegistryInvariant, Standing PROVE Unwound(Ladder, call.rung) \subseteq blocks
    BY <1>1, BlocksWhileClimbing
  <1>2. QED
    BY <1>1 DEF NothingLeaks, RegistryInvariant, Placed

\* The step of a helper that climbs without changing what it works on.
LEMMA Climbs ==
  ASSUME RegistryInvariant, Standing, Climb, NEW c,
         c.op = call.op, c.count = call.count, c.rung = call.rung + 1
  PROVE  Placed(c, blocks')
  <1>1. c.op # "none" /\ Steps(c.op, c.count) = Ladder
    BY DEF Standing, Ladder
  <1>2. call.rung + 1 \in 1 .. Len(Ladder) + 1
    BY BlocksWhileClimbing
  <1>3. blocks' = Holds(Ladder, GivenBack(c.op, c.count), c.rung)
    BY BlocksWhileClimbing DEF Climb
  <1>4. QED
    BY <1>1, <1>2, <1>3, BlocksWhileClimbing DEF Placed

LEMMA CallsKeepInvariant ==
  ASSUME RegistryInvariant,
         (\E op \in KeyOps : CallKeyOp(op)) \/ (\E op \in ValueOps : CallValueOp(op))
  PROVE  RegistryInvariant'
  <1>1. ASSUME NEW op \in KeyOps, CallKeyOp(op) PROVE RegistryInvariant'
    <2>1. PICK n \in CASE op \in {"EnumerateSubKeys", "EnumerateValues"} -> 0 .. MaxCount
                 [] op \in {"CreateKey", "CreateSubKey"} -> 1 .. MaxCount
                 [] OTHER -> {1} :
            call' = [Idle EXCEPT !.op = op, !.rung = 1, !.count = n]
      BY <1>1 DEF CallKeyOp
    <2>2. call' = [op |-> op, rung |-> 1, count |-> n, size |-> 0,
                   read |-> Absent, type |-> "none", array |-> <<>>]
      BY <2>1 DEF Idle
    <2>3. Counted(op, n) /\ op \in Ops /\ op \notin ValueOps
      BY <2>1, RegistryAssumption DEF Counted, Ops, KeyOps, ValueOps
    <2>4. blocks' = {} /\ UNCHANGED <<value, written>>
      BY <1>1 DEF CallKeyOp, RegistryInvariant, Placed
    <2>5. Placed(call', blocks')
      <3>1. Tidy(Steps(op, n), GivenBack(op, n)) /\ Len(Steps(op, n)) \in Nat \ {0}
        BY <2>3, LadderIsTidy
      <3>2. Holds(Steps(op, n), GivenBack(op, n), 1) = {}
        BY <3>1 DEF Tidy
      <3>3. QED
        BY <2>2, <2>3, <2>4, <3>1, <3>2, NoneIsNoOp DEF Placed
    <2>6. Informed(call')
      BY <2>2, <2>3 DEF Informed, ValueOps
    <2>7. QED
      BY <2>2, <2>3, <2>4, <2>5, <2>6 DEF RegistryInvariant, Whole
  <1>2. ASSUME NEW op \in ValueOps, CallValueOp(op) PROVE RegistryInvariant'
    <2>1. PICK type, array :
             /\ call' = [op |-> op, rung |-> 1, count |-> 0, size |-> 0,
                         read |-> Absent, type |-> type, array |-> array]
             /\ op = "UpdateSzValue" => type \in {"SZ", "MULTI_SZ"} /\ array \in Arrays
             /\ op # "UpdateSzValue" => array = <<>>
      <3>1. CASE op = "UpdateSzValue"
        <4>1. PICK type \in {"SZ", "MULTI_SZ"}, array \in Arrays :
                call' = [Idle EXCEPT !.op = op, !.rung = 1, !.type = type, !.array = array]
          BY <1>2, <3>1 DEF CallValueOp
        <4>2. call' = [op |-> op, rung |-> 1, count |-> 0, size |-> 0,
                       read |-> Absent, type |-> type, array |-> array]
          BY <4>1 DEF Idle
        <4>3. QED
          BY <3>1, <4>2
      <3>2. CASE op # "UpdateSzValue"
        <4>1. call' = [Idle EXCEPT !.op = op, !.rung = 1]
          BY <1>2, <3>2 DEF CallValueOp
        <4>2. call' = [op |-> op, rung |-> 1, count |-> 0, size |-> 0,
                       read |-> Absent, type |-> "none", array |-> <<>>]
          BY <4>1 DEF Idle
        <4>3. QED
          BY <3>2, <4>2
      <3>3. QED
        BY <3>1, <3>2
    <2>2. Counted(op, 0) /\ op \in Ops
      BY RegistryAssumption DEF Counted, Ops, KeyOps, ValueOps
    <2>3. blocks' = {} /\ UNCHANGED <<value, written>>
      BY <1>2 DEF CallValueOp, RegistryInvariant, Placed
    <2>4. Placed(call', blocks')
      <3>1. Tidy(Steps(op, 0), GivenBack(op, 0)) /\ Len(Steps(op, 0)) \in Nat \ {0}
        BY <2>2, LadderIsTidy
      <3>2. Holds(Steps(op, 0), GivenBack(op, 0), 1) = {}
        BY <3>1 DEF Tidy
      <3>3. QED
        BY <2>1, <2>2, <2>3, <3>1, <3>2, NoneIsNoOp DEF Placed
    <2>5. Informed(call')
      <3>1. /\ call'.op = op /\ call'.rung = 1 /\ call'.count = 0
            /\ call'.type = type /\ call'.array = array
        BY <2>1
      <3>2. QED
        BY ONLY <2>1, <3>1 DEF Informed
    <2>6. QED
      BY <2>1, <2>2, <2>3, <2>4, <2>5 DEF RegistryInvariant, Whole
  <1>3. QED
    BY <1>1, <1>2

\* What a step of the ladder keeps of the call.
LEMMA StandsOn ==
  ASSUME RegistryInvariant, Standing
  PROVE  /\ call.op \in Ops /\ call.op # "none" /\ Whole(call)
         /\ call.rung \in Nat \ {0}
         /\ Step = "isString" => call.op = "QuerySzValue"
         /\ Step = "set" => call.op \in {"UpdateDwordValue", "UpdateBinaryValue", "UpdateSzValue"}
         /\ OnValue /\ Step = "query"
               => call.op \in {"QueryDwordValue", "QueryBinaryValue", "QuerySzValue"}
         /\ call.op = "QuerySzValue" => /\ Step = "isString" <=> call.rung = 5
                                        /\ Step = "query" <=> call.rung = 4
  <1>1. /\ call.op \in Ops /\ Counted(call.op, call.count) /\ call.rung \in 1 .. Len(Ladder)
        /\ Len(Ladder) \in Nat
    BY BlocksWhileClimbing
  <1>2. Step = Steps(call.op, call.count)[call.rung].step /\ Ladder = Steps(call.op, call.count)
    BY DEF Step, Ladder
  <1>3. QED
    BY <1>1, <1>2, WhereSteps, NoneIsNoOp DEF OnValue, RegistryInvariant

LEMMA QuerySizeKeepsInvariant ==
  ASSUME RegistryInvariant, QuerySize PROVE RegistryInvariant'
  <1>1. Standing /\ Climb /\ Step = "size" /\ UNCHANGED <<value, written>>
    BY DEF QuerySize
  <1>2. call' = [op |-> call.op, rung |-> call.rung + 1, count |-> call.count,
                 size |-> value.bytes,
                 read |-> call.read, type |-> call.type, array |-> call.array]
    BY <1>1, StandsOn DEF QuerySize, Goes, Whole
  <1>3. Placed(call', blocks')
    BY <1>1, <1>2, Climbs
  <1>4. call.op = "QuerySzValue" => call.rung # 4 /\ call.rung # 5
    BY <1>1, StandsOn
  <1>5. Informed(call')
    BY <1>1, <1>2, <1>4, StandsOn DEF Informed, RegistryInvariant
  <1>6. QED
    BY <1>1, <1>2, <1>3, <1>5, StandsOn DEF RegistryInvariant, Whole

LEMMA QueryDataKeepsInvariant ==
  ASSUME RegistryInvariant, QueryData PROVE RegistryInvariant'
  <1>1. Standing /\ Climb /\ Step = "query" /\ OnValue /\ UNCHANGED <<value, written>>
    BY DEF QueryData
  <1>2. call' = [op |-> call.op, rung |-> call.rung + 1, count |-> call.count,
                 size |-> call.size,
                 read |-> value, type |-> value.type, array |-> written]
    BY <1>1, StandsOn DEF QueryData, Goes, Whole
  <1>3. Placed(call', blocks')
    BY <1>1, <1>2, Climbs
  <1>4. /\ call.op = "QuerySzValue" => call.rung = 4
        /\ call.op \in {"QueryDwordValue", "QueryBinaryValue", "QuerySzValue"}
    BY <1>1, StandsOn
  <1>5. Informed(call')
    BY <1>1, <1>2, <1>4, StandsOn DEF Informed, RegistryInvariant
  <1>6. QED
    BY <1>1, <1>2, <1>3, <1>5, StandsOn DEF RegistryInvariant, Whole

LEMMA SameRungs ==
  ASSUME NEW n \in Nat
  PROVE  Holds(QuerySzValue(0), {"Array"}, 6)
           = Holds(QuerySzValue(n), {"Array"} \cup {Buffer(i) : i \in 1 .. n}, 6)
  <1>1. \A m \in Nat : \A given : Holds(QuerySzValue(m), given, 6) = {"Unicode", "Value"}
    <2> TAKE m \in Nat
    <2> TAKE given
    <2> DEFINE l == QuerySzValue(m)
    <2>1. /\ Len(l) = m + 7
          /\ l[1] = Rung("unicode", {"Unicode"}, {})
          /\ l[2] = Rung("size", {}, {"Unicode"})
          /\ l[3] = Rung("block", {"Value"}, {})
          /\ l[4] = Rung("query", {}, {"Value"})
          /\ l[5] = Rung("isString", {}, {})
          /\ l[6] = Rung("array", {"Array"}, {})
      BY QuerySzValueRungs
    <2> HIDE DEF l
    <2>2. l[6].step = "array" /\ Len(l) = m + 7
      BY <2>1 DEF Rung
    <2>3. Holds(l, given, 6) = Unwound(l, 6)
      BY <2>2 DEF Holds
    <2>4. /\ l[1].undo = {} /\ l[2].undo = {"Unicode"} /\ l[3].undo = {}
          /\ l[4].undo = {"Value"} /\ l[5].undo = {} /\ l[6].undo = {}
      BY <2>1 DEF Rung
    <2>5. Unwound(l, 6) = {"Unicode", "Value"}
      <3>1. \A i \in 1 .. 6 : i = 1 \/ i = 2 \/ i = 3 \/ i = 4 \/ i = 5 \/ i = 6
        OBVIOUS
      <3>2. 2 \in 1 .. 6 /\ 4 \in 1 .. 6
        OBVIOUS
      <3>3. QED
        BY ONLY <2>4, <3>1, <3>2 DEF Unwound
    <2>6. QED
      BY <2>3, <2>5 DEF l
  <1>2. Holds(QuerySzValue(0), {"Array"}, 6) = {"Unicode", "Value"}
    BY <1>1
  <1>3. Holds(QuerySzValue(n), {"Array"} \cup {Buffer(i) : i \in 1 .. n}, 6)
          = {"Unicode", "Value"}
    BY <1>1
  <1>4. QED
    BY <1>2, <1>3

LEMMA TestKeepsInvariant ==
  ASSUME RegistryInvariant, Test PROVE RegistryInvariant'
  <1>1. Standing /\ Climb /\ Step \in TestSteps /\ Passes /\ UNCHANGED <<value, written>>
    BY DEF Test
  <1>2. CASE Step # "isString"
    <2>1. call' = [op |-> call.op, rung |-> call.rung + 1, count |-> call.count,
                   size |-> call.size,
                   read |-> call.read, type |-> call.type, array |-> call.array]
      BY <1>1, <1>2, StandsOn DEF Test, Goes, Whole
    <2>2. Placed(call', blocks')
      BY <1>1, <2>1, Climbs
    <2>3. call.op # "QuerySzValue" \/ (call.rung # 4 /\ call.rung # 5)
      BY <1>1, <1>2, StandsOn DEF TestSteps
    <2>4. Informed(call')
      BY <1>1, <2>1, <2>3, StandsOn DEF Informed, RegistryInvariant
    <2>5. QED
      BY <1>1, <2>1, <2>2, <2>4, StandsOn DEF RegistryInvariant, Whole
  <1>3. CASE Step = "isString"
    <2> DEFINE n == Len(ToAnsi(call.read))
    <2>1. call' = [op |-> call.op, rung |-> call.rung + 1, count |-> n,
                   size |-> call.size,
                   read |-> call.read, type |-> call.type, array |-> call.array]
      BY <1>1, <1>3, StandsOn DEF Test, Goes, Whole
    <2>2. call.op = "QuerySzValue" /\ call.rung = 5 /\ call.count = 0
      BY <1>1, <1>3, StandsOn DEF RegistryInvariant, Informed
    <2>3. call.type = call.read.type /\ call.type \in {"SZ", "MULTI_SZ"}
      BY <1>1, <1>3, <2>2 DEF Passes, RegistryInvariant, Informed
    <2>4. n \in 0 .. Len(BufferNames)
      BY <2>2, <2>3 DEF RegistryInvariant, Informed, Readable
    <2>5. n \in Nat /\ Counted(call.op, n)
      BY <2>2, <2>4, RegistryAssumption DEF Counted
    <2> HIDE DEF n
    <2>6. Placed(call', blocks')
      <3>1. blocks' = Holds(Ladder, GivenBack(call.op, call.count), 6)
        BY <1>1, <2>2, BlocksWhileClimbing DEF Climb
      <3>2. Ladder = QuerySzValue(0) /\ GivenBack(call.op, call.count) = {"Array"}
        BY <2>2 DEF Ladder, Steps, GivenBack
      <3>3. /\ Steps(call.op, n) = QuerySzValue(n)
            /\ GivenBack(call.op, n) = {"Array"} \cup {Buffer(i) : i \in 1 .. n}
        BY <2>2 DEF Steps, GivenBack
      <3>4. blocks' = Holds(Steps(call.op, n), GivenBack(call.op, n), 6)
        BY <2>5, <3>1, <3>2, <3>3, SameRungs
      <3>5. 6 \in 1 .. Len(Steps(call.op, n)) + 1
        BY <2>5, <3>3, QuerySzValueRungs
      <3>6. QED
        BY <2>1, <2>2, <2>5, <3>4, <3>5 DEF Placed
    <2>7. Informed(call')
      BY <2>1, <2>2, <2>3 DEF Informed, RegistryInvariant, n
    <2>8. QED
      BY <1>1, <2>1, <2>6, <2>7, StandsOn DEF RegistryInvariant, Whole
  <1>4. QED
    BY <1>2, <1>3

LEMMA ChangeKeepsInvariant ==
  ASSUME RegistryInvariant, Change PROVE RegistryInvariant'
  <1>1. Standing /\ Climb /\ Step \in {"set", "deleteValue"}
    BY DEF Change
  <1>2. call' = [op |-> call.op, rung |-> call.rung + 1, count |-> call.count,
                 size |-> call.size,
                 read |-> call.read, type |-> call.type, array |-> call.array]
    BY <1>1, StandsOn DEF Change, Goes, Whole
  <1>3. Placed(call', blocks')
    BY <1>1, <1>2, Climbs
  <1>4. call.op # "QuerySzValue" \/ (call.rung # 4 /\ call.rung # 5)
    BY <1>1, StandsOn
  <1>5. Informed(call')
    BY <1>1, <1>2, <1>4, StandsOn DEF Informed, RegistryInvariant
  <1>6. Readable(value') /\ MadeFrom(value', written')
    <2>1. CASE Step = "deleteValue"
      <3>1. value' = Absent /\ written' = <<>>
        BY <2>1 DEF Change
      <3>2. QED
        BY <3>1, OthersAreReadable
    <2>2. CASE Step = "set" /\ call.op = "UpdateSzValue"
      <3>1. value' = FromAnsi(call.type, call.array) /\ written' = call.array
        BY <2>2 DEF Change
      <3>2. call.type \in {"SZ", "MULTI_SZ"} /\ call.array \in Arrays
        BY <2>2 DEF RegistryInvariant, Informed
      <3>3. QED
        BY <3>1, <3>2, WhatIsWritten
    <2>3. CASE Step = "set" /\ call.op # "UpdateSzValue"
      <3>1. value' \in {Dword, Binary(4)} /\ written' = call.array
        BY <2>3 DEF Change
      <3>2. call.array = <<>>
        BY <1>1, <2>3, StandsOn DEF RegistryInvariant, Informed
      <3>3. QED
        BY <3>1, <3>2, OthersAreReadable
    <2>4. QED
      BY <1>1, <2>1, <2>2, <2>3
  <1>7. QED
    BY <1>2, <1>3, <1>5, <1>6, StandsOn, <1>1 DEF RegistryInvariant, Whole

LEMMA ProceedKeepsInvariant ==
  ASSUME RegistryInvariant, Proceed PROVE RegistryInvariant'
  <1>1. Standing /\ Climb /\ Step \notin TestSteps /\ UNCHANGED <<value, written>>
    BY DEF Proceed
  <1>2. call' = [op |-> call.op, rung |-> call.rung + 1, count |-> call.count,
                 size |-> call.size,
                 read |-> call.read, type |-> call.type, array |-> call.array]
    BY <1>1, StandsOn DEF Proceed, Goes, Whole
  <1>3. Placed(call', blocks')
    BY <1>1, <1>2, Climbs
  <1>4. call.op # "QuerySzValue" \/ (call.rung # 4 /\ call.rung # 5)
    BY <1>1, StandsOn DEF Proceed, TestSteps, OnValue, ValueOps
  <1>5. Informed(call')
    BY <1>1, <1>2, <1>4, StandsOn DEF Informed, RegistryInvariant
  <1>6. QED
    BY <1>1, <1>2, <1>3, <1>5, StandsOn DEF RegistryInvariant, Whole

LEMMA FailKeepsInvariant ==
  ASSUME RegistryInvariant, Fail PROVE RegistryInvariant'
  <1>1. Standing /\ Step \notin {"called", "done"} /\ UNCHANGED <<value, written>>
        /\ blocks' = blocks \ Unwound(Ladder, call.rung) /\ call' = Idle
    BY DEF Fail
  <1>2. blocks = Unwound(Ladder, call.rung)
    <2>1. /\ blocks = Holds(Ladder, GivenBack(call.op, call.count), call.rung)
          /\ call.rung \in 1 .. Len(Ladder) /\ Len(Ladder) \in Nat
      BY <1>1, BlocksWhileClimbing
    <2>2. ~(call.rung > Len(Ladder))
      BY <2>1
    <2>3. QED
      BY <1>1, <2>1, <2>2 DEF Holds, Step
  <1>3. QED
    BY <1>1, <1>2 DEF RegistryInvariant, Whole, Placed, Informed, Idle

LEMMA GiveBackKeepsInvariant ==
  ASSUME RegistryInvariant, GiveBack PROVE RegistryInvariant'
  <1>1. /\ call.op # "none" /\ ~Standing /\ UNCHANGED <<value, written>>
        /\ blocks' = blocks \ GivenBack(call.op, call.count) /\ call' = Idle
    BY DEF GiveBack
  <1>2. blocks' = {}
    BY <1>1, BlocksWhenReturned
  <1>3. QED
    BY <1>1, <1>2 DEF RegistryInvariant, Whole, Placed, Informed, Idle

LEMMA RegistryKeepsInvariant ==
  ASSUME RegistryInvariant, RegistryNext \/ UNCHANGED registryVars
  PROVE  RegistryInvariant'
  <1>1. ASSUME NEW v \in Values, Edit(v) PROVE RegistryInvariant'
    <2>1. value' = v /\ written' = <<>> /\ UNCHANGED <<call, blocks>>
      BY <1>1 DEF Edit
    <2>2. Readable(value') /\ MadeFrom(value', written')
      BY <2>1, OthersAreReadable
    <2>3. QED
      BY <2>1, <2>2 DEF RegistryInvariant
  <1>2. CASE UNCHANGED registryVars
    BY <1>2 DEF registryVars, RegistryInvariant
  <1>3. QED
    BY <1>1, <1>2, CallsKeepInvariant, QuerySizeKeepsInvariant, QueryDataKeepsInvariant,
       TestKeepsInvariant, ChangeKeepsInvariant, ProceedKeepsInvariant, FailKeepsInvariant,
       GiveBackKeepsInvariant DEF RegistryNext


LEMMA BuffersAreDistinct ==
  ASSUME NEW n \in 0 .. Len(BufferNames)
  PROVE  Cardinality({Buffer(i) : i \in 1 .. n}) = n
  <1> DEFINE S == {Buffer(i) : i \in 1 .. n}
             f == [i \in 1 .. n |-> Buffer(i)]
  <1>1. n \in Nat /\ 1 .. n \subseteq DOMAIN BufferNames
    BY RegistryAssumption
  <1>2. f \in [1 .. n -> S]
    OBVIOUS
  <1>3. \A i, j \in 1 .. n : f[i] = f[j] => i = j
    BY <1>1, RegistryAssumption DEF Buffer
  <1>4. \A x \in S : \E i \in 1 .. n : f[i] = x
    OBVIOUS
  <1> HIDE DEF S, f
  <1>5. f \in Bijection(1 .. n, S)
    BY <1>2, <1>3, <1>4 DEF Bijection, Injection, IsInjective, Surjection
  <1>6. Cardinality(S) = n
    BY <1>1, <1>5, FS_CountingElements DEF ExistsBijection
  <1>7. QED
    BY <1>6 DEF S

LEMMA ReadsBackOfInvariant == RegistryInvariant => ReadsBack
  <1>1. SUFFICES ASSUME RegistryInvariant, call.op = "QuerySzValue", ~Standing,
                        call.array # <<>>
                 PROVE  LET n == Cardinality({b \in blocks : b # "Array"})
                        IN  CASE call.type = "SZ" ->
                                   n = 1 /\ ToAnsi(call.read) = <<Head(call.array)>>
                              [] call.type = "MULTI_SZ" ->
                                   (\A i \in 1 .. Len(call.array) : call.array[i] # "empty")
                                      => /\ n = Len(call.array)
                                         /\ ToAnsi(call.read) = call.array
    BY DEF ReadsBack
  <1>2. /\ Counted(call.op, call.count) /\ call.rung = Len(Ladder) + 1
        /\ blocks = {"Array"} \cup {Buffer(i) : i \in 1 .. call.count}
        /\ Ladder = QuerySzValue(call.count)
    BY <1>1, BlocksWhenReturned DEF GivenBack, Ladder, Steps
  <1>3. call.count \in 0 .. Len(BufferNames) /\ call.count \in Nat
    BY <1>1, <1>2, RegistryAssumption DEF Counted
  <1>4. call.rung = call.count + 8
    <2>1. Len(Ladder) = call.count + 7
      BY <1>2, <1>3, QuerySzValueRungs
    <2>2. QED
      BY ONLY <1>2, <1>3, <2>1
  <1>5. /\ call.array \in Arrays /\ call.read \in {Sz(call.array), MultiSz(call.array)}
        /\ call.type = call.read.type /\ call.count = Len(ToAnsi(call.read))
    BY <1>1, <1>3, <1>4 DEF RegistryInvariant, Informed, MadeFrom
  <1>6. Cardinality({b \in blocks : b # "Array"}) = call.count
    <2>1. \A i \in 1 .. call.count : Buffer(i) # "Array"
      BY <1>3, RegistryAssumption DEF Buffer, Others
    <2>2. {b \in blocks : b # "Array"} = {Buffer(i) : i \in 1 .. call.count}
      BY <1>2, <2>1
    <2>3. QED
      BY <1>3, <2>2, BuffersAreDistinct
  <1>7. CASE call.read = Sz(call.array)
    <2>1. call.type = "SZ" /\ ToAnsi(call.read) = <<Head(call.array)>>
      BY <1>5, <1>7, ReadsSz
    <2>2. call.count = 1
      BY <1>5, <2>1
    <2>3. QED
      BY <1>6, <2>1, <2>2
  <1>8. CASE call.read = MultiSz(call.array)
    <2>1. call.type = "MULTI_SZ"
      BY <1>5, <1>8 DEF MultiSz
    <2>2. (\A i \in 1 .. Len(call.array) : call.array[i] # "empty")
             => ToAnsi(call.read) = call.array
      BY <1>5, <1>8, ReadsMultiSz
    <2>3. QED
      BY <1>5, <1>6, <2>1, <2>2
  <1>9. QED
    BY <1>5, <1>7, <1>8

\* The step of Driver's that is the registry's, and the others.
LEMMA RegistryInductive == DriverSpec => []RegistryInvariant
  <1>1. DriverInit => RegistryInvariant
    BY RegistryStarts DEF DriverInit
  <1>2. ASSUME RegistryInvariant, [DriverNext]_driverVars PROVE RegistryInvariant'
    <2>1. RegistryNext \/ UNCHANGED registryVars
      BY <1>2, Zenon DEF DriverNext, driverVars, DriverEntry, EntryStep, EntryGoesOn,
         EntryFails, DriverUnload, UseRegistry, AddDevice, Remove, DeviceStep,
         CreateGoesOn, CreateFails, LetGo, CreateThread, EndThread, PowerThread,
         Arrive, Enter, GoAstray, Leave, WakeThread
    <2>2. QED
      BY <1>2, <2>1, RegistryKeepsInvariant
  <1>3. QED
    BY <1>1, <1>2, PTL DEF DriverSpec

\* Whatever a registry helper fails at, it gives back what it holds and
\* nothing else; and nothing is left when its caller has freed what it returned.
THEOREM RegistryLeaksNothing == DriverSpec => []NothingLeaks
  BY RegistryInductive, NothingLeaksOfInvariant, PTL

\* What RegistryUpdateSzValue could write, and nobody wrote over, is what
\* RegistryQuerySzValue returns: the first string of any array as a REG_SZ, and
\* any array without an empty string as a REG_MULTI_SZ.
THEOREM RegistryReadsBack == DriverSpec => []ReadsBack
  BY RegistryInductive, ReadsBackOfInvariant, PTL

=============================================================================
