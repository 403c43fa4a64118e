# Verification of XenCons

XenCons gives Windows guests a console device over the Xen PV console ring: a
kernel driver (`xencons.sys`), a service that offers the console to clients
through a named pipe (`xencons_monitor.exe`), a client that runs a shell on it
(`xencons_tty.exe`) and a co-installer that removes the service with the driver
(`xencons_coinst.dll`). This directory holds TLA+ models of that code, the TLC
configurations that check them on small instances, and theorems checked by
TLAPS. Paths below are relative to the root of the repository; definitions name
the lines they translate in `PROJECT.json` ("map").

## 1. Inventory

| Component | Source | State | Operations | Interaction |
|---|---|---|---|---|
| Thread objects | `src/xencons/thread.c` | event, `Alerted`, reference count, allocation | ThreadCreate (three failures), ThreadWake, ThreadAlert, ThreadJoin, ThreadFunction | owner and worker share one allocation; each stream has one thread, the FDO two |
| Streams | `src/xencons/stream.c` | IRP list under a spin lock, cancel routines, worker position, worker's IRP | StreamCreate, StreamPutQueue, StreamWorker, StreamDestroy, the IoCsq callbacks | dispatch routines queue, the I/O manager cancels, the worker serves through XENBUS_CONSOLE |
| Handles | `src/xencons/fdo.c` (824-974, 2169-2429) | handle list under a spin lock, one stream per handle | create, find, destroy one, destroy all; IRP_MJ_CREATE/CLEANUP/CLOSE/READ/WRITE | dispatch runs concurrently with power-down, which destroys every handle |
| Store publication | `fdo.c` (497-922) | the numbered keys `drivers/<n>` in XenStore, which name vendor, product and version; store and suspend references, the suspend callback | FdoSetDistribution, FdoClearDistribution, FdoD3ToD0, FdoD0ToD3, FdoSuspendCallbackLate | run on every transition between D0 and D3 and on resume; other drivers keep keys in the same directory |
| PnP | `fdo.c` (123-148, 1045-1462) | PnP state and the previous one, device usage counts | start, query/cancel stop, stop, query/cancel remove, surprise removal, remove, usage notification | drives D0/D3, destroys the FDO |
| Power | `fdo.c` (1464-2167) | device and system power state, two IRP slots, two threads | FdoDispatchPower, the two power threads, set/query device/system power | slot hand-over by event; system power requests device power and waits |
| FDO construction | `fdo.c` (239-320, 2431-2789) | the device extension, acquired interfaces, two threads | FdoCreate with its eleven failure labels, FdoDestroy | both ways down end the threads and assert that the extension is zero again |
| Driver | `src/xencons/driver.c` | driver-wide registry handles | DriverEntry, AddDevice, Dispatch, DriverUnload | routes IRPs to the FDO until it is deleted |
| Registry helpers | `src/xencons/registry.c` | none beyond a path string; the blocks and keys a call holds | open, create, delete, query and update of keys and values, each a ladder of allocations and ZwXxxKey calls | used by DriverEntry and DriverUnload; others edit the values meanwhile |
| Monitor | `src/monitor/monitor.c` | device handle, events, three threads, list of pipe instances; its status with the service control manager | MonitorAdd, MonitorRemove, MonitorMain, MonitorThread, ServerThread, PipeThread, DeviceThread, control handler, the "delete" command | threads coordinate with events, a critical section and joins |
| TTY client | `src/tty/tty.c` | line buffer, row of the terminal, pipe handles, shell process | GetLine, GetCredentials, TtyIn, TtyOut | started by the monitor, opens its pipe twice, to read and to write |
| Co-installer | `src/coinst/coinst.c` | the monitor service's registration | DifInstall, DifRemove, MonitorDelete | called by the system's device installer before and after the class installer |

### What is hard here

* **Interleavings.** IRPs are queued, cancelled, served and drained by four
  different kinds of thread; handles are found under a lock and used after it;
  pipe threads leave a list that another thread is taking down.
* **Wake-ups.** Everything sleeps on notification events that are set, cleared
  and tested in a fixed order; one misplaced step loses an alert or a wake-up.
* **Error paths.** Construction has unwind ladders of up to eleven labels, and
  `ThreadCreate` may fail after its thread already runs.
* **Slow partners.** The monitor writes to its clients while it holds the critical
  section that its own end needs; the client shares one row of a terminal between
  what is echoed and what the shell writes.
* **Order of protocol steps.** PnP and power requests come in orders that the
  code assumes and the system does not always follow.
* **Ends.** StreamDestroy, MonitorRemove and FdoDestroy wait for threads; a
  thread that misses its alert, or waits for a client, hangs them.

### What makes each component correct

| Component | Properties |
|---|---|
| Thread objects | the shared allocation outlives both users and is freed by the last; an alert is never slept over; alert and join end |
| Streams | each IRP is completed exactly once, in order, or cancelled; no wake-up is lost; the console gets back what was taken; destruction ends, leaves nothing pending and nothing behind |
| Handles | a handle in use is live, unless its user was overtaken; its stream is destroyed once; power-down completes what is queued |
| Store publication | published once in D0, not at all in D3; other drivers' keys are left alone |
| PnP | the driver agrees with the manager about its state, holds what its power state calls for, and removal undoes what the start did |
| Power | a slot is never overwritten nor slept over; the device follows the system; every power IRP completes |
| FDO construction, driver | a failure at any rung leaves nothing and says so; the FDO outlives its threads; every call returns |
| Registry helpers | no rung's failure leaks or frees twice; what is written is what a later read finds |
| Monitor | threads use only what is there; a device that stays is attached to; a stop ends and leaves nothing |
| TTY client | the row on the screen is the line in the buffer; a line is delivered as typed, whole or not at all |
| Co-installer | a service that was told to stop and deleted goes, with its client |

## 2. Modules

```
Thread <-- (IsThread) -- Stream -- (KeepsPromises) --> IrpQueue     abstract
  |                        :
  |                     Handles      Device     Power     Distribution
  |
  +---- Driver ---- Registry ---- Ladders ---- Service ---- Session ---- Tty
                                                               :
                                                            Monitor
```

Arrows are refinements checked by TLC and proved, plain lines are EXTENDS, dotted lines are
abstractions stated in words. `Handles` sees of a stream only that destroying it
ends and completes what is queued, which is what `Stream` shows (`DestroyEnds`).
`Driver` composes the FDO with the two threads of `Thread` itself, so that its
joins wait for threads at every position. `Session` composes the service and
its client; `Monitor` has the service in more detail and the client in less.

In every module one action is the code between two points at which another
actor may observe or change the shared state: a critical section under a spin
lock, one access to a shared field, one call of an external interface. Modules
have a section "Mistakes the runs must notice": alternative bodies of mapped
definitions, one for each property, used by nothing else in the models. They
document what each property guards against ("mutants" in `PROJECT.json`).

An ASSERT of the drivers stops nobody in a free build, so no action has one for a
guard: the code goes on and the model with it. Where the code goes wrong -
freed memory is used, a list is walked that somebody else takes apart - the
model says so ("astray", `broken`, `Crash`) and promises nothing of what follows.
What leads there is recorded in history variables (`overtaken`, `late`,
`interrupted`, `refused`, `failed`), which the properties name as exceptions
instead of the models leaving it out.

### Thread (`src/xencons/thread.c`)

`owner` and `worker` are the positions of the creating thread and of the system
thread; `event`, `alerted`, `references` and `memory` are the fields of
`struct _XENCONS_THREAD` and its allocation. `Allocate`, `Spawn`, `SpawnFails`,
`Reference`, `FailDrop` are ThreadCreate with its failure labels; `AlertStore`
then `AlertWake` are the two stores of `__ThreadAlert`; `Wake` is ThreadWake;
`Join` is ThreadJoin. `ClearEvent`, `TestAlerted` are the loop every worker
function has and `GiveUp` its early return; `FunctionReturns` is the decrement
in ThreadFunction, `Terminate` the end of the system thread.

### Stream (`src/xencons/stream.c`)

`list` is the queue; `irp`, `cancel`, `routine` and `completions` say of each
IRP where it is, its cancel flag and routine and how often it was completed.
`worker` follows StreamWorker call by call, `owner` follows StreamCreate and
StreamDestroy. IoCsq is the system's and runs the stream's callbacks under its
lock: a removal is one action, an insertion two (`InsertTail`, `WakeAndArm`),
because StreamCsqInsertIrpEx wakes the worker before the cancel routine is
set. `RequestCancel` is IoCancelIrp up to the point at which it owns the cancel
routine, `CancelRoutine` the routine. A routine that comes to a stream that has
been freed is lost with its IRP ("astray"), which only `Overlap` makes possible.
`Empty` are the IRPs that ask for no bytes: FdoDispatchReadWrite does not check
the length, and they succeed with none. XENBUS_CONSOLE is external: two rings of
`RingSize` bytes, an event channel (`notify`, `Deliver`) that sets the registered
event, a back end, and possibly another stream (`Rival`).

`IrpQueue` is what a client may expect of a stream: IRPs are accepted, served in
the order of arrival or cancelled, once each, and none is left when it is
closed. `Queue` in `Stream` is the refinement mapping: the IRP the worker holds
is still first in line (it may be put back), and one whose cancel routine is
taken is "doomed". The line is a set with the relation of who is `ahead` of whom. `WorkerThread` maps the same state to `Thread`.

### Handles (`src/xencons/fdo.c`)

One record of state per file object: `file` is the I/O manager's view, `create`
and `cleanup` are positions in FdoCreateHandle and FdoDispatchCleanup, `irp` the
READ or WRITE in progress, `handle`, `stream` and `destroys` what became of the
FDO_HANDLE and its stream. A look-up under HandleLock (`FindForIo`,
`FindForCleanup`) and the use of what it found (`QueueIo`, `UnlinkHandle`) are
separate actions. `PowerDown` disables the interface and splices the list;
`TestDoomed`, `PopDoomed`, `DrainStream` and `DestroyPopped` are the loop of
FdoDestroyAllHandles, which waits in StreamDestroy while CLEANUP may unlink the
same handle (`CleanupDestroys` is its half of the destruction). Nothing keeps
these apart, in the code or here: `overtaken` records the handles that were taken
off a list while somebody else had found them, `broken` that freed memory or the
private list was used wrongly. `Delete` is FdoDestroy's assertion, which a removal
reaches after a power-down, in D3 or without one (`RemoveWithoutPowerDown`: the
state before was not Started); `late` are the handles that a CREATE linked after
D0 was left.

### Device (`src/xencons/fdo.c`)

FdoDispatchPnp. `mgr` is what the PnP manager believes (external), `pnp` and
`previous` what the driver remembers; `power`, the two reference counts and
`callback` are what FdoD3ToD0 acquires and FdoD0ToD3 gives back; `usage` and
`notDisableable` the counts of special files, `paths` those that are in use. The
results of FdoSetDistribution, of enabling the device interface and of clearing
the keys are ignored by the code and are not in this module: what is then
published is in `Distribution`. The manager sends one request at a time, so
each handler is one action, with a disjunct for each failure of start. A device
may vanish at any time, also with a query pending (`interrupted`) or a path
running through it. `SetPower` is the device power thread, one whole transition
at a time, whose way up may fail as well.

### Power (`src/xencons/fdo.c`)

`slot`, `event`, `alerted` and `pc` are the two slots and threads; `waking`
counts the dispatch routines that have stored an IRP and have yet to wake the
thread, so a wake may be arbitrarily late. `ProcessSystem`, `AskForDevice`,
`AwaitDevice` and `FinishSystem` are `__FdoSetSystemPower` and
`__FdoQuerySystemPower` with their callback; `ProcessDevice` and `FinishDevice`
their device counterparts. A request to power up may fail, in the lower driver or
in FdoD3ToD0 (`failed`): the assertions at `fdo.c:1492` and `1590` are no
obstacle, and the system thread goes on. The device starts in D3, and
`StartDevice` and `StopDevice` change that while no power IRP is about.
`RemoveDevice` and `AlertAndJoin` are the part of FdoDestroy that ends the threads.
The power manager (`po`) is external.

### Distribution (`src/xencons/fdo.c`)

`key` is the directory of XenStore. `pc`, `rest` (where the callers go on),
`index` and `todo` are the position in FdoSetDistribution or FdoClearDistribution
and its callers FdoD3ToD0 (with its error paths), FdoD0ToD3 and
FdoSuspendCallbackLate. One action is one store request; each may fail. `failed`
and `clash` are history: a request has failed since the last clear began; a
driver has written over another one's key.

### Ladders, Registry, Driver (`src/xencons/registry.c`, `driver.c`, `fdo.c`)

`Ladders` is the idiom of the driver's error paths: a ladder is a sequence of
rungs, each with what its success takes or drops and what the label it jumps to
gives back; a failure at rung n gives back what the labels from there down say,
in the code's order, mistakes included. Whether that is what was taken is what
the properties ask.

`Registry` has one ladder for each helper (`Steps`). `call` is the helper under
way and `blocks` what it holds; `value` is the one named value that others may
edit between its two reads, `written` the array last written. A string is
known by its length, which is what RegistryAnsiToSz and the multi-string
conversions depend on.

`Driver` climbs DriverEntry's ladder, then AddDevice and FdoCreate's eleven rungs
(`CreateGoesOn`, `CreateFails`, `LetGo` for one rung down at a time), runs the two power threads of
`Thread`, lets IRPs in (`Arrive`: the test of DevicePnpState; `Enter`: Dx->Fdo is
loaded; `Leave`), at any step of a removal too, and takes the device down through FdoRemoveDevice and FdoDestroy,
each step of which is one element of `DestroySteps`. An IRP that finds the FDO or one of its
threads gone is followed no further (`GoAstray`). `fdo` is what the device object
and the FDO hold, `owned` what the driver does.

### Monitor (`src/monitor/monitor.c`)

`main` is the position of MonitorMain within MonitorAdd, MonitorRemove and
MonitorWaitForPipeThreads; the control handler is `Arrive`, `QueryRemove`,
`Depart` and `Stop`; `server`, `deviceThread`, `monitorThread` and `pipe[c]` are the
threads; `count` is ListCount with its wrap-around, `waitFor` the handles copied
for the wait, of which WaitForMultipleObjects takes no more than `MaxWait`. Each
write waits for whoever is to take it: MonitorMain for the device as it attaches
and detaches ("greet", "farewell"), a pipe thread for the device ("put") or its
client ("flush"), the device thread for every client in turn. A critical section that was deleted while a pipe thread still
uses it is undefined: `Crash` is one outcome, going on regardless the other.
`AddFails` and `AddFailsLate` are MonitorAdd's labels, `UndoDevice` and `UndoMonitor` the
waits among them. MonitorAdd tests what CreateThread returned for
INVALID_HANDLE_VALUE, which it never returns: a thread that could not be made is
taken for one, and counts as ended when it is waited for.

### Service, Tty, Session (`src/monitor/monitor.c`, `src/coinst/coinst.c`, `src/tty/tty.c`)

`Service` is the life of the service: MonitorMain's ladder and its reports, the
co-installer before and after the class installer (`dif`), MonitorDelete as the
separate requests it makes of the service control manager, and the manager's
record of the service (external). `Tty` is the client: `GetLine` takes a key at a
time and changes `buffer`, the offset in it and the terminal's `row` together;
`typed` is history. `Session` adds the pipe instances and their threads and the
service's three threads, and lets the client of `Tty` be what MonitorThread keeps
running. The client opens the pipe twice and reads from the first instance only; what it
writes to the second the service puts to the device ("put"), which may take
nothing more. MonitorMain reports SERVICE_STOPPED before it gives back the event
source and the key (`HeldLast`), and the report is a step of its own. When the
client ends, its child goes on until its input is closed. MonitorAdd is one action
here; its failures are in `Monitor`.

### MC modules and proof modules

`MCx` extends `x` with the model values and definitions its `.cfg` files need.
`xProofs` extends `x` with theorems. `DriverProofs` has those about `Thread` and
`Registry`, which `Driver` extends, `SessionProofs` those about `Tty` and `Service`.

## 3. Runs

| Run | States | Bounds | What it shows |
|---|---|---|---|
| `stream_duplex` | 447 172 | 2 READs, 2 WRITEs, ring of 1, all cancellable, a rival stream, failures of allocation, spawn and both console calls | each IRP is completed once; nothing is used after it is freed; the list is empty when StreamDestroy asserts it; the console gets back what was taken; no wake-up is lost until an IRP is cancelled (from then on one behind it may wait for the next event); the stream implements `IrpQueue` |
| `stream_input` | 179 357 | 2 READs, one of no bytes, and a WRITE, ring of 2 that starts empty or not, every failure, no rival | the worker is a `Thread`; a successful READ returns data if it asked for some; every WRITE completes while the back end drains the ring, unless a READ waits before it; StreamDestroy ends with every IRP completed although no input ever comes |
| `stream_overlap` | violation | 1 READ, cancellers run into StreamDestroy | finding 1 |
| `handles` | 147 591 | 2 files, every failure of creation, nothing kept apart | who is not overtaken finds its handle on the list, and nothing else breaks; streams are destroyed once until then; power-down completes IRPs; at deletion the list holds only late handles |
| `handles_fault` | violation | 1 file, thread creation fails | finding 2 |
| `device` | 6 763 | 3 usage types, 2 paths each, every failure of start and of powering up, refused paths, surprises at any time | the driver stays in step with the manager, holds what its power state calls for, and its removal undoes its start, unless the device vanished during a query |
| `device_refused` | violation | 1 usage type, the lower driver may refuse | finding 3 |
| `power` | 203 742 | 3 system states, 2 late wakers a slot, power-ups that fail, starts and stops | slots are never overwritten or slept over, a sleeping machine has its device in D3, the system thread goes on only when its request was answered, every IRP completes |
| `distribution` | 19 352 | 3 keys, other drivers, every request may fail | published once in D0 and not in D3; other drivers' keys survive |
| `driver` | 92 370 | 2 IRPs in Dispatch at any moment of a removal, 2 power threads, 1 device, every registry helper, failures of ten calls of FdoCreate | a power thread never finds its FDO gone; a thread object outlives its users and is freed by the last; no alert is lost; whatever rung fails, nothing is left and both assertions before the FDO is freed hold; helpers leak nothing, and what is written is read back; every call returns |
| `monitor` | 334 662 | 2 clients, 1 arrival, count modulo 8, waits for at most 1 thread, every failure of MonitorAdd, writes that never end | threads use what is there; a present device is attached to, also after an attempt that failed; a stop ends if the writes do |
| `session` | 220 326 | a line of 3, 3 keys under way, 3 scenes | the terminal's row is the line in the buffer; a line arrives as typed; a stopped service leaves nothing; a service told to stop and deleted goes, and its client with it, if the writes of its threads end |

Why the bounds are enough for the cases that matter: two IRPs of a kind are
needed for one to wait behind, be requeued before, or be cancelled past another;
a ring of one byte is full or empty after each transfer, one of two can be
neither. Two late wakers let the wake of an IRP already served set the event for
the next one. Three keys are one taken, one free and one to be raced for; of two
files one can be opened or closed while the other is swept away. Two clients let one
hold up the other and are more than `MaxWait`; a second arrival meets what the first attachment left, the
wrapped count in particular. A line of three characters is empty, full, and
has room for a character of two cells beside one of one. The scenes of
`session` bound what happens at once: in "line" nobody stops anything, in "stop" the
device is removed once while the client runs, in "install" the service is
installed and deleted without a client; "all" is all of it, for a longer run than
these. Two IRPs in Dispatch let one be overtaken by the removal beside one that is not.
The strings of `driver` are on both sides of the 127 characters at which
RegistryAnsiToSz's cast to UCHAR wraps. `stream_duplex` identifies states that differ only in
the names of READs or of WRITEs; it checks no liveness. The theorems below
remove the bounds for the safety properties they state.

### Findings

1. `stream_overlap`: IoCsqRemoveNextIrp skips an IRP whose cancel routine
   IoCancelIrp has taken, so StreamDestroy's drain may leave it on the list and
   the assertion at `stream.c:431` fails; the same holds for an IRP whose dispatch
   routine found the handle before it was destroyed.
2. `handles_fault`: StreamCreate leaves the pointer to the stream it has freed in
   the handle when the thread cannot be created, and FdoCreateHandle asserts
   that the handle is zero (`fdo.c:2202`).
3. `device_refused`: a usage notification the lower driver refuses stays counted,
   and FdoDestroy asserts that the extension is zero (`fdo.c:2783`), although no path
   runs through the device any more.

### Assumptions the passing runs make

Those that are constants can be given the other value, to see what they hide:

* `Overlap = FALSE` (Stream): no dispatch routine or canceller is inside the
  stream when StreamDestroy begins. The I/O manager sees to that for CLEANUP of
  a file whose IRPs are done; nothing does on power-down.
* `"reference" \notin CreateFaults` (`stream_duplex`): with it the stream is freed
  under its running worker; see the hazard at `stream.c:387`. `stream_input`, which
  checks nothing about the memory of the stream, has this fault.
* `Rival = FALSE` (`stream_input`): with a rival a READ may succeed with no data.
* `RemoveBusy = FALSE` (Power): no power IRP is about while FdoDestroy ends the
  threads; otherwise a thread leaves an IRP in its slot. Only
  `PowerIrpsComplete` needs it.
* `Quiet` (Power), and one request at a time (Device): a device is started, stopped
  and removed while no power IRP is about. Nothing in the driver sees to that.
* `Faults` (Driver) leaves out three failures, each of which breaks a property:
  "console" (no label takes StoreInterface back, so the assertion at `fdo.c:2710`
  fails), "busData" (`fdo.c:2602` leaves with STATUS_SUCCESS) and "busVersion"
  (`fdo.c:280` frees an interface without dereferencing it).
* `FdoOutlivesThreads` excepts a thread whose ThreadCreate failed after it started:
  FdoCreate frees the FDO under it.
* Registry helpers run one at a time, in DriverEntry and DriverUnload, and the
  driver has one device in one life.

The code goes wrong in the following cases, which are in the models and which the
properties except by name:

* `OnlyTheOvertakenBreak` and `PowerDownCompletesIrps` (Handles) except handles that
  were `overtaken`: FdoDestroyAllHandles or a CLEANUP took the handle off its list
  after a READ, WRITE or CLEANUP had found it and before that used it. The I/O
  manager holds a CLEANUP back until no other call is in the file; it holds nothing
  back while a device is powered down or stopped.
* `OnlyLateHandlesLeft` (Handles) excepts handles that were linked after D0 was left
  (`fdo.c:2191`), which a removal from D3 finds on the list, and a removal that
  skips the power-down (`fdo.c:1209`).
* `RemovalUndoesStart` (Device) excepts a device that vanished while a query was
  pending, whose power-down FdoRemoveDevice skips, and types of path the lower
  driver has refused (finding 3). A device that vanishes in use has counts that
  are right and not zero: `fdo.c:2783` asserts otherwise.
* `DeviceAnswersFirst` (Power) excepts a power-up that failed: the code asserts
  that it does not (`fdo.c:1492`, `1590`).
* An IRP that goes astray in Dispatch (Driver): FdoRemoveDevice waits for nobody.
* `NoLostWakeup` (Stream), for both kinds of IRP on one handle, holds until one is
  cancelled: that of a blocked IRP wakes nobody for those behind it.
* `PresentIsAttached` (Monitor) excepts a device that comes back, or stays after all,
  before the service has let go of it, and one at which MonitorAdd failed.
* `StopEnds` (Monitor) excepts a service that waits in MonitorAdd's error path for
  a monitor thread: `monitor.c:946` signals the thread's handle instead of its
  event, so the wait lasts for as long as the executable can be started.
* `StopEnds` and `RemovalEnds` (Session) have for a premise that the writes of the
  service end (`WritesEnd`; in Session that the critical section is free again and
  again and that the device takes what is put to it). That is not so of the
  repository's own client: it never reads from the instance it opened to write
  (`tty.c:416`), DeviceThread writes to every instance while it holds the critical
  section (`monitor.c:783`), and once the buffer of that pipe is full nothing that
  is typed arrives any more and a stop waits for ever. Without the premise TLC
  finds this in the "stop" scene.
* `StoppedLeavesNothing` (Session) excepts the event source and the key until the
  program ends (STOPPED is reported first, `monitor.c:1364` and `1392`), and the name
  of the executable, which no label frees.

### Fairness

* Thread, Stream, Power, Driver: weak fairness of each worker, of a dispatch routine
  between its first store and its last, and of destruction once it has begun:
  kernel threads that can run do run. Of the console: the event channel
  delivers, and the back end drains what the guest writes. No fairness for
  whoever sends IRPs, cancels them, provides input or removes the device.
* Handles: weak fairness of dispatch routines and of FdoD0ToD3.
* Monitor: weak fairness of the server, monitor and device threads; strong fairness
  of MonitorMain and the pipe threads, which wait for a critical section the device
  thread takes again and again: Windows grants one to a thread that waits for it.
  No fairness for the control handler, clients or the device, nor for any write:
  that writes end is the premise of `StopEnds`, not an assumption of the model.
* Session: the same for the service's threads; strong fairness of the client where
  the service reads what it writes, weak fairness of a shell that reads its input (or exits), of the co-installer once it has begun,
  and strong fairness of the manager's forgetting of a service, which needs a
  moment at which nobody has it open. None for whoever types, or stops or removes
  anything.

## 4. Theorems

Checked by TLAPS for every value of the constants the modules' assumptions
allow. Each rests on an inductive invariant, because the property alone says too
little about the positions from which a step could break it.

* **DriverProofs**, of thread objects: typing, `UsersFindItLive`, `LastUserFrees`,
  `JoinAssertion` and `AlertNotLost` for any set of threads. The invariant says
  how the reference count follows from the two positions (this is what makes the
  last one to leave the one that frees) and that an alert finds its worker before
  the test or the event set. `PowerThreadsAreThreads` is the refinement: every step
  of `Driver` is one of `Thread` or leaves the thread objects alone, so the same
  holds of the two power threads wherever FdoCreate fails.
* **DriverProofs**, of the device: `FdoOutlivesThreads` whatever fails; `FreeAssertion`
  unless "console" may fail; `NothingLeft` unless "console", "busData" or "busVersion"
  may. All take the threads to be the two power threads (`PowerThreads`) and hold for any IRPs, dispatched at any time. The invariant says for
  each rung of FdoCreate, of its labels and of FdoDestroy what the device object
  and the FDO hold, and where the owner of each thread then stands; the joins come
  from the invariant of the thread objects.
* **DriverProofs**, of the registry helpers: `NothingLeaks` and `ReadsBack` for any
  values, arrays and numbers of keys and names. A ladder is `Orderly` if each rung
  takes what the next label gives back; every one of `Steps` is shown to be that,
  those that grow with the number of keys or strings included. An orderly ladder
  holds at each rung exactly what its labels give back, which is the invariant.
* **StreamProofs**: `CompletedOnce` for any IRPs, faults and overlap. Completion
  is possible at four places; the invariant says what each of them knows: an IRP
  with a cancel routine is listed, one being inserted is listed and has none, one
  held by the worker is neither. `ConsoleReturned` without conditions (acquisition
  and registration each hold exactly in an interval of the worker's positions);
  `ListHoldsListed` without conditions, from lemmas on what appending, prefixing and
  removing do to a sequence without duplicates.
* **StreamProofs**, of the refinements: `KeepsPromises` with `Overlap = FALSE` (otherwise the
  stream may close with IRPs in line, `stream_overlap`). Each
  action maps to one of `IrpQueue` or to a stutter; the lemmas say what it does to who
  is ahead of whom, and the invariant that the stream is there as long as anybody
  is on the way into it. `IsThread` with `Overlap = FALSE`: a dispatch
  routine that is still inside may otherwise wake a thread that was joined.
* **StreamProofs**, of wake-ups and data: `NoLostWakeup` without conditions. The
  invariant says when the worker may go on with a clear event although there is
  something to serve: only where it looks at the list and the ring again before
  it waits. `ReadsReturnData`, for READs that ask for some bytes, with `Rival = FALSE`.
* **StreamProofs**, of the end: `DestroyAssertion` with `Overlap = FALSE`, whatever
  fails: after the drain found nobody in line every listed IRP would have to be
  one that is being cancelled or inserted, and with nobody inside the stream there
  is none. `StreamUsersFindItLive` under `Calm` (moreover no failure after the thread
  runs).
* **HandlesProofs**: `StreamFollowsHandle`, `OnlyTheOvertakenBreak` and
  `OnlyLateHandlesLeft` for any files and faults, no race left out. The invariant
  ties the position of each dispatch routine and of FdoDestroyAllHandles to the
  place of the handle, and says that until somebody is overtaken each handle that
  leaves a list is in the hands of one alone.
* **DeviceProofs**: `HeldMatchesPower`, `InStepWithManager` and `RemovalUndoesStart`
  without conditions; `NotDisableableTracksUsage` if the lower driver refuses no
  path (`Accepting`). What is needed in between: which states of the manager have
  the device in D0, what `previous` is in each of them, and that the counts equal
  the paths in use for every type that was never refused.
* **PowerProofs**: `SlotAssertion`, `NoIrpSleptOver`, `SleepsInD3` and
  `DeviceAnswersFirst` for any system states, any bound on late wakers, power-ups that
  fail and a removal at any time. The invariant follows a request for device
  power from the system thread through the slot and the device thread to the
  answer: where the request is, the device IRP that answers it is.
* **DistributionProofs**: `PublishedOnce` and `OthersKept` for any
  MAXIMUM_INDEX. The invariant says where the driver's own keys can be at each
  position: all of them in what the running clear has yet to look at, unless a
  request failed or two drivers clashed.
* **MonitorProofs**: `ThreadsUseWhatIsThere` and typing for any number of clients
  and arrivals, any `MaxWait`, any failures of MonitorAdd and writes that never end.
  It covers the server, device and monitor threads, not the pipe threads, which may
  go on without anybody waiting for them. The invariant says what of an
  attachment is there at each position of MonitorMain, and that the pipes on the
  list are those whose threads have yet to unlink them.
* **SessionProofs**, of the service: `StoppedLeavesNothing` in every scene. The
  invariant says what MonitorMain holds after each rung of its ladder and what is
  left to give back when it has reported that it stopped, and that
  the client runs only under the monitor thread and that thread only in the loop.
* **SessionProofs**, of the client: `ScreenShowsLine` and `LinesArriveAsTyped` for
  lines of any length. For the second, `IsMeant` counts DELs over the whole history
  while GetLine only ever looks at the end of its buffer. The invariant (`Follows`)
  places each character of the buffer at the key that typed it, and says that
  the keys between one character and the next come to nothing: half of them are
  DELs. That is what is left to say of the character before when DEL takes
  the last one. For the first, the row is the image of the line, and FlattenSeq
  of one more piece is proved from its definition, which is recursive: the one
  induction needed is stated for a set of numbers (`SetInduction`), from the
  well-foundedness of inclusion among finite sets.

Every safety property of the runs is proved, and so are both refinements. Only
model-checked are the eight liveness properties (`WritesComplete`, `DestroyEnds`,
`PowerDownCompletesIrps`, `PowerIrpsComplete`, `CallsReturn`, `PresentIsAttached`,
`StopEnds`, `RemovalEnds`): fairness and ENABLED are out of the prover's reach.

## 5. Not modelled, and why

* PnP and power handlers that overlap: `Device` takes one whole power transition
  at a time. The driver has nothing that keeps them apart; two that overlapped
  would each pass the test of DevicePowerState. Whether the system ever lets them
  is outside this repository.
* An IRP in a power slot while the device is removed beyond what `RemoveBusy`
  admits, and IRPs in `Driver` beyond "in Dispatch or not": what they do is in
  `Handles`, `Stream`, `Device` and `Power`.
* The reference counts of interfaces on FdoD3ToD0's error paths, which use the
  store interface after giving it up (`fdo.c:895`): `Distribution` has their effect
  on the store.
* The text of store values and of the multi-string `Directory` returns; the
  contents of IRPs, and their length beyond "none" and "some".
* LogonUser, CreateProcess and the making of pipes to the shell succeed or fail as
  one step; cmd.exe is external, and so is what it writes beyond "something".
* Power IRPs of a shutdown and the minor functions that pass straight down.
* Logging, tracing, name tables (`util.h`, `names.h`), build scripts, INF and
  message resources: no state that a property is about.

## 6. Plan

What would add most from here, in this order:

1. **Composition of Handles and Stream**: the abstract stream of `Handles` replaced by
   `IrpQueue`, and `Stream`'s constant `Overlap` derived from what `Handles` allows.
2. **Composition of Device and Power** at the grain of `Power`, if the system turns
   out to let PnP requests overlap with device power IRPs.
3. **Proofs**: with the composition of 1, that `Overlap = FALSE` holds of streams
   whose handles are closed by CLEANUP; of `Handles`, that the streams it destroys
   keep the promises of `IrpQueue`.
4. **Session** with MonitorAdd's failures and a second client.
