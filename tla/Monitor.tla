------------------------------- MODULE Monitor -------------------------------
(***************************************************************************)
(* The monitor service (src/src/monitor/monitor.c): it opens the console   *)
(* device when one is present, copies its output to the clients of a named *)
(* pipe and their input to it, and keeps an executable running meanwhile.  *)
(*                                                                         *)
(* MonitorMain attaches and detaches as its three events tell it; the      *)
(* control handler sets them from another thread.  While attached there    *)
(* are a server thread, a device thread, a monitor thread and one thread   *)
(* per connected client.  CriticalSection guards the list of pipes; only   *)
(* the device thread holds it for longer than one step, while it writes    *)
(* what it has read to every pipe.                                         *)
(*                                                                         *)
(* Whoever writes waits: MonitorMain and the pipe threads for the device   *)
(* to take what they write, the device thread and a pipe thread that       *)
(* flushes its pipe for the client to read.  Neither needs to happen.      *)
(*                                                                         *)
(* MonitorAdd may fail after it has opened the device.  Its tests of what  *)
(* CreateThread returned are for a value CreateThread does not return: a   *)
(* thread that could not be made counts as one, and as ended when waited   *)
(* for, as is a thread that ended early.                                   *)
(***************************************************************************)
EXTENDS Naturals, FiniteSets

CONSTANTS
    MaxClients,     \* bound on the clients that connect
    MaxArrivals,    \* bound on the arrivals of the device
    AddFaults,      \* what may fail in MonitorAdd: "open" stands for all
                    \* before DevicePath is stored, the others are events
    CountModulus,   \* bound standing for the 2^32 values of ListCount
    MaxWait         \* MAXIMUM_WAIT_OBJECTS

ASSUME MonitorAssumption ==
    /\ MaxClients \in Nat
    /\ MaxArrivals \in Nat
    /\ CountModulus \in Nat /\ CountModulus > MaxClients + 1
    /\ MaxWait \in Nat
    /\ AddFaults \subseteq {"open", "monitorEvent", "deviceEvent",
                            "serverEvent"}

\* Numbered in the order in which they connect, each as its pipe instance.
Clients == 1 .. MaxClients

VARIABLES
    presence,   \* of the device interface; "leaving" while removal is pending,
                \* "missed" if it arrived, or stayed after all, before the
                \* service had let go of it, or if MonitorAdd failed
    arrivals,   \* how often it has arrived
    stopEvent, addEvent, removeEvent,   \* the events of the same names
    main,       \* where MonitorMain is
    device,     \* Context->Device
    serverEvent, deviceEvent, monitorEvent,
    server, deviceThread, monitorThread,    \* where the threads are
    lock,       \* CriticalSection is initialised
    list,       \* the pipes on ListHead
    count,      \* ListCount
    waitFor,    \* the threads whose handles are in Handles
    pipe        \* where the pipe thread of each client is

eventVars == <<stopEvent, addEvent, removeEvent>>
threadVars == <<serverEvent, deviceEvent, monitorEvent, server, deviceThread,
                monitorThread>>
pipeVars == <<list, count, pipe>>
vars == <<presence, arrivals, eventVars, main, device, threadVars, lock,
          pipeVars, waitFor>>

\* "greet" and "farewell" are the two ECHO to the device.
MainPC == {"wait", "add", "greet", "collect", "beginWait",
           "waitPipes", "joinServer", "joinDevice", "joinMonitor", "farewell",
           "undoDevice", "undoMonitor",
           "stopped", "crashed"}

\* "put" is PutString to the device, "flush" FlushFileBuffers.
PipePC == {"none", "insert", "read", "put", "leave", "flush", "gone"}

MainAt(from, to) == main = from /\ main' = to

Ended == {"none", "ended"}

Present == presence \in {"present", "missed"}

\* The handle of the pipe has not been closed.
Open(c) == pipe[c] \in {"insert", "read", "put", "leave", "flush"}

-----------------------------------------------------------------------------
(* Mistakes the runs must notice; see "mutants" in PROJECT.json.           *)

ReadMovesOn(c) ==
    /\ pipe[c] = "read"
    /\ pipe' = [pipe EXCEPT ![c] = "flush"]
    /\ UNCHANGED <<list, count>>

ServerEventNotSet(otherwise) ==
    /\ main = "wait"
    /\ \/ device = "closed" /\ main' = otherwise /\ UNCHANGED serverEvent
       \/ device = "open" /\ main' = "collect" /\ UNCHANGED serverEvent

NoFirstAdd == stopEvent = FALSE /\ addEvent = FALSE /\ removeEvent = FALSE

-----------------------------------------------------------------------------

\* AddEvent is set once the notification is registered, before the loop.
FirstEvents == stopEvent = FALSE /\ addEvent = TRUE /\ removeEvent = FALSE

Init ==
    /\ presence \in {"absent", "present"} /\ arrivals = 0
    /\ FirstEvents
    /\ main = "wait"
    /\ device = "closed"
    /\ serverEvent = FALSE /\ deviceEvent = FALSE /\ monitorEvent = FALSE
    /\ server = "none" /\ deviceThread = "none" /\ monitorThread = "none"
    /\ lock = FALSE
    /\ list = {} /\ count = 0 /\ waitFor = {}
    /\ pipe = [c \in Clients |-> "none"]

-----------------------------------------------------------------------------
(* MonitorCtrlHandlerEx, and what happens to the device; what the handler  *)
(* is told once the service is to stop makes no difference any more, so    *)
(* then only the loss of the device is modelled.                           *)

\* The handler is told of the handle as long as its notification is
\* registered, which is as long as the critical section is there.
RemoveSignalled == removeEvent' = (removeEvent \/ lock)

LetGo == main = "wait" /\ device = "closed" /\ ~removeEvent

\* DBT_DEVICEARRIVAL.
Arrive ==
    /\ ~stopEvent
    /\ presence = "absent"
    /\ arrivals < MaxArrivals
    /\ presence' = IF LetGo THEN "present" ELSE "missed"
    /\ arrivals' = arrivals + 1
    /\ addEvent' = TRUE
    /\ UNCHANGED <<stopEvent, removeEvent, main, device, threadVars, lock,
                   pipeVars, waitFor>>

\* DBT_DEVICEQUERYREMOVE; the device goes once nobody has it open.
QueryRemove ==
    /\ ~stopEvent
    /\ Present
    /\ presence' = "leaving"
    /\ RemoveSignalled
    /\ UNCHANGED <<arrivals, stopEvent, addEvent, main, device, threadVars,
                   lock, pipeVars, waitFor>>

\* DBT_DEVICEREMOVECOMPLETE, after a query or by surprise.
Depart ==
    /\ \/ Present
       \/ /\ presence = "leaving"
          /\ device = "closed" /\ deviceThread \notin {"read", "write"}
    /\ presence' = "absent"
    /\ RemoveSignalled
    /\ UNCHANGED <<arrivals, stopEvent, addEvent, main, device, threadVars,
                   lock, pipeVars, waitFor>>

\* The query was refused, by whoever else was asked; no event says so.
CancelRemove ==
    /\ ~stopEvent
    /\ presence = "leaving"
    /\ presence' = "missed"
    /\ UNCHANGED <<arrivals, eventVars, main, device, threadVars, lock,
                   pipeVars, waitFor>>

Stop ==
    /\ main \notin {"stopped", "crashed"}
    /\ stopEvent' = TRUE
    /\ UNCHANGED <<presence, arrivals, addEvent, removeEvent, main, device,
                   threadVars, lock, pipeVars, waitFor>>

-----------------------------------------------------------------------------
(* MonitorMain                                                             *)

\* MonitorRemove, if attached, begins with SetEvent(ServerEvent), which ends the
\* server thread and the pipe threads.
BeginRemove(otherwise) ==
    /\ main = "wait"
    /\ \/ device = "closed" /\ main' = otherwise /\ UNCHANGED serverEvent
       \/ device = "open" /\ main' = "collect" /\ serverEvent' = TRUE

\* WaitForMultipleObjects returns the first event that is set: to stop comes
\* before to add, and that before to remove.  The service has stopped once
\* MonitorRemove at "done" finds or leaves nothing attached.
Wake ==
    /\ \/ /\ stopEvent
          /\ BeginRemove("stopped")
          /\ UNCHANGED <<addEvent, removeEvent>>
       \/ /\ ~stopEvent /\ addEvent
          /\ MainAt("wait", "add")
          /\ addEvent' = FALSE /\ UNCHANGED <<removeEvent, serverEvent>>
       \/ /\ ~stopEvent /\ ~addEvent /\ removeEvent
          /\ BeginRemove("wait")
          /\ removeEvent' = FALSE /\ UNCHANGED addEvent
    /\ UNCHANGED <<presence, arrivals, stopEvent, device, deviceEvent,
                   monitorEvent, server, deviceThread, monitorThread, lock,
                   pipeVars, waitFor>>

\* MonitorAdd, if not attached, opens the device and writes to it.
OpenDevice ==
    /\ MainAt("add", "greet")
    /\ device = "closed" /\ Present
    /\ device' = "open"
    /\ UNCHANGED <<presence, arrivals, eventVars, threadVars, lock, pipeVars,
                   waitFor>>

\* The notification of the handle is registered, then the list, the critical
\* section, the events and the threads are made.  ListCount is left as it is.
\* The device thread opens the device again, and ends if it cannot.
Attach ==
    /\ MainAt("greet", "wait")
    /\ lock' = TRUE
    /\ list' = {}
    /\ server' = "listen" /\ monitorThread' = "run"
    /\ deviceThread' \in {"read", "ended"}
    /\ UNCHANGED <<presence, arrivals, eventVars, device, serverEvent,
                   deviceEvent, monitorEvent, count, pipe, waitFor>>

NothingToAdd ==
    /\ MainAt("add", "wait")
    /\ ~(device = "closed" /\ Present)
    /\ UNCHANGED <<presence, arrivals, eventVars, device, threadVars,
                   lock, pipeVars, waitFor>>

\* Through fail1 to fail3, or through fail4, which frees DevicePath and leaves
\* it to fail2 to free it again as Path; that may end the service.
AddFails ==
    /\ \/ /\ main = "add" /\ device = "closed" /\ Present
          /\ "open" \in AddFaults /\ main' = "wait" /\ UNCHANGED list
       \/ /\ main = "greet"
          /\ "open" \in AddFaults /\ main' = "wait" /\ UNCHANGED list
       \/ /\ main = "greet"
          /\ "monitorEvent" \in AddFaults /\ main' \in {"wait", "crashed"}
          /\ list' = {}
    /\ device' = "closed"
    /\ presence' = IF Present THEN "missed" ELSE presence
    /\ UNCHANGED <<arrivals, eventVars, threadVars, lock, count, pipe, waitFor>>

\* Without DeviceEvent the monitor thread is to be ended again, without
\* ServerEvent the device thread before it.
AddFailsLate ==
    /\ main = "greet"
    /\ lock' = TRUE
    /\ list' = {}
    /\ monitorThread' = "run"
    /\ \/ /\ "deviceEvent" \in AddFaults /\ main' = "undoMonitor"
          /\ UNCHANGED <<deviceThread, deviceEvent>>
       \/ /\ "serverEvent" \in AddFaults /\ main' = "undoDevice"
          /\ deviceThread' \in {"read", "ended"}
          /\ deviceEvent' = TRUE
    /\ presence' = IF Present THEN "missed" ELSE presence
    /\ UNCHANGED <<arrivals, eventVars, device, serverEvent, monitorEvent,
                   server, count, pipe, waitFor>>

\* fail8.
UndoDevice ==
    /\ MainAt("undoDevice", "undoMonitor")
    /\ deviceThread \in Ended
    /\ deviceThread' = "none" /\ deviceEvent' = FALSE
    /\ UNCHANGED <<presence, arrivals, eventVars, device, serverEvent,
                   monitorEvent, server, monitorThread, lock, pipeVars,
                   waitFor>>

\* fail6 signals the handle of the thread where it means MonitorEvent, so that
\* the thread runs as long as its executable can be started.  Then fail4 to
\* fail2.
UndoMonitor ==
    /\ main = "undoMonitor" /\ main' \in {"wait", "crashed"}
    /\ monitorThread \in Ended
    /\ monitorThread' = "none"
    /\ lock' = FALSE
    /\ list' = {}
    /\ device' = "closed"
    /\ UNCHANGED <<presence, arrivals, eventVars, serverEvent, deviceEvent,
                   monitorEvent, server, deviceThread, count, pipe, waitFor>>

Unlocked == deviceThread # "write"

\* MonitorWaitForPipeThreads copies as many handles as ListCount says; malloc
\* may fail.
Collect ==
    /\ Unlocked
    /\ \/ /\ count # 0
          /\ MainAt("collect", "beginWait")
          /\ \E s \in SUBSET list :
                /\ Cardinality(s) = IF count < Cardinality(list) THEN count
                                    ELSE Cardinality(list)
                /\ waitFor' = s
          /\ count' = 0
       \/ /\ MainAt("collect", "joinServer")
          /\ UNCHANGED <<count, waitFor>>
    /\ UNCHANGED <<presence, arrivals, eventVars, device, threadVars, lock,
                   list, pipe>>

\* WaitForMultipleObjects fails at once without a handle, or with more than it
\* can wait for; and it may if one of the threads has closed its own already,
\* or if the server thread has yet to store the one CreateThread returned.
BeginWait ==
    /\ \/ /\ waitFor # {} /\ Cardinality(waitFor) <= MaxWait
          /\ MainAt("beginWait", "waitPipes") /\ UNCHANGED waitFor
       \/ /\ \/ waitFor = {} \/ Cardinality(waitFor) > MaxWait
             \/ server = "listen" \/ \E c \in waitFor : pipe[c] = "gone"
          /\ MainAt("beginWait", "joinServer")
          /\ waitFor' = {}
    /\ UNCHANGED <<presence, arrivals, eventVars, device, threadVars, lock,
                   pipeVars>>

WaitPipes ==
    /\ MainAt("waitPipes", "joinServer")
    /\ \A c \in waitFor : pipe[c] = "gone"
    /\ waitFor' = {}
    /\ UNCHANGED <<presence, arrivals, eventVars, device, threadVars, lock,
                   pipeVars>>

\* Each thread is told to end by the join before its own.
JoinServer ==
    /\ MainAt("joinServer", "joinDevice")
    /\ server \in Ended
    /\ deviceEvent' = TRUE
    /\ UNCHANGED <<presence, arrivals, eventVars, device, serverEvent,
                   monitorEvent, server, deviceThread, monitorThread, lock,
                   pipeVars, waitFor>>

JoinDevice ==
    /\ MainAt("joinDevice", "joinMonitor")
    /\ deviceThread \in Ended
    /\ monitorEvent' = TRUE
    /\ UNCHANGED <<presence, arrivals, eventVars, device, serverEvent,
                   deviceEvent, server, deviceThread, monitorThread, lock,
                   pipeVars, waitFor>>

\* Then the events are closed, DeleteCriticalSection and
\* UnregisterDeviceNotification.
JoinMonitor ==
    /\ MainAt("joinMonitor", "farewell")
    /\ monitorThread \in Ended
    /\ server' = "none" /\ deviceThread' = "none" /\ monitorThread' = "none"
    /\ serverEvent' = FALSE /\ deviceEvent' = FALSE /\ monitorEvent' = FALSE
    /\ lock' = FALSE
    /\ UNCHANGED <<presence, arrivals, eventVars, device, pipeVars, waitFor>>

CloseDevice ==
    /\ MainAt("farewell", "wait")
    /\ device' = "closed"
    /\ UNCHANGED <<presence, arrivals, eventVars, threadVars, lock, pipeVars,
                   waitFor>>

-----------------------------------------------------------------------------
(* ServerThread, MonitorThread and DeviceThread                            *)

\* A client connects, unless the event is set; CreateNamedPipe may fail.
ServerStep ==
    /\ server = "listen"
    /\ \/ server' = "ended" /\ UNCHANGED pipe
       \/ /\ ~serverEvent
          /\ \E c \in Clients :
                /\ \A d \in Clients : pipe[d] = "none" <=> d >= c
                /\ pipe' = [pipe EXCEPT ![c] = "insert"]
          /\ UNCHANGED server
    /\ UNCHANGED <<presence, arrivals, eventVars, main, device, serverEvent,
                   deviceEvent, monitorEvent, deviceThread, monitorThread, lock,
                   list, count, waitFor>>

\* The executable is started again whenever it exits, until the event is set,
\* when it is terminated; without one, or if CreateProcess fails, the thread
\* ends.
MonitorStep ==
    /\ monitorThread = "run"
    /\ monitorThread' = "ended"
    /\ monitorEvent' = FALSE
    /\ UNCHANGED <<presence, arrivals, eventVars, main, device,
                   serverEvent, deviceEvent, server, deviceThread, lock,
                   pipeVars, waitFor>>

DeviceGoto(l) ==
    /\ deviceThread' = l
    /\ UNCHANGED <<presence, arrivals, eventVars, main, device, serverEvent,
                   deviceEvent, monitorEvent, server, monitorThread,
                   lock, pipeVars, waitFor>>

\* The event is set, or the read fails: the device has gone, or has left D0
\* and with it all that was open.
DeviceStep ==
    /\ deviceThread = "read"
    /\ DeviceGoto("ended")

\* The clients on the list have room for what was written, or are gone.
Delivered ==
    /\ deviceThread = "write"
    /\ DeviceGoto("read")

Output ==
    /\ deviceThread = "read" /\ ~deviceEvent /\ presence # "absent"
    /\ DeviceGoto("write")

-----------------------------------------------------------------------------
(* PipeThread                                                              *)

\* --ListCount of a DWORD.
Decrement(n) == (n + CountModulus - 1) % CountModulus

InsertPipe(c) ==
    /\ pipe[c] = "insert"
    /\ pipe' = [pipe EXCEPT ![c] = "read"]
    /\ list' = list \cup {c}
    /\ count' = (count + 1) % CountModulus

\* The client has gone, or ServerEvent is set.
ReadEnds(c) ==
    /\ pipe[c] = "read"
    /\ pipe' = [pipe EXCEPT ![c] = "leave"]
    /\ UNCHANGED <<list, count>>

\* What the client writes is put to the device, which may have no room for it.
Input(c) ==
    /\ ~serverEvent
    /\ pipe[c] = "read"
    /\ pipe' = [pipe EXCEPT ![c] = "put"]
    /\ UNCHANGED <<list, count>>

\* The device has taken it, or the write failed.
InputDone(c) ==
    /\ pipe[c] = "put"
    /\ pipe' = [pipe EXCEPT ![c] = "read"]
    /\ UNCHANGED <<list, count>>

\* A thread left over from an earlier attachment unlinks itself from a list
\* that has been initialised since: which of the pipes that other threads
\* have linked it leaves there is arbitrary.
Linked == {c \in Clients : pipe[c] \in {"read", "put", "leave"}}

RemovePipe(c) ==
    /\ pipe[c] = "leave"
    /\ pipe' = [pipe EXCEPT ![c] = "flush"]
    /\ IF c \in list THEN list' = list \ {c}
                     ELSE list' \in SUBSET (Linked \ {c})
    /\ count' = Decrement(count)

\* FlushFileBuffers waits for the client to read or to go away.
ClosePipe(c) ==
    /\ pipe[c] = "flush"
    /\ pipe' = [pipe EXCEPT ![c] = "gone"]
    /\ UNCHANGED <<list, count>>

\* Without an event of its own the thread ends and leaves the pipe open, which
\* nobody else looks at: it is not on the list.
LosePipe(c) ==
    /\ pipe[c] = "insert"
    /\ pipe' = [pipe EXCEPT ![c] = "gone"]
    /\ UNCHANGED <<presence, arrivals, eventVars, main, device, threadVars,
                   lock, list, count, waitFor>>

PipeStep(c) ==
    /\ \/ lock /\ Unlocked /\ (InsertPipe(c) \/ RemovePipe(c))
       \/ ~lock /\ RemovePipe(c)
       \/ (serverEvent \/ ~lock) /\ ReadEnds(c)
    /\ UNCHANGED <<presence, arrivals, eventVars, main, device, threadVars,
                   lock, waitFor>>

PipeWrites(c) ==
    /\ Input(c) \/ InputDone(c) \/ ClosePipe(c)
    /\ UNCHANGED <<presence, arrivals, eventVars, main, device, threadVars,
                   lock, waitFor>>

\* EnterCriticalSection of one that was deleted may also end the service, and
\* so does an insertion in the list that was zeroed with it.
Crash ==
    /\ ~lock
    /\ \E c \in Clients : pipe[c] \in {"insert", "leave"}
    /\ main \notin {"stopped", "crashed"}
    /\ main' = "crashed"
    /\ UNCHANGED <<presence, arrivals, eventVars, device, threadVars, lock,
                   pipeVars, waitFor>>

ClientLeaves(c) ==
    /\ ReadEnds(c)
    /\ UNCHANGED <<presence, arrivals, eventVars, main, device,
                   threadVars, lock, waitFor>>

-----------------------------------------------------------------------------

MainStep ==
    \/ Wake
    \/ OpenDevice \/ Attach \/ NothingToAdd \/ AddFails \/ AddFailsLate
    \/ UndoDevice \/ UndoMonitor
    \/ Collect \/ BeginWait \/ WaitPipes
    \/ JoinServer \/ JoinDevice \/ JoinMonitor \/ CloseDevice

Running == main \notin {"stopped", "crashed"}

Next ==
    \/ Running /\ (\/ Arrive \/ QueryRemove \/ CancelRemove \/ Depart \/ Stop
                   \/ MainStep
                   \/ ServerStep \/ MonitorStep
                   \/ DeviceStep \/ Output \/ Delivered
                   \/ Crash
                   \/ \E c \in Clients :
                         \/ PipeStep(c) \/ PipeWrites(c)
                         \/ LosePipe(c) \/ ClientLeaves(c))
    \/ ~Running /\ UNCHANGED vars

Spec == Init /\ [][Next]_vars

\* The service's threads run, and one that waits for the critical section
\* gets it although the device thread takes it again and again.  That a write
\* ends is not assumed here: a client need not read, nor the device take, what
\* it is sent.
Fairness ==
    /\ SF_vars(Running /\ MainStep /\ main \notin {"greet", "farewell"})
    /\ WF_vars(Running /\ serverEvent /\ ServerStep)
    /\ WF_vars(Running /\ monitorEvent /\ MonitorStep)
    /\ WF_vars(Running /\ (deviceEvent \/ presence = "absent") /\ DeviceStep)
    /\ \A c \in Clients : SF_vars(Running /\ PipeStep(c))

FairSpec == Spec /\ Fairness

-----------------------------------------------------------------------------
(* Properties                                                              *)

\* Every variable has its type.
TypeOK ==
    /\ presence \in {"absent", "present", "missed", "leaving"}
    /\ arrivals \in 0 .. MaxArrivals
    /\ {stopEvent, addEvent, removeEvent, serverEvent, deviceEvent,
        monitorEvent, lock} \subseteq BOOLEAN
    /\ main \in MainPC
    /\ device \in {"closed", "open"}
    /\ server \in {"none", "listen", "ended"}
    /\ deviceThread \in {"none", "read", "write", "ended"}
    /\ monitorThread \in {"none", "run", "ended"}
    /\ list \subseteq Clients /\ waitFor \subseteq Clients
    /\ count \in 0 .. CountModulus - 1
    /\ pipe \in [Clients -> PipePC]

\* The device thread writes only to pipes that are open, although every pipe
\* thread closes its own; the critical section and the events outlive the
\* server, the device and the monitor thread, which MonitorRemove joins, and no
\* executable outlives them.  A pipe thread that was not waited for may find
\* neither: see Crash.
ThreadsUseWhatIsThere ==
    /\ deviceThread = "write" => \A c \in list : Open(c)
    /\ ~lock => server \in Ended /\ deviceThread \in Ended
    /\ device = "closed" => monitorThread \in Ended

\* "The device may already by present" when the service starts
\* (monitor.c:1306), or may arrive later: either way the service attaches to
\* a device that stays, also after an attempt that failed.  The exceptions are
\* one that comes back, or stays after all, too soon, and the one at which an
\* attempt failed: it is not tried again.
PresentIsAttached ==
    presence = "present" ~>
        device = "open" \/ presence # "present" \/ stopEvent \/ ~Running

\* No write of the service waits for ever for a client that does not read, as
\* tty.c:416 does not, or for a device that takes nothing more.
WritesEnd ==
    /\ []<>(main \notin {"greet", "farewell"})
    /\ []<>(deviceThread # "write")
    /\ \A c \in Clients : []<>(pipe[c] \notin {"put", "flush"})

\* A service told to stop does stop, as long as its writes end, unless a pipe
\* thread it did not wait for brings it down.  The exception is a service
\* that waits, in the error path of MonitorAdd, for a monitor thread that it
\* has not told to end (monitor.c:946).
StopEnds ==
    WritesEnd => (stopEvent ~> (~Running \/ main = "undoMonitor"))

=============================================================================
