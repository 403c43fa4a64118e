------------------------------- MODULE Session -------------------------------
(***************************************************************************)
(* A session on the console: the monitor service (Service), the client it  *)
(* keeps running (Tty), and the two pipes between them (PipeThread and     *)
(* DeviceThread of src/src/monitor/monitor.c).  The client opens the pipe  *)
(* twice, to read and to write, and the service has an instance and a      *)
(* thread for each.                                                        *)
(*                                                                         *)
(* DeviceThread writes what is typed to every instance, the one the client *)
(* only writes to as well, where nobody reads it.  Monitor has the rest of *)
(* the service: the arrival and departure of the device, the count of the  *)
(* pipes, and what becomes of pipe threads that nobody waited for.         *)
(***************************************************************************)
EXTENDS Service, Tty

CONSTANTS
    Scenes,     \* which of "line", "stop", "install" and "all" to look at
    MaxTyped    \* bound on the keys under way and in the line

ASSUME SessionAssumption ==
    /\ Scenes \subseteq {"line", "stop", "install", "all"}
    /\ MaxTyped \in Nat

Pipes == {"in", "out"}

VARIABLES
    scene,      \* a bound: in "line" nobody stops or removes anything and
                \* the server thread does not fail, in "stop" the device is to
                \* be removed once while the service runs, lines of one
                \* character are typed, key by key, and the child writes
                \* nothing, in "install" the client does not run, and in "all"
                \* everything may happen
    serverThread, deviceThread, monitorThread,
    pipe,       \* where the thread of each instance is
    input,      \* what the client has not yet read from "in"
    backlog,    \* something was written to "out", where it is not read
    waitFor     \* the threads MonitorWaitForPipeThreads waits for

threadVars == <<serverThread, deviceThread, monitorThread>>
pipeVars == <<pipe, input, backlog, waitFor, scene>>
vars == <<serviceVars, ttyVars, threadVars, pipeVars>>

-----------------------------------------------------------------------------
(* Mistakes the runs must notice; see "mutants" in PROJECT.json.           *)

EventSetLate == main \in {"device", "monitor"}

-----------------------------------------------------------------------------

Attached == monitorThread # "none"

\* The events MonitorRemove sets, in this order.
ServerEvent ==
    main \in {"collect", "begin", "pipes", "server", "device", "monitor"}

DeviceEvent == main \in {"device", "monitor"}

MonitorEvent == main = "monitor"

\* The pipes on ListHead.
List == {i \in Pipes : pipe[i] \in {"read", "put", "leave"}}

\* The device thread holds the critical section while it writes.
Unlocked == deviceThread # "write"

\* The client has the handle of its end.
Connected(i) == tty \notin {"none", "openIn"} /\ (i = "out" => tty # "openOut")

\* What the client writes to "out" comes to the console, sooner or later.
Shown == pipe["out"] \in {"insert", "read", "put"}

-----------------------------------------------------------------------------

Typing(k) ==
    IF scene = "stop"
    THEN /\ k = IF typed = <<>> THEN "char" ELSE "cr"
         /\ input = <<>> /\ chunk = <<>>
    ELSE Len(input) + Len(chunk) + Len(typed) < MaxTyped

Init ==
    /\ scene \in Scenes
    /\ ServiceInit /\ TtyInit
    /\ serverThread = "none" /\ deviceThread = "none" /\ monitorThread = "none"
    /\ pipe = [i \in Pipes |-> "none"]
    /\ input = <<>> /\ backlog = FALSE /\ waitFor = {}

-----------------------------------------------------------------------------
(* MonitorAdd and MonitorRemove                                            *)

Attach ==
    /\ main = "loop" /\ ~stopEvent
    /\ ~Attached /\ devnode
    /\ serverThread' = "listen" /\ monitorThread' = "start"
    /\ deviceThread' \in {"read", "ended"}
    /\ UNCHANGED <<serviceVars, ttyVars, pipeVars>>

RemoveGoes(from, to) ==
    /\ MainGoes(from, to)
    /\ UNCHANGED <<installVars, status, rung, held, stopEvent, ttyVars, pipe,
                   input, backlog, scene>>

\* To stop, or because the device goes.
BeginRemove ==
    /\ stopEvent \/ ~devnode
    /\ IF Attached THEN RemoveGoes("loop", "collect")
       ELSE stopEvent /\ RemoveGoes("loop", "done")
    /\ UNCHANGED <<threadVars, waitFor>>

Collect ==
    /\ Unlocked
    /\ RemoveGoes("collect", IF List = {} THEN "server" ELSE "begin")
    /\ waitFor' = List
    /\ UNCHANGED threadVars

\* The wait fails at once if one of the handles was closed already.
BeginWait ==
    /\ \/ RemoveGoes("begin", "pipes")
       \/ /\ \E i \in waitFor : pipe[i] = "none"
          /\ RemoveGoes("begin", "server")
    /\ UNCHANGED <<threadVars, waitFor>>

Join ==
    /\ \/ /\ RemoveGoes("pipes", "server")
          /\ \A i \in waitFor : pipe[i] = "none"
       \/ RemoveGoes("server", "device") /\ serverThread = "ended"
       \/ RemoveGoes("device", "monitor") /\ deviceThread = "ended"
    /\ waitFor' = {}
    /\ UNCHANGED threadVars

JoinMonitor ==
    /\ RemoveGoes("monitor", "loop")
    /\ monitorThread = "ended"
    /\ serverThread' = "none" /\ deviceThread' = "none"
    /\ monitorThread' = "none"
    /\ UNCHANGED waitFor

Report ==
    /\ Done
    /\ UNCHANGED <<ttyVars, threadVars, pipeVars>>

\* The program ends, and its pipes with it.
End ==
    /\ Release
    /\ pipe' = [i \in Pipes |-> "none"]
    /\ input' = <<>> /\ backlog' = FALSE
    /\ UNCHANGED <<ttyVars, threadVars, waitFor, scene>>

-----------------------------------------------------------------------------
(* MonitorThread, ServerThread and DeviceThread                            *)

\* Without an executable, or if CreateProcess fails, the thread ends.
StartProcess ==
    /\ monitorThread = "start"
    /\ \/ /\ "Executable" \in held /\ scene # "install"
          /\ Begin
          /\ monitorThread' = "wait"
       \/ monitorThread' = "ended" /\ UNCHANGED ttyVars
    /\ UNCHANGED <<serviceVars, serverThread, deviceThread, pipeVars>>

WaitProcess ==
    /\ monitorThread = "wait"
    /\ \/ MonitorEvent /\ Exit /\ monitorThread' = "ended"
       \/ /\ ~MonitorEvent /\ tty = "none"
          /\ monitorThread' = "start" /\ UNCHANGED ttyVars
    /\ UNCHANGED <<serviceVars, serverThread, deviceThread, pipeVars>>

\* CreateNamedPipe or the thread of a pipe may fail before the event is set.
ServerEnds ==
    /\ serverThread = "listen" /\ (scene = "line" => ServerEvent)
    /\ serverThread' = "ended"
    /\ UNCHANGED <<serviceVars, ttyVars, deviceThread, monitorThread, pipeVars>>

\* A key is typed: it is written to each pipe on the list, and the thread is
\* kept where what was not read before fills the buffer of "out".
DeviceWrites(k) ==
    /\ deviceThread = "read" /\ ~DeviceEvent
    /\ Typing(k)
    /\ IF "in" \in List THEN input' = Append(input, k) ELSE UNCHANGED input
    /\ \/ deviceThread' = "read" /\ backlog' = (backlog \/ "out" \in List)
       \/ /\ "out" \in List /\ backlog
          /\ deviceThread' = "write" /\ UNCHANGED backlog
    /\ UNCHANGED <<serviceVars, ttyVars, serverThread, monitorThread, pipe,
                   waitFor, scene>>

\* The write fails once the other end is closed; a read, if the device goes.
DeviceGoesOn ==
    /\ \/ /\ deviceThread = "write" /\ ~Connected("out")
          /\ deviceThread' = "read"
       \/ /\ deviceThread = "read" /\ (DeviceEvent \/ ~devnode)
          /\ deviceThread' = "ended"
    /\ UNCHANGED <<serviceVars, ttyVars, serverThread, monitorThread, pipeVars>>

-----------------------------------------------------------------------------
(* PipeThread                                                              *)

PipeGoes(i, from, to) ==
    /\ pipe[i] = from
    /\ pipe' = [pipe EXCEPT ![i] = to]
    /\ UNCHANGED <<serviceVars, ttyVars, threadVars, waitFor, scene>>

\* FlushFileBuffers, before the pipe is disconnected, waits for the client to
\* read what was written or to close its handle.
Flushed(i) ==
    \/ ~Connected(i)
    \/ IF i = "in" THEN input = <<>> ELSE ~backlog

PipeStep(i) ==
    \/ /\ \/ Unlocked /\ PipeGoes(i, "insert", "read")
          \/ PipeGoes(i, "read", "leave") /\ (ServerEvent \/ ~Connected(i))
          \/ Unlocked /\ PipeGoes(i, "leave", "flush")
       /\ UNCHANGED <<input, backlog>>
    \/ /\ PipeGoes(i, "flush", "none") /\ Flushed(i)
       /\ input' = IF i = "in" THEN <<>> ELSE input
       /\ backlog' = (i # "out" /\ backlog)

\* What the client has written is put to the device, and the thread looks at
\* nothing else until the device has taken it; where nobody stops the service
\* that makes no difference.
PutString(i) ==
    /\ i = "out" /\ scene # "line"
    /\ \/ PipeGoes(i, "read", "put") /\ ~ServerEvent /\ Connected(i)
       \/ PipeGoes(i, "put", "read")
    /\ UNCHANGED <<input, backlog>>

-----------------------------------------------------------------------------
(* The client, with its ends of the pipes                                  *)

\* A client that finds no instance that listens exits.
Open(i, from, to) ==
    /\ \/ /\ serverThread = "listen" /\ ~ServerEvent /\ pipe[i] = "none"
          /\ OpenPipe(from, to)
          /\ pipe' = [pipe EXCEPT ![i] = "insert"]
       \/ tty = from /\ Exit /\ UNCHANGED pipe
    /\ UNCHANGED <<input, backlog>>

Read ==
    \/ /\ input # <<>>
       /\ ReadChunk(input)
       /\ input' = <<>>
    \/ /\ pipe["in"] = "none"
       /\ ReadFails
       /\ UNCHANGED input

TtyIn == TakeKey(Shown) \/ EndLine \/ WriteLine

TtyOut ==
    \/ scene # "stop" /\ Output(Shown)
    \/ pipe["out"] = "none" /\ OutputFails

TtyStep ==
    /\ \/ Open("in", "openIn", "openOut")
       \/ Open("out", "openOut", "login")
       \/ Read /\ UNCHANGED <<pipe, backlog>>
       \/ /\ TtyIn \/ ChildGone
          /\ UNCHANGED <<pipe, input, backlog>>
    /\ UNCHANGED <<serviceVars, threadVars, waitFor, scene>>

ChildStep ==
    /\ ChildReads \/ ChildExits \/ TtyOut
    /\ UNCHANGED <<serviceVars, threadVars, pipeVars>>

-----------------------------------------------------------------------------

ServiceStep ==
    /\ \/ Start \/ Climb \/ InstallDevice \/ DeviceInstalled
       \/ scene = "stop" /\ main = "loop" /\ RemoveDevice
       \/ scene # "line" /\ (RemoveService \/ Forget)
       \/ /\ scene \in {"install", "all"}
          /\ \/ Fall \/ Stop \/ OtherControl
             \/ RemoveDevice \/ DeviceRemoved
             \/ CreateCommand \/ DeleteCommand \/ DeleteByCommand
    /\ UNCHANGED <<ttyVars, threadVars, pipeVars>>

RemoveStep ==
    \/ BeginRemove \/ Collect \/ BeginWait \/ Join \/ JoinMonitor
    \/ Report \/ End

Next ==
    \/ ServiceStep
    \/ Attach \/ RemoveStep
    \/ StartProcess \/ WaitProcess \/ ServerEnds
    \/ (\E k \in Keys : DeviceWrites(k)) \/ DeviceGoesOn
    \/ (\E i \in Pipes : PipeStep(i) \/ PutString(i))
    \/ TtyStep \/ ChildStep

Spec == Init /\ [][Next]_vars

\* The threads and the client run, one that waits for the critical section gets
\* it although DeviceThread takes it again, both MonitorDelete go on, the manager
\* forgets a stopped service whenever the last handle to it is closed, and the
\* child reads what it is sent or exits.  That the device takes what PutString
\* writes is not assumed; the client may have to wait for it as well.
Fairness ==
    /\ SF_vars(RemoveStep)
    /\ SF_vars(Forget /\ UNCHANGED <<ttyVars, threadVars, pipeVars>>)
    /\ WF_vars((RemoveService \/ DeleteByCommand)
                  /\ UNCHANGED <<ttyVars, threadVars, pipeVars>>)
    /\ WF_vars(StartProcess \/ WaitProcess)
    /\ WF_vars(ServerEvent /\ ServerEnds)
    /\ WF_vars(DeviceGoesOn)
    /\ \A i \in Pipes : SF_vars(PipeStep(i))
    /\ SF_vars(pipe["out"] # "put" /\ TtyStep)
    /\ WF_vars(ChildReads /\ UNCHANGED <<serviceVars, threadVars, pipeVars>>)

FairSpec == Spec /\ Fairness

-----------------------------------------------------------------------------
(* Properties                                                              *)

\* When the manager has been told that the service stopped (MonitorMain at
\* "done" or at fail4), the client it kept running is gone, and so are its thread
\* and all that MonitorMain had made but for the event source and the key; when
\* the program ends, these too.  The exception is the name of the executable,
\* which no label frees.
StoppedLeavesNothing ==
    status = "stopped" =>
        /\ tty = "none" /\ monitorThread = "none"
        /\ held \subseteq HeldLast \cup {"Executable"}
        /\ main = "none" => held \subseteq {"Executable"}

\* A service that was told to stop and marked for deletion goes, and its
\* client with it, whatever the two were doing; unless DeviceThread is kept for
\* ever, with the critical section, in a write to the pipe nobody reads from, or
\* a pipe thread in a write to a device that takes nothing more.
RemovalEnds ==
    []<>Unlocked /\ []<>(pipe["out"] # "put")
        => (record = "marked" /\ (status \in {"stopped", "stopPending"} \/ stopEvent)
               ~> record = "absent" /\ tty = "none")

=============================================================================
