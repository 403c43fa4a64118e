------------------------------- MODULE Service -------------------------------
(***************************************************************************)
(* The life of the monitor service: how the co-installer                   *)
(* (src/src/coinst/coinst.c) and the program's own command line delete it, *)
(* and how MonitorMain and its control handler (src/src/monitor/monitor.c) *)
(* start, report and end it.  What the service does while it runs is in    *)
(* Session, and in more detail in Monitor.                                 *)
(*                                                                         *)
(* The service control manager and the class installer are external: the   *)
(* manager refuses a control to a service whose start or stop is pending,  *)
(* and forgets a deleted service once it has stopped and nobody has it     *)
(* open.                                                                   *)
(***************************************************************************)
EXTENDS Ladders

VARIABLES
    devnode,    \* the device is installed
    dif,        \* where the installation or removal of the device is, or the
                \* program's command "delete"; a bound, one at a time
    record,     \* of the service in the manager's database
    status,     \* of the service, as the manager has it
    main,       \* where MonitorMain is
    rung,       \* the calls of its ladder that have succeeded
    held,       \* what it has made or opened
    stopEvent   \* StopEvent is set

installVars == <<devnode, dif, record>>
serviceVars == <<installVars, status, main, rung, held, stopEvent>>

MainGoes(from, to) == main = from /\ main' = to

-----------------------------------------------------------------------------
(* Mistakes the runs must notice; see "mutants" in PROJECT.json.           *)

LadderKeepsStop == <<
    Rung("RegOpenKeyEx", {"ParametersKey"}, {}),
    Rung("RegisterServiceCtrlHandlerEx", {}, {"ParametersKey"}),
    Rung("RegisterEventSource", {"EventLog"}, {}),
    Rung("CreateEvent", {"StopEvent"}, {"EventLog"}),
    Rung("CreateEvent", {"AddEvent"}, {}),
    Rung("CreateEvent", {"RemoveEvent"}, {"AddEvent"}),
    Rung("GetExecutable", {"Executable"}, {}),
    Rung("RegisterDeviceNotification", {"InterfaceNotification"},
         {"RemoveEvent"}) >>

-----------------------------------------------------------------------------
(* MonitorMain.  GetExecutable may fail; its label is not on the ladder.   *)

MainLadder == <<
    Rung("RegOpenKeyEx", {"ParametersKey"}, {}),
    Rung("RegisterServiceCtrlHandlerEx", {}, {"ParametersKey"}),
    Rung("RegisterEventSource", {"EventLog"}, {}),
    Rung("CreateEvent", {"StopEvent"}, {"EventLog"}),
    Rung("CreateEvent", {"AddEvent"}, {"StopEvent"}),
    Rung("CreateEvent", {"RemoveEvent"}, {"AddEvent"}),
    Rung("GetExecutable", {"Executable"}, {}),
    Rung("RegisterDeviceNotification", {"InterfaceNotification"},
         {"RemoveEvent"}) >>

ServiceInit ==
    /\ devnode = FALSE /\ dif = "idle"
    /\ record = "absent" /\ status = "stopped"
    /\ main = "none" /\ rung = 0 /\ held = {}
    /\ stopEvent = FALSE

\* The manager starts the program, which calls StartServiceCtrlDispatcher; a
\* bound, once the one before has ended.
Start ==
    /\ record = "installed" /\ status = "stopped"
    /\ MainGoes("none", "climb")
    /\ status' = "startPending"
    /\ rung' = 0 /\ held' = {} /\ stopEvent' = FALSE
    /\ UNCHANGED installVars

Climb ==
    /\ rung < Len(MainLadder)
    /\ rung' = rung + 1
    /\ \/ held' = Climbed(MainLadder, rung', held)
       \/ MainLadder[rung'].step = "GetExecutable" /\ UNCHANGED held
    /\ IF rung' = Len(MainLadder)
       THEN MainGoes("climb", "loop") /\ status' = "running"
       ELSE main = "climb" /\ UNCHANGED <<main, status>>
    /\ UNCHANGED <<installVars, stopEvent>>

\* What MonitorMain gives back only after its report that the service stopped.
HeldLast == {"EventLog", "ParametersKey"}

\* fail4 reports that the service has stopped; the labels below it leave its
\* start pending.
Fall ==
    /\ rung < Len(MainLadder)
    /\ MainLadder[rung + 1].step # "GetExecutable"
    /\ IF rung >= 3
       THEN /\ MainGoes("climb", "reported") /\ status' = "stopped"
            /\ held' = held \ (Unwound(MainLadder, rung + 1) \ HeldLast)
       ELSE /\ MainGoes("climb", "returned") /\ UNCHANGED status
            /\ held' = held \ Unwound(MainLadder, rung + 1)
    /\ rung' = 0
    /\ UNCHANGED <<installVars, stopEvent>>

\* "done", once MonitorRemove has returned.
Done ==
    /\ MainGoes("done", "reported")
    /\ rung' = 0 /\ held' = HeldLast
    /\ status' = "stopped"
    /\ UNCHANGED <<installVars, stopEvent>>

\* DeregisterEventSource and CloseHandle, and the program ends.
Release ==
    /\ MainGoes("reported", "none")
    /\ held' = held \ HeldLast
    /\ UNCHANGED <<installVars, status, rung, stopEvent>>

-----------------------------------------------------------------------------
(* MonitorCtrlHandlerEx.                                                   *)

StopControl ==
    /\ status' = "stopPending"
    /\ stopEvent' = TRUE

\* SERVICE_CONTROL_STOP or _SHUTDOWN, from anybody.
Stop ==
    /\ status = "running"
    /\ StopControl
    /\ UNCHANGED <<installVars, main, rung, held>>

\* A control that is not handled, such as the change of session it accepts,
\* is answered with the report that the service is running.
OtherControl ==
    /\ status \in {"running", "stopPending"}
    /\ status' = "running"
    /\ UNCHANGED <<installVars, main, rung, held, stopEvent>>

-----------------------------------------------------------------------------
(* The two MonitorDelete: only the co-installer's does without the stop of *)
(* a service that is not active.  Neither waits for the service to stop.   *)

ControlService(notActive) ==
    \/ status = "running" /\ StopControl
    \/ /\ status = "stopped" /\ notActive
       /\ UNCHANGED <<status, stopEvent>>

\* ControlService fails, or the calls before it; nothing is deleted.
CannotControl(notActive) ==
    \/ record = "absent"
    \/ status \in {"startPending", "stopPending"}
    \/ status = "stopped" /\ ~notActive

\* A service that is already marked cannot be deleted again.
DeleteService ==
    record' = IF record = "installed" THEN "marked" ELSE record

\* DIF_INSTALLDEVICE with a driver: the co-installer asks to be called again
\* afterwards.
InstallDevice ==
    /\ dif = "idle" /\ ~devnode
    /\ dif' = "install"
    /\ UNCHANGED <<devnode, record, status, main, rung, held,
                   stopEvent>>

\* The class installer adds the service, unless it is there already.
DeviceInstalled ==
    /\ dif = "install"
    /\ dif' = "idle"
    /\ \/ /\ record # "marked"
          /\ devnode' = TRUE /\ record' = "installed"
       \/ UNCHANGED <<devnode, record>>
    /\ UNCHANGED <<status, main, rung, held, stopEvent>>

\* DIF_REMOVE, or DIF_INSTALLDEVICE without a driver: DifRemovePreProcess
\* deletes the service, whatever comes of it.
RemoveDevice ==
    /\ dif = "idle" /\ devnode
    /\ \/ /\ record # "absent" /\ ControlService(TRUE)
          /\ dif' = "delete"
       \/ /\ CannotControl(TRUE)
          /\ dif' = "remove" /\ UNCHANGED <<status, stopEvent>>
    /\ UNCHANGED <<devnode, record, main, rung, held>>

RemoveService ==
    /\ dif = "delete"
    /\ dif' = "remove"
    /\ DeleteService
    /\ UNCHANGED <<devnode, status, main, rung, held, stopEvent>>

\* The class installer removes the device, or fails; either is success to
\* the co-installer.
DeviceRemoved ==
    /\ dif = "remove"
    /\ dif' = "idle"
    /\ devnode' \in BOOLEAN
    /\ UNCHANGED <<record, status, main, rung, held, stopEvent>>

\* "xencons_monitor create": MonitorCreate.
CreateCommand ==
    /\ dif = "idle" /\ record = "absent"
    /\ record' = "installed"
    /\ UNCHANGED <<devnode, dif, status, main, rung, held, stopEvent>>

\* "xencons_monitor delete".
DeleteCommand ==
    /\ dif = "idle"
    /\ record # "absent" /\ ControlService(FALSE)
    /\ dif' = "command"
    /\ UNCHANGED <<devnode, record, main, rung, held>>

DeleteByCommand ==
    /\ dif = "command"
    /\ dif' = "idle"
    /\ DeleteService
    /\ UNCHANGED <<devnode, status, main, rung, held, stopEvent>>

\* The manager forgets the service.
Forget ==
    /\ record = "marked" /\ status = "stopped"
    /\ dif \notin {"delete", "command"}
    /\ record' = "absent"
    /\ UNCHANGED <<devnode, dif, status, main, rung, held, stopEvent>>


=============================================================================
