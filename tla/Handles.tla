------------------------------- MODULE Handles -------------------------------
(***************************************************************************)
(* The open handles of the console device (src/src/xencons/fdo.c).         *)
(*                                                                         *)
(* Each IRP_MJ_CREATE makes an FDO_HANDLE with a stream of its own and     *)
(* links it under HandleLock; READ, WRITE and CLEANUP look it up under the *)
(* lock and use it after the lock is released; leaving D0 splices the list *)
(* away and destroys every handle on it, whoever may still have found one. *)
(*                                                                         *)
(* Nothing in the driver keeps these apart and nothing here does: what     *)
(* uses freed memory, or the private list of FdoDestroyAllHandles while    *)
(* it changes, is "broken", and what follows is no longer modelled.        *)
(*                                                                         *)
(* A handle belongs to one file object and is named by it.  The stream     *)
(* behind it (module Stream) appears here as the IRP it may hold and as    *)
(* StreamDestroy, which completes that IRP and then frees the stream.      *)
(***************************************************************************)
EXTENDS Naturals

CONSTANTS
    Files,          \* the file objects opened on the device
    CreateFaults    \* which steps of FdoCreateHandle may fail

ASSUME FaultAssumption ==
    CreateFaults \subseteq {"handle", "streamMemory", "streamThread"}

VARIABLES
    file,       \* the I/O manager's view of each file object
    create,     \* where FdoCreateHandle is, for each file object
    cleanup,    \* where FdoDispatchCleanup is, for each file object
    irp,        \* the READ or WRITE of each file object
    handle,     \* the FDO_HANDLE of each file object
    stream,     \* Handle->Stream
    destroys,   \* how often StreamDestroy was called on that stream
    power,      \* where FdoD3ToD0, FdoDestroyAllHandles and FdoDestroy are
    removal,    \* how FdoRemoveDevice went about it, once it was called
    late,       \* history: handles linked since D0 was last left
    overtaken,  \* history: handles taken off a list while somebody else had
                \* found them
    broken      \* freed memory, or a list under change, was used

vars == <<file, create, cleanup, irp, handle, stream, destroys, power,
          removal, late, overtaken, broken>>

FileState == {"unopened", "opening", "open", "closing", "cleaned", "closed"}
CreateState == {"idle", "stream", "insert", "assert"}
CleanupState == {"idle", "unlink", "destroy"}
IrpState == {"none", "found", "queued", "completed", "refused"}

\* "doomed" handles are on the private list of FdoDestroyAllHandles, a
\* "popped" one is in its hands, "unlinked" ones in those of CLEANUP.
HandleState ==
    {"none", "private", "listed", "doomed", "popped", "unlinked", "freed"}
StreamState == {"null", "live", "drained", "dangling", "freed"}

\* "new" until the device is first started; "sweep", "pop" and "destroy" are
\* the loop of FdoDestroyAllHandles.
PowerState ==
    {"new", "D0", "sweep", "pop", "destroy", "D3", "assert", "deleted"}
RemovalState == {"none", "powered", "skipped"}

Init ==
    /\ file = [f \in Files |-> "unopened"]
    /\ create = [f \in Files |-> "idle"]
    /\ cleanup = [f \in Files |-> "idle"]
    /\ irp = [f \in Files |-> "none"]
    /\ handle = [f \in Files |-> "none"]
    /\ stream = [f \in Files |-> "null"]
    /\ destroys = [f \in Files |-> 0]
    /\ power = "new"
    /\ removal = "none"
    /\ late = {}
    /\ overtaken = {}
    /\ broken = FALSE

Listed == {f \in Files : handle[f] = "listed"}
Doomed == {f \in Files : handle[f] = "doomed"}

\* Somebody other than the one who destroys it has looked the handle up.
FoundByIo(f) == irp[f] = "found"
FoundByCleanup(f) == cleanup[f] = "unlink"

-----------------------------------------------------------------------------
(* Mistakes the runs must notice; see "mutants" in PROJECT.json.           *)

StreamFailureIgnored(f) ==
    /\ create[f] = "stream"
    /\ create' = [create EXCEPT ![f] = "insert"]
    /\ UNCHANGED <<file, cleanup, irp, handle, stream, destroys, power,
                   removal, late, overtaken, broken>>

FindWithoutMatch(f) ==
    /\ file[f] \in {"open", "closing", "cleaned"}
    /\ irp[f] \notin {"found", "queued"}
    /\ irp' = [irp EXCEPT ![f] = "found"]
    /\ UNCHANGED <<file, create, cleanup, handle, stream, destroys, power,
                   removal, late, overtaken, broken>>

DrainKeepsIrp(f) ==
    /\ stream[f] = "live"
    /\ stream' = [stream EXCEPT ![f] = "drained"]
    /\ destroys' = [destroys EXCEPT ![f] = @ + 1]
    /\ UNCHANGED <<file, create, irp, handle, removal, late, overtaken, broken>>

\* Only one entry is spliced away.
PowerDownKeepsOthers ==
    /\ power = "D0"
    /\ power' = "sweep"
    /\ removal' \in {"none", "powered"}
    /\ IF Listed = {} THEN UNCHANGED handle
       ELSE \E f \in Listed : handle' = [handle EXCEPT ![f] = "doomed"]
    /\ overtaken' = overtaken \cup
                      {f \in Listed : FoundByIo(f) \/ FoundByCleanup(f)}
    /\ late' = {}
    /\ UNCHANGED <<file, create, cleanup, irp, stream, destroys, broken>>

-----------------------------------------------------------------------------
(* FdoCreateHandle, for IRP_MJ_CREATE                                      *)

\* DevicePnpState is Deleted: Dispatch refuses whatever arrives.
Deleted == power \in {"assert", "deleted"}

\* The name of the device is known once its interface was enabled.  That the
\* interface is disabled later keeps nobody out who had looked it up before,
\* and nothing in the driver looks at the power state.
AllocateHandle(f) ==
    /\ power # "new"
    /\ ~Deleted
    /\ file[f] = "unopened"
    /\ \/ /\ file' = [file EXCEPT ![f] = "opening"]
          /\ create' = [create EXCEPT ![f] = "stream"]
          /\ handle' = [handle EXCEPT ![f] = "private"]
       \/ /\ "handle" \in CreateFaults
          /\ file' = [file EXCEPT ![f] = "closed"]
          /\ UNCHANGED <<create, handle>>
    /\ UNCHANGED <<cleanup, irp, stream, destroys, power, removal, late,
                   overtaken, broken>>

\* StreamCreate.  When it fails after its allocation it frees the stream and
\* leaves the pointer in the handle.
CreateStream(f) ==
    /\ create[f] = "stream"
    /\ \/ /\ create' = [create EXCEPT ![f] = "insert"]
          /\ stream' = [stream EXCEPT ![f] = "live"]
       \/ /\ "streamMemory" \in CreateFaults
          /\ create' = [create EXCEPT ![f] = "assert"]
          /\ UNCHANGED stream
       \/ /\ "streamThread" \in CreateFaults
          /\ create' = [create EXCEPT ![f] = "assert"]
          /\ stream' = [stream EXCEPT ![f] = "dangling"]
    /\ UNCHANGED <<file, cleanup, irp, handle, destroys, power, removal, late,
                   overtaken, broken>>

InsertHandle(f) ==
    /\ create[f] = "insert"
    /\ create' = [create EXCEPT ![f] = "idle"]
    /\ handle' = [handle EXCEPT ![f] = "listed"]
    /\ file' = [file EXCEPT ![f] = "open"]
    /\ late' = IF power = "D0" THEN late ELSE late \cup {f}
    /\ UNCHANGED <<cleanup, irp, stream, destroys, power, removal, overtaken,
                   broken>>

\* ASSERT(IsZeroMemory(Handle, sizeof (FDO_HANDLE))), and the handle is freed.
FreeFailedHandle(f) ==
    /\ create[f] = "assert"
    /\ create' = [create EXCEPT ![f] = "idle"]
    /\ handle' = [handle EXCEPT ![f] = "freed"]
    /\ file' = [file EXCEPT ![f] = "closed"]
    /\ UNCHANGED <<cleanup, irp, stream, destroys, power, removal, late,
                   overtaken, broken>>

-----------------------------------------------------------------------------
(* FdoDispatchReadWrite                                                    *)

\* A thread that has a reference to the file object may send a READ or WRITE
\* while another one closes the last handle to it.
FindForIo(f) ==
    /\ file[f] \in {"open", "closing", "cleaned"}
    /\ irp[f] \notin {"found", "queued"}
    /\ irp' = [irp EXCEPT ![f] = IF handle[f] = "listed" /\ ~Deleted
                                 THEN "found" ELSE "refused"]
    /\ UNCHANGED <<file, create, cleanup, handle, stream, destroys, power,
                   removal, late, overtaken, broken>>

\* StreamPutQueue(Handle->Stream).  On a stream that was drained the IRP
\* stays in line for ever.
QueueIo(f) ==
    /\ irp[f] = "found"
    /\ IF handle[f] = "freed"
       THEN broken' = TRUE /\ UNCHANGED irp
       ELSE irp' = [irp EXCEPT ![f] = "queued"] /\ UNCHANGED broken
    /\ UNCHANGED <<file, create, cleanup, handle, stream, destroys, power,
                   removal, late, overtaken>>

\* StreamWorker, or the cancellation of the IRP.
CompleteIo(f) ==
    /\ irp[f] = "queued"
    /\ stream[f] = "live"
    /\ irp' = [irp EXCEPT ![f] = "completed"]
    /\ UNCHANGED <<file, create, cleanup, handle, stream, destroys, power,
                   removal, late, overtaken, broken>>

-----------------------------------------------------------------------------
(* __FdoDestroyHandle, for CLEANUP and for FdoDestroyAllHandles            *)

\* StreamDestroy joins the worker and completes what is queued ...
DrainStream(f) ==
    /\ stream[f] = "live"
    /\ stream' = [stream EXCEPT ![f] = "drained"]
    /\ destroys' = [destroys EXCEPT ![f] = @ + 1]
    /\ irp' = [irp EXCEPT ![f] = IF @ = "queued" THEN "completed" ELSE @]
    /\ UNCHANGED <<file, create, handle, removal, late, overtaken, broken>>

\* ... and frees the stream, and then the handle goes.
FreeHandle(f) ==
    /\ stream[f] = "drained"
    /\ stream' = [stream EXCEPT ![f] = "freed"]
    /\ handle' = [handle EXCEPT ![f] = "freed"]
    /\ UNCHANGED <<create, irp, destroys, removal, late, overtaken, broken>>

-----------------------------------------------------------------------------
(* FdoDispatchCleanup and FdoDispatchClose                                 *)

\* The last handle of the file object was closed.  A file object whose
\* FDO_HANDLE went with D0 gets STATUS_UNSUCCESSFUL.
FindForCleanup(f) ==
    /\ file[f] = "open"
    /\ IF handle[f] = "listed" /\ ~Deleted
       THEN /\ cleanup' = [cleanup EXCEPT ![f] = "unlink"]
            /\ file' = [file EXCEPT ![f] = "closing"]
       ELSE /\ file' = [file EXCEPT ![f] = "cleaned"]
            /\ UNCHANGED cleanup
    /\ UNCHANGED <<create, irp, handle, stream, destroys, power, removal, late,
                   overtaken, broken>>

\* RemoveEntryList takes the handle off whatever list it is on.  One that
\* FdoDestroyAllHandles has taken in hand has no links any more; and the
\* private list is not protected by HandleLock, so that the two may change it
\* at the same time.
UnlinkHandle(f) ==
    /\ cleanup[f] = "unlink"
    /\ \/ /\ handle[f] \in {"listed", "doomed"}
          /\ cleanup' = [cleanup EXCEPT ![f] = "destroy"]
          /\ handle' = [handle EXCEPT ![f] = "unlinked"]
          /\ overtaken' = IF FoundByIo(f) THEN overtaken \cup {f}
                          ELSE overtaken
          /\ UNCHANGED broken
       \/ /\ \/ handle[f] \notin {"listed", "doomed"}
             \/ handle[f] = "doomed" /\ power = "pop"
          /\ broken' = TRUE
          /\ UNCHANGED <<cleanup, handle, overtaken>>
    /\ UNCHANGED <<file, create, irp, stream, destroys, power, removal, late>>

CleanupDestroys(f) ==
    /\ cleanup[f] = "destroy"
    /\ \/ DrainStream(f) /\ UNCHANGED cleanup
       \/ /\ FreeHandle(f)
          /\ cleanup' = [cleanup EXCEPT ![f] = "idle"]
          /\ file' = [file EXCEPT ![f] = "cleaned"]
    /\ UNCHANGED power

\* The I/O manager closes a file object when no IRP refers to it.
Close(f) ==
    /\ file[f] = "cleaned"
    /\ irp[f] \notin {"found", "queued"}
    /\ file' = [file EXCEPT ![f] = "closed"]
    /\ UNCHANGED <<create, cleanup, irp, handle, stream, destroys, power,
                   removal, late, overtaken, broken>>

-----------------------------------------------------------------------------
(* FdoD3ToD0, FdoD0ToD3 and the end of FdoRemoveDevice                     *)

PowerUp ==
    /\ power \in {"new", "D3"}
    /\ power' = "D0"
    /\ UNCHANGED <<file, create, cleanup, irp, handle, stream, destroys,
                   removal, late, overtaken, broken>>

\* FdoDestroyAllHandles splices the list, for a stop, a power-down or a
\* removal.
PowerDown ==
    /\ power = "D0"
    /\ power' = "sweep"
    /\ removal' \in {"none", "powered"}
    /\ handle' = [f \in Files |->
                    IF handle[f] = "listed" THEN "doomed" ELSE handle[f]]
    /\ overtaken' = overtaken \cup
                      {f \in Listed : FoundByIo(f) \/ FoundByCleanup(f)}
    /\ late' = {}
    /\ UNCHANGED <<file, create, cleanup, irp, stream, destroys, broken>>

\* while (!IsListEmpty(&List))
TestDoomed ==
    /\ power = "sweep"
    /\ power' = IF Doomed # {} THEN "pop"
                ELSE IF removal = "none" THEN "D3" ELSE "assert"
    /\ UNCHANGED <<file, create, cleanup, irp, handle, stream, destroys,
                   removal, late, overtaken, broken>>

\* RemoveHeadList.  A CLEANUP may have taken the last entry since the test:
\* ASSERT3P(ListEntry, !=, &List) fails, and List itself passes for a handle.
PopDoomed ==
    /\ power = "pop"
    /\ \/ \E f \in Doomed :
             /\ handle' = [handle EXCEPT ![f] = "popped"]
             /\ power' = "destroy"
             /\ UNCHANGED broken
       \/ /\ Doomed = {}
          /\ broken' = TRUE
          /\ UNCHANGED <<handle, power>>
    /\ UNCHANGED <<file, create, cleanup, irp, stream, destroys, removal, late,
                   overtaken>>

DestroyPopped ==
    /\ power = "destroy"
    /\ \E f \in Files :
          /\ handle[f] = "popped"
          /\ \/ DrainStream(f) /\ UNCHANGED power
             \/ FreeHandle(f) /\ power' = "sweep" /\ UNCHANGED file
    /\ UNCHANGED cleanup

\* FdoRemoveDevice leaves D0 only if the state before this one was Started.
RemoveWithoutPowerDown ==
    /\ power \in {"new", "D0", "D3"}
    /\ power' = "assert"
    /\ removal' = IF power = "D0" THEN "skipped" ELSE "powered"
    /\ UNCHANGED <<file, create, cleanup, irp, handle, stream, destroys, late,
                   overtaken, broken>>

\* FdoDestroy: ASSERT(IsListEmpty(&Fdo->HandleList)), and the FDO goes.
Delete ==
    /\ power = "assert"
    /\ power' = "deleted"
    /\ UNCHANGED <<file, create, cleanup, irp, handle, stream, destroys,
                   removal, late, overtaken, broken>>

-----------------------------------------------------------------------------

IoStep(f) == QueueIo(f) \/ CompleteIo(f)

DispatchStep(f) ==
    CreateStream(f) \/ InsertHandle(f) \/ FreeFailedHandle(f)
    \/ UnlinkHandle(f) \/ CleanupDestroys(f)

PowerStep == TestDoomed \/ PopDoomed \/ DestroyPopped \/ Delete

\* A dispatch routine that is still under way when the FDO is freed is the
\* subject of module Driver.
Over == broken \/ power = "deleted"

Step ==
    \/ \E f \in Files :
          \/ AllocateHandle(f) \/ FindForIo(f) \/ FindForCleanup(f)
          \/ IoStep(f) \/ DispatchStep(f) \/ Close(f)
    \/ PowerUp \/ PowerDown \/ RemoveWithoutPowerDown \/ PowerStep

Next ==
    \/ ~Over /\ Step
    \/ Over /\ UNCHANGED vars

Spec == Init /\ [][Next]_vars

\* Dispatch routines and FdoD0ToD3 run to their end.
Fairness ==
    /\ \A f \in Files :
          WF_vars(~Over /\ QueueIo(f)) /\ WF_vars(~Over /\ DispatchStep(f))
    /\ WF_vars(~Over /\ PowerStep)

FairSpec == Spec /\ Fairness

-----------------------------------------------------------------------------
(* Properties                                                              *)

\* Every variable has its type.
TypeOK ==
    /\ file \in [Files -> FileState]
    /\ create \in [Files -> CreateState]
    /\ cleanup \in [Files -> CleanupState]
    /\ irp \in [Files -> IrpState]
    /\ handle \in [Files -> HandleState]
    /\ stream \in [Files -> StreamState]
    /\ destroys \in [Files -> 0 .. 1]
    /\ power \in PowerState
    /\ removal \in RemovalState
    /\ late \subseteq Files
    /\ overtaken \subseteq Files
    /\ broken \in BOOLEAN

\* The lookup and the unlinking under HandleLock are enough for everybody
\* who is not overtaken: a dispatch routine that found a handle finds it on
\* the list when it comes to use it, unless FdoDestroyAllHandles or a CLEANUP
\* took it off in between; and only that can make FdoDispatchReadWrite,
\* FdoDispatchCleanup or FdoDestroyAllHandles use freed memory, destroy a
\* handle twice or pop an empty list.
OnlyTheOvertakenBreak ==
    /\ \A f \in Files \ overtaken :
          FoundByIo(f) \/ FoundByCleanup(f) => handle[f] = "listed"
    /\ broken => overtaken # {}

\* The stream of a handle is live as long as the handle can be found, and
\* until the first use of freed memory it is destroyed with its handle and
\* once, by CLEANUP or by FdoDestroyAllHandles, also when the one takes the
\* handle from the private list of the other.
StreamFollowsHandle ==
    \A f \in Files :
        /\ handle[f] \in {"listed", "doomed"} =>
              stream[f] = "live" /\ destroys[f] = 0
        /\ handle[f] \in {"popped", "unlinked"} =>
              \/ stream[f] = "live" /\ destroys[f] = 0
              \/ stream[f] = "drained" /\ destroys[f] = 1
        /\ handle[f] = "freed" /\ stream[f] \notin {"null", "dangling"} =>
              stream[f] = "freed" /\ destroys[f] = 1

\* ASSERT(IsListEmpty(&Fdo->HandleList)) in FdoDestroy (fdo.c:2749) finds no
\* handle but those which a CREATE linked after D0 was left for the last
\* time, whether the removal powers the device down or finds it in D3 -
\* unless the removal skips the power-down of a device that is in D0.
OnlyLateHandlesLeft ==
    power = "assert" /\ removal # "skipped" => Listed \subseteq late

\* ASSERT(IsZeroMemory(Handle, sizeof (FDO_HANDLE))) on the error path of
\* FdoCreateHandle (fdo.c:2202).
FailedHandleAssertion ==
    \A f \in Files : create[f] = "assert" => stream[f] = "null"

\* Leaving D0 completes every IRP that is queued on a handle it took from the
\* list, on every way down, unless the handle was overtaken or the sweep
\* itself broke.
PowerDownCompletesIrps ==
    \A f \in Files :
        handle[f] = "doomed" /\ irp[f] = "queued"
            ~> irp[f] = "completed" \/ f \in overtaken \/ broken

=============================================================================
