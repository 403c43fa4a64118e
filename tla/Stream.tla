------------------------------- MODULE Stream -------------------------------
(***************************************************************************)
(* One stream: the IRP queue and the worker thread behind an open handle   *)
(* (src/src/xencons/stream.c, over the thread object of thread.c).         *)
(*                                                                         *)
(* Five kinds of actor share it: dispatch routines that queue IRPs, the    *)
(* I/O manager that cancels them, the worker that serves them, the owner   *)
(* that creates and destroys the stream, and the console (XENBUS_CONSOLE,  *)
(* external) whose ring fills, drains and signals the worker's event.      *)
(*                                                                         *)
(* The cancel-safe queue is the system's IoCsq: its routines run under     *)
(* Stream->Lock, so each is one action, except that the insertion of a new *)
(* IRP sets the event while it still holds the lock, and the worker's wait *)
(* does not take the lock.  IoCancelIrp takes an IRP's cancel routine      *)
(* first and runs it, under the lock, later.                               *)
(*                                                                         *)
(* An ASSERT holds nobody up: StreamDestroy frees the stream whatever is   *)
(* on its list, and who comes too late goes astray in the freed memory.    *)
(***************************************************************************)
EXTENDS Naturals, SequencesExt

CONSTANTS
    Reads, Writes,  \* the IRPs, by major function
    NoIrp,          \* NULL
    RingSize,       \* bytes each console ring holds
    Empty,          \* the IRPs that ask for a transfer of no bytes
    Cancellable,    \* the IRPs somebody may cancel
    CreateFaults,   \* which calls of StreamCreate may fail
    ConsoleFaults,  \* which console calls of the worker may fail
    Overlap,        \* may dispatch and cancellation run into StreamDestroy?
    Rival           \* does another stream use the console as well?

Irps == Reads \cup Writes

ASSUME IrpAssumption ==
    /\ Reads \cap Writes = {}
    /\ NoIrp \notin Irps
    /\ Empty \subseteq Irps
    /\ Cancellable \subseteq Irps

ASSUME RingAssumption == RingSize \in Nat \ {0}

ASSUME FlagAssumption ==
    /\ CreateFaults \subseteq {"allocate", "spawn", "reference"}
    /\ ConsoleFaults \subseteq {"acquire", "wakeup"}
    /\ Overlap \in BOOLEAN
    /\ Rival \in BOOLEAN

VARIABLES
    list,       \* Stream->List
    irp,        \* where each IRP is: see IrpPlace
    cancel,     \* Irp->Cancel
    routine,    \* Irp->CancelRoutine; "taken" once IoCancelIrp has it
    completions,\* how often IoCompleteRequest was called on each IRP
    inserting,  \* the IRP whose insertion holds Stream->Lock, or NoIrp
    worker,     \* where StreamWorker is
    held,       \* the IRP StreamWorker has removed from the list
    owner,      \* where StreamCreate or StreamDestroy is
    stream,     \* the allocation that holds the stream
    event, alerted, references, thread, \* Stream->Thread and its allocation
    rx, tx,     \* bytes waiting in the ring to and from the guest
    notify,     \* the console's event channel has fired
    acquired,   \* the worker's reference to the console interface
    wakeup      \* the worker's event is registered with the console

irpVars == <<irp, cancel, routine, completions>>
threadVars == <<event, alerted, references, thread>>
consoleVars == <<rx, tx, notify, acquired, wakeup>>
vars == <<list, irpVars, inserting, worker, held, owner, stream, threadVars,
          consoleVars>>

\* "sent": a dispatch routine has found the handle and is about to queue it;
\* "astray": a routine ran into a freed stream with it, and it is lost.
IrpPlace == {"new", "sent", "listed", "held", "served", "cancelled", "astray"}

WorkerPC == {"none", "acquire", "add", "wait", "clear", "test", "next",
             "check", "requeue", "transfer", "unhook", "release", "exit",
             "dropped", "term"}

OwnerPC == {"none", "spawn", "reference", "failAlert", "failWake", "drop",
            "free", "failed", "open", "alertWake", "join", "drain", "assert",
            "gone"}

Init ==
    /\ list = <<>>
    /\ irp = [i \in Irps |-> "new"]
    /\ cancel = [i \in Irps |-> FALSE]
    /\ routine = [i \in Irps |-> "null"]
    /\ completions = [i \in Irps |-> 0]
    /\ inserting = NoIrp
    /\ worker = "none"
    /\ held = NoIrp
    /\ owner = "none"
    /\ stream = "live"
    /\ event = FALSE /\ alerted = FALSE
    /\ references = 0 /\ thread = "none"
    /\ rx \in 0 .. RingSize /\ tx \in 0 .. RingSize
    /\ notify = FALSE /\ acquired = FALSE /\ wakeup = FALSE

OwnerAt(from, to) == owner = from /\ owner' = to

WorkerAt(from, to) == worker = from /\ worker' = to

Complete(i, how) ==
    /\ irp' = [irp EXCEPT ![i] = how]
    /\ completions' = [completions EXCEPT ![i] = @ + 1]

\* No insertion is in progress: a routine of the queue may run.
LockFree == inserting = NoIrp

(* Mistakes the runs must notice; see "mutants" in PROJECT.json.           *)

\* RemoveEntryList: an IRP is linked at most once.
Unlinked(i) == RemoveAt(list, CHOOSE k \in DOMAIN list : list[k] = i)

\* IoCsqRemoveNextIrp skips the IRPs whose cancel routine it cannot clear.
InLine(k) == routine[list[k]] = "armed"

NoneInLine == \A k \in DOMAIN list : ~InLine(k)

RemoveNext(i) ==
    /\ \E k \in DOMAIN list :
          /\ InLine(k)
          /\ \A j \in 1 .. k - 1 : ~InLine(j)
          /\ i = list[k]
          /\ list' = RemoveAt(list, k)
    /\ routine' = [routine EXCEPT ![i] = IF @ = "armed" THEN "null" ELSE @]

\* A mistake: an IRP found cancelled is completed but stays where it is.
ArmCancelled(i, with, without) ==
    /\ list' = with
    /\ routine' = [routine EXCEPT ![i] = "armed"]
    /\ IF cancel[i] THEN Complete(i, "cancelled")
       ELSE irp' = [irp EXCEPT ![i] = "listed"] /\ UNCHANGED completions

\* The end of IoCsqInsertIrpEx, still under the lock: the cancel routine is
\* set, unless the IRP was cancelled while it had none.
Arm(i, with, without) ==
    IF cancel[i]
    THEN /\ list' = without
         /\ Complete(i, "cancelled")
         /\ UNCHANGED routine
    ELSE /\ list' = with
         /\ irp' = [irp EXCEPT ![i] = "listed"]
         /\ routine' = [routine EXCEPT ![i] = "armed"]
         /\ UNCHANGED completions

-----------------------------------------------------------------------------
(* More mistakes the runs must notice.                                     *)

WakeupAddFailureSkipsRelease ==
    /\ \/ WorkerAt("add", "wait") /\ wakeup' = TRUE
       \/ /\ "wakeup" \in ConsoleFaults
          /\ WorkerAt("add", "exit") /\ UNCHANGED wakeup
    /\ UNCHANGED <<list, irpVars, inserting, held, owner, stream, threadVars,
                   rx, tx, notify, acquired>>

WakeupNotAdded ==
    /\ WorkerAt("add", "wait")
    /\ UNCHANGED <<list, irpVars, inserting, held, owner, stream, threadVars,
                   consoleVars>>

NeverBlocked ==
    /\ WorkerAt("check", "transfer")
    /\ UNCHANGED <<list, irpVars, inserting, held, owner, stream, threadVars,
                   consoleVars>>

RequeueAtTail ==
    /\ WorkerAt("requeue", "wait")
    /\ LockFree
    /\ Arm(held, Append(list, held), list)
    /\ held' = NoIrp
    /\ UNCHANGED <<cancel, inserting, owner, stream, threadVars, consoleVars>>

RequeueThenClear ==
    /\ WorkerAt("requeue", "wait")
    /\ LockFree
    /\ Arm(held, <<held>> \o list, list)
    /\ held' = NoIrp
    /\ event' = FALSE
    /\ UNCHANGED <<cancel, inserting, owner, stream, alerted, references,
                   thread, consoleVars>>

AlertWithoutWake ==
    /\ \/ OwnerAt("alertWake", "join")
       \/ OwnerAt("failWake", "drop")
    /\ UNCHANGED <<list, irpVars, inserting, worker, held, stream, threadVars,
                   consoleVars>>

JoinWithoutWaiting ==
    /\ OwnerAt("join", "drain")
    /\ references' = references - 1
    /\ thread' = "freed"
    /\ UNCHANGED <<list, irpVars, inserting, worker, held, stream, event,
                   alerted, consoleVars>>

DrainOne ==
    /\ LockFree
    /\ OwnerAt("drain", "assert")
    /\ \/ \E i \in Irps : RemoveNext(i) /\ Complete(i, "cancelled")
       \/ NoneInLine /\ UNCHANGED <<list, irp, routine, completions>>
    /\ UNCHANGED <<cancel, inserting, worker, held, stream, threadVars,
                   consoleVars>>

-----------------------------------------------------------------------------
(* Dispatch and cancellation                                               *)

\* FdoDispatchReadWrite: the handle exists, the IRP is bound for its stream.
Send(i) ==
    /\ owner = "open"
    /\ irp[i] = "new"
    /\ irp' = [irp EXCEPT ![i] = "sent"]
    /\ UNCHANGED <<list, cancel, routine, completions, inserting, worker,
                   held, owner, stream, threadVars, consoleVars>>

\* StreamPutQueue: InsertTailList under the lock, if the stream and the thread
\* that it is to wake are still there ...
InsertTail(i) ==
    /\ irp[i] = "sent"
    /\ LockFree
    /\ IF stream = "live" /\ thread = "live"
       THEN /\ list' = Append(list, i)
            /\ irp' = [irp EXCEPT ![i] = "listed"]
            /\ inserting' = i
       ELSE /\ irp' = [irp EXCEPT ![i] = "astray"]
            /\ UNCHANGED <<list, inserting>>
    /\ UNCHANGED <<cancel, routine, completions, worker, held, owner, stream,
                   threadVars, consoleVars>>

\* ... then ThreadWake, the cancel routine, and the lock is released.
WakeAndArm(i) ==
    /\ inserting = i
    /\ event' = TRUE
    /\ Arm(i, list, Unlinked(i))
    /\ inserting' = NoIrp
    /\ UNCHANGED <<cancel, worker, held, owner, stream, alerted, references,
                   thread, consoleVars>>

\* IoCancelIrp: Irp->Cancel, and the cancel routine is taken if there is one.
RequestCancel(i) ==
    /\ Overlap \/ owner = "open"
    /\ i \in Cancellable
    /\ irp[i] \in {"sent", "listed", "held"}
    /\ ~cancel[i]
    /\ cancel' = [cancel EXCEPT ![i] = TRUE]
    /\ routine' = [routine EXCEPT ![i] = IF @ = "armed" THEN "taken" ELSE @]
    /\ UNCHANGED <<list, irp, completions, inserting, worker, held, owner,
                   stream, threadVars, consoleVars>>

\* The cancel routine: StreamCsqRemoveIrp under the lock, then
\* StreamCsqCompleteCanceledIrp.  Nobody wakes the worker.  In a stream that
\* has been freed there is neither lock nor routine: the IRP is lost.
CancelRoutine(i) ==
    /\ routine[i] = "taken"
    /\ LockFree
    /\ list' = Unlinked(i)
    /\ IF stream = "live"
       THEN Complete(i, "cancelled")
       ELSE irp' = [irp EXCEPT ![i] = "astray"] /\ UNCHANGED completions
    /\ routine' = [routine EXCEPT ![i] = "null"]
    /\ UNCHANGED <<cancel, inserting, worker, held, owner, stream,
                   threadVars, consoleVars>>

-----------------------------------------------------------------------------
(* StreamWorker                                                            *)

ConsoleAcquire ==
    /\ \/ WorkerAt("acquire", "add") /\ acquired' = TRUE
       \/ /\ "acquire" \in ConsoleFaults
          /\ WorkerAt("acquire", "exit") /\ UNCHANGED acquired
    /\ UNCHANGED <<list, irpVars, inserting, held, owner, stream, threadVars,
                   rx, tx, notify, wakeup>>

WakeupAdd ==
    /\ \/ WorkerAt("add", "wait") /\ wakeup' = TRUE
       \/ /\ "wakeup" \in ConsoleFaults
          /\ WorkerAt("add", "release") /\ UNCHANGED wakeup
    /\ UNCHANGED <<list, irpVars, inserting, held, owner, stream, threadVars,
                   rx, tx, notify, acquired>>

Wait ==
    /\ event
    /\ WorkerAt("wait", "clear")
    /\ UNCHANGED <<list, irpVars, inserting, held, owner, stream, threadVars,
                   consoleVars>>

ClearEvent ==
    /\ WorkerAt("clear", "test")
    /\ event' = FALSE
    /\ UNCHANGED <<list, irpVars, inserting, held, owner, stream, alerted,
                   references, thread, consoleVars>>

TestAlerted ==
    /\ WorkerAt("test", IF alerted THEN "unhook" ELSE "next")
    /\ UNCHANGED <<list, irpVars, inserting, held, owner, stream, threadVars,
                   consoleVars>>

TakeNext ==
    /\ LockFree
    /\ \/ /\ WorkerAt("next", "check")
          /\ \E i \in Irps :
                /\ RemoveNext(i)
                /\ held' = i
                /\ irp' = [irp EXCEPT ![i] = "held"]
       \/ /\ WorkerAt("next", "wait")
          /\ NoneInLine
          /\ UNCHANGED <<list, irp, routine, held>>
    /\ UNCHANGED <<cancel, completions, inserting, owner, stream, threadVars,
                   consoleVars>>

\* ConsoleCanRead and ConsoleCanWrite.
CanServe(i) == IF i \in Reads THEN rx > 0 ELSE tx < RingSize

CheckBlocked ==
    /\ WorkerAt("check", IF CanServe(held) THEN "transfer" ELSE "requeue")
    /\ UNCHANGED <<list, irpVars, inserting, held, owner, stream, threadVars,
                   consoleVars>>

\* IoCsqInsertIrpEx with ReInsert: back to the head, without a wake.
Requeue ==
    /\ WorkerAt("requeue", "wait")
    /\ LockFree
    /\ Arm(held, <<held>> \o list, list)
    /\ held' = NoIrp
    /\ UNCHANGED <<cancel, inserting, owner, stream, threadVars, consoleVars>>

\* ConsoleRead or ConsoleWrite moves what it can, up to the length asked
\* for (nobody has checked that it is not zero), and IoCompleteRequest.
Transfer ==
    /\ WorkerAt("transfer", "next")
    /\ IF held \in Reads
       THEN /\ IF rx = 0 \/ held \in Empty THEN rx' = rx ELSE rx' \in 0 .. rx - 1
            /\ UNCHANGED tx
       ELSE /\ IF tx = RingSize \/ held \in Empty
               THEN tx' = tx
               ELSE tx' \in tx + 1 .. RingSize
            /\ UNCHANGED rx
    /\ Complete(held, "served")
    /\ held' = NoIrp
    /\ UNCHANGED <<list, cancel, routine, inserting, owner, stream,
                   threadVars, notify, acquired, wakeup>>

WakeupRemove ==
    /\ WorkerAt("unhook", "release")
    /\ wakeup' = FALSE
    /\ UNCHANGED <<list, irpVars, inserting, held, owner, stream, threadVars,
                   rx, tx, notify, acquired>>

ConsoleRelease ==
    /\ WorkerAt("release", "exit")
    /\ acquired' = FALSE
    /\ UNCHANGED <<list, irpVars, inserting, held, owner, stream, threadVars,
                   rx, tx, notify, wakeup>>

ReleaseThread ==
    /\ references' = references - 1
    /\ thread' = IF references = 1 THEN "freed" ELSE thread

FunctionReturns ==
    /\ WorkerAt("exit", "dropped")
    /\ ReleaseThread
    /\ UNCHANGED <<list, irpVars, inserting, held, owner, stream, event,
                   alerted, consoleVars>>

Terminate ==
    /\ WorkerAt("dropped", "term")
    /\ UNCHANGED <<list, irpVars, inserting, held, owner, stream, threadVars,
                   consoleVars>>

-----------------------------------------------------------------------------
(* StreamCreate and StreamDestroy                                          *)

Allocate ==
    /\ \/ /\ OwnerAt("none", "spawn")
          /\ references' = 2
          /\ thread' = "live"
       \/ /\ "allocate" \in CreateFaults
          /\ OwnerAt("none", "free")
          /\ UNCHANGED <<references, thread>>
    /\ UNCHANGED <<list, irpVars, inserting, worker, held, stream, event,
                   alerted, consoleVars>>

Spawn ==
    /\ \/ /\ OwnerAt("spawn", "reference")
          /\ worker' = "acquire"
          /\ UNCHANGED references
       \/ /\ "spawn" \in CreateFaults
          /\ OwnerAt("spawn", "drop")
          /\ references' = references - 1
          /\ UNCHANGED worker
    /\ UNCHANGED <<list, irpVars, inserting, held, stream, event, alerted,
                   thread, consoleVars>>

Reference ==
    /\ \/ OwnerAt("reference", "open")
       \/ "reference" \in CreateFaults /\ OwnerAt("reference", "failAlert")
    /\ UNCHANGED <<list, irpVars, inserting, worker, held, stream,
                   threadVars, consoleVars>>

FailDrop ==
    /\ OwnerAt("drop", "free")
    /\ ReleaseThread
    /\ UNCHANGED <<list, irpVars, inserting, worker, held, stream, event,
                   alerted, consoleVars>>

\* The error path of StreamCreate frees the stream.
FreeFailed ==
    /\ OwnerAt("free", "failed")
    /\ stream' = "freed"
    /\ UNCHANGED <<list, irpVars, inserting, worker, held, threadVars,
                   consoleVars>>

\* No dispatch routine or canceller is inside the stream.
Quiescent ==
    /\ LockFree
    /\ \A i \in Irps : irp[i] # "sent" /\ routine[i] # "taken"

\* ThreadAlert, from StreamDestroy or from ThreadCreate's error path.
AlertStore ==
    /\ \/ OwnerAt("open", "alertWake") /\ (Overlap \/ Quiescent)
       \/ OwnerAt("failAlert", "failWake")
    /\ alerted' = TRUE
    /\ UNCHANGED <<list, irpVars, inserting, worker, held, stream, event,
                   references, thread, consoleVars>>

AlertWake ==
    /\ \/ OwnerAt("alertWake", "join")
       \/ OwnerAt("failWake", "drop")
    /\ event' = TRUE
    /\ UNCHANGED <<list, irpVars, inserting, worker, held, stream, alerted,
                   references, thread, consoleVars>>

Join ==
    /\ worker = "term"
    /\ OwnerAt("join", "drain")
    /\ references' = references - 1
    /\ thread' = "freed"
    /\ UNCHANGED <<list, irpVars, inserting, worker, held, stream, event,
                   alerted, consoleVars>>

Drain ==
    /\ LockFree
    /\ \/ /\ OwnerAt("drain", "drain")
          /\ \E i \in Irps : RemoveNext(i) /\ Complete(i, "cancelled")
       \/ /\ OwnerAt("drain", "assert")
          /\ NoneInLine
          /\ UNCHANGED <<list, irp, routine, completions>>
    /\ UNCHANGED <<cancel, inserting, worker, held, stream, threadVars,
                   consoleVars>>

\* ASSERT(IsListEmpty(&Stream->List)) is no obstacle: the stream is freed, with
\* what may be on its list.
Free ==
    /\ OwnerAt("assert", "gone")
    /\ stream' = "freed"
    /\ UNCHANGED <<list, irpVars, inserting, worker, held, threadVars,
                   consoleVars>>

-----------------------------------------------------------------------------
(* The console (external): ring activity signals every registered event    *)

BackendSends ==
    /\ rx < RingSize
    /\ rx' = rx + 1
    /\ notify' = TRUE
    /\ UNCHANGED <<list, irpVars, inserting, worker, held, owner, stream,
                   threadVars, tx, acquired, wakeup>>

BackendDrains ==
    /\ tx > 0
    /\ tx' = tx - 1
    /\ notify' = TRUE
    /\ UNCHANGED <<list, irpVars, inserting, worker, held, owner, stream,
                   threadVars, rx, acquired, wakeup>>

Deliver ==
    /\ notify
    /\ notify' = FALSE
    /\ event' = (event \/ wakeup)
    /\ UNCHANGED <<list, irpVars, inserting, worker, held, owner, stream,
                   alerted, references, thread, rx, tx, acquired, wakeup>>

\* Another stream's worker reads from, or writes to, the same ring.
RivalTransfers ==
    /\ Rival
    /\ \/ rx > 0 /\ rx' = rx - 1 /\ UNCHANGED tx
       \/ tx < RingSize /\ tx' = tx + 1 /\ UNCHANGED rx
    /\ UNCHANGED <<list, irpVars, inserting, worker, held, owner, stream,
                   threadVars, notify, acquired, wakeup>>

-----------------------------------------------------------------------------

DispatchStep(i) ==
    InsertTail(i) \/ WakeAndArm(i)

WorkerStep ==
    \/ ConsoleAcquire \/ WakeupAdd
    \/ Wait \/ ClearEvent \/ TestAlerted
    \/ TakeNext \/ CheckBlocked \/ Requeue \/ Transfer
    \/ WakeupRemove \/ ConsoleRelease \/ FunctionReturns \/ Terminate

OwnerStep ==
    \/ Allocate \/ Spawn \/ Reference \/ FailDrop \/ FreeFailed
    \/ AlertStore \/ AlertWake \/ Join \/ Drain \/ Free

ConsoleStep == BackendSends \/ BackendDrains \/ Deliver \/ RivalTransfers

\* The stream is gone and nobody is on the way to it.
Finished ==
    /\ owner \in {"gone", "failed"}
    /\ worker \in {"none", "term"}
    /\ Quiescent
    /\ UNCHANGED vars

Next ==
    \/ \E i \in Irps :
          Send(i) \/ DispatchStep(i) \/ RequestCancel(i) \/ CancelRoutine(i)
    \/ WorkerStep
    \/ OwnerStep
    \/ ConsoleStep
    \/ Finished

Spec == Init /\ [][Next]_vars

\* Threads that can run do run: the worker, a dispatch routine on its way to
\* the list, a cancel routine that was taken, and StreamDestroy once it has
\* begun.  The channel delivers, and the back end drains what the guest
\* writes.  Nobody has to send an IRP, cancel one, provide input or ask for
\* the stream to be destroyed.
Fairness ==
    /\ WF_vars(WorkerStep)
    /\ \A i \in Irps : WF_vars(DispatchStep(i)) /\ WF_vars(CancelRoutine(i))
    /\ WF_vars(owner # "open" /\ OwnerStep)
    /\ WF_vars(Deliver)
    /\ WF_vars(BackendDrains)

FairSpec == Spec /\ Fairness

-----------------------------------------------------------------------------
(* Properties                                                              *)

\* Every variable has its type.
TypeOK ==
    /\ list \in Seq(Irps)
    /\ irp \in [Irps -> IrpPlace]
    /\ cancel \in [Irps -> BOOLEAN]
    /\ routine \in [Irps -> {"null", "armed", "taken"}]
    /\ completions \in [Irps -> Nat]
    /\ inserting \in Irps \cup {NoIrp}
    /\ worker \in WorkerPC
    /\ held \in Irps \cup {NoIrp}
    /\ owner \in OwnerPC
    /\ stream \in {"live", "freed"}
    /\ event \in BOOLEAN /\ alerted \in BOOLEAN
    /\ references \in 0 .. 2 /\ thread \in {"none", "live", "freed"}
    /\ rx \in 0 .. RingSize /\ tx \in 0 .. RingSize
    /\ notify \in BOOLEAN /\ acquired \in BOOLEAN /\ wakeup \in BOOLEAN

\* No IRP is completed twice, or is completed and still somewhere else: the
\* worker, the drain in StreamDestroy, the cancel routine and the insertion
\* that finds it cancelled each believe they may complete it.  (That none is
\* dropped is ListHoldsListed and KeepsPromises.)
CompletedOnce ==
    \A i \in Irps :
        completions[i] = IF irp[i] \in {"served", "cancelled"} THEN 1 ELSE 0

\* The list holds exactly the IRPs that are listed, each of them once.
ListHoldsListed ==
    /\ \A i \in Irps : irp[i] = "listed" <=> \E k \in DOMAIN list : list[k] = i
    /\ \A j, k \in DOMAIN list : list[j] = list[k] => j = k

\* ASSERT(IsListEmpty(&Stream->List)) (stream.c:431).
DestroyAssertion == owner = "assert" => list = <<>>

\* Whoever is on the way into the stream finds it, and its thread, live:
\* the worker, dispatch routines that were given it, cancel routines that
\* were taken, and the console, which sets the event of the worker.
StreamUsersFindItLive ==
    /\ worker \notin {"none", "dropped", "term", "exit"} => stream = "live"
    /\ \A i \in Irps :
          irp[i] = "sent" \/ routine[i] = "taken" => stream = "live"
    /\ \A i \in Irps :
          irp[i] = "sent" \/ inserting = i => thread = "live"
    /\ wakeup => thread = "live"

\* What the worker took from the console it has given back by the time it
\* can be joined, whichever call failed.
ConsoleReturned ==
    worker \in {"exit", "dropped", "term"} => ~acquired /\ ~wakeup

\* A worker that waits has nothing to do, or a wake-up on the way: the
\* first IRP in line is blocked by the ring (or there is none), or the
\* event is set, or an insertion or the channel is about to set it.  A stream
\* with both kinds of IRP loses this once one is cancelled: the cancellation
\* of a blocked IRP wakes nobody for those behind it.
OneKind == Reads = {} \/ Writes = {}

NoLostWakeup ==
    worker = "wait" /\ (OneKind \/ \A i \in Irps : ~cancel[i]) =>
        \/ event \/ notify \/ ~LockFree
        \/ \A k \in DOMAIN list :
              InLine(k) /\ (\A j \in 1 .. k - 1 : ~InLine(j))
                  => ~CanServe(list[k])

\* A READ that succeeds returns data, unless it asked for none: what
\* ConsoleCanRead saw is still there when ConsoleRead runs (true of a stream
\* that has the console to itself).
ReadsReturnData ==
    [][\A i \in Reads \ Empty :
          irp[i] = "held" /\ irp'[i] = "served" => rx' < rx]_vars

\* StreamDestroy ends, whatever the worker is doing when it begins and even if
\* it gave up early, and then no IRP that was handed to the stream is pending.
DestroyEnds ==
    owner = "alertWake"
        ~> owner = "gone" /\ \A i \in Irps : irp[i] \in {"new", "served", "cancelled"}

\* Output progresses: a WRITE is completed however full the ring was, unless
\* its worker has gone (it could not start, or the stream is being destroyed)
\* or a READ comes to stand in the one line that both use.
ReadOutstanding == \E j \in Reads : irp[j] \notin {"new", "served", "cancelled"}

WritesComplete ==
    \A i \in Writes :
        irp[i] = "sent" ~> \/ irp[i] \in {"served", "cancelled"}
                           \/ worker \in {"exit", "dropped", "term"}
                           \/ ReadOutstanding

-----------------------------------------------------------------------------
(* Refinement                                                              *)

\* The stream keeps the promises of IrpQueue.  An IRP that the worker holds
\* is still first in line: it may be put back.
Waiting ==
    {i \in Irps : \/ i = held
                  \/ routine[i] # "taken" /\ \E k \in DOMAIN list : list[k] = i}

Before(s, i, j) == \E k, l \in DOMAIN s : k < l /\ s[k] = i /\ s[l] = j

Earlier(i, j) == j # held /\ (i = held \/ Before(list, i, j))

Ahead == {p \in Waiting \X Waiting : Earlier(p[1], p[2])}

Queue == INSTANCE IrpQueue WITH
    line <- Waiting,
    ahead <- Ahead,
    doomed <- {i \in Irps : routine[i] = "taken"},
    served <- {i \in Irps : irp[i] = "served"},
    cancelled <- {i \in Irps : irp[i] = "cancelled"},
    closed <- owner \in {"gone", "failed"}

KeepsPromises == Queue!Spec

\* Its worker is a thread as Thread describes them.
FunctionPC ==
    CASE worker \in {"none", "dropped", "term"} -> worker
      [] worker \in {"unhook", "release", "exit"} -> "leaving"
      [] worker = "test" -> "woken"
      [] OTHER -> "run"

ThreadOwnerPC ==
    CASE owner \in {"drain", "assert", "gone"} -> "joined"
      [] owner \in {"free", "failed"} ->
            IF thread = "none" /\ references = 0 THEN "none" ELSE "failed"
      [] OTHER -> owner

WorkerThread == INSTANCE Thread WITH
    Threads <- {"worker"},
    owner <- [t \in {"worker"} |-> ThreadOwnerPC],
    worker <- [t \in {"worker"} |-> FunctionPC],
    event <- [t \in {"worker"} |-> event],
    alerted <- [t \in {"worker"} |-> alerted],
    references <- [t \in {"worker"} |-> references],
    memory <- [t \in {"worker"} |-> thread]

IsThread == WorkerThread!Spec

=============================================================================
