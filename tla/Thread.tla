------------------------------- MODULE Thread -------------------------------
(***************************************************************************)
(* The worker threads of xencons.sys (src/src/xencons/thread.c).           *)
(*                                                                         *)
(* Every stream has one such thread and the FDO has two (device power and  *)
(* system power).  A thread object is shared by its owner, who creates,    *)
(* wakes, alerts and joins it, and by the thread function, which waits for *)
(* its event, clears it, tests Alerted, and goes round again.  References  *)
(* counts the two of them and whoever drops it to zero frees the object.   *)
(*                                                                         *)
(* Alerted and Event are written in that order by __ThreadAlert and read   *)
(* in the opposite order by the worker; each access is a step of its own.  *)
(***************************************************************************)
EXTENDS Integers

CONSTANTS Threads        \* the thread objects, each created at most once

VARIABLES
    owner,      \* [Threads -> OwnerPC] where the creating thread stands
    worker,     \* [Threads -> WorkerPC] where the system thread stands
    event,      \* [Threads -> BOOLEAN] Thread->Event, a NotificationEvent
    alerted,    \* [Threads -> BOOLEAN] Thread->Alerted
    references, \* [Threads -> 0..2] Thread->References
    memory      \* [Threads -> Memory] the allocation that holds all these

vars == <<owner, worker, event, alerted, references, memory>>

\* ThreadCreate: "spawn" before PsCreateSystemThread, "reference" before
\* ObReferenceObjectByHandle, "failAlert"/"failWake"/"drop" on its error
\* path, "failed" after it.  "open" is a created thread; "alertWake" is
\* ThreadAlert between its two stores, "join" is ThreadJoin.
OwnerPC == {"none", "spawn", "reference", "failAlert", "failWake", "drop",
            "failed", "open", "alertWake", "join", "joined"}

\* "run" is anywhere in the worker function but between KeClearEvent and
\* the test of Alerted ("woken") and after its last use of the event
\* ("leaving"); "dropped" is after the decrement in ThreadFunction.
WorkerPC == {"none", "run", "woken", "leaving", "dropped", "term"}

Memory == {"none", "live", "freed"}

Init ==
    /\ owner = [t \in Threads |-> "none"]
    /\ worker = [t \in Threads |-> "none"]
    /\ event = [t \in Threads |-> FALSE]
    /\ alerted = [t \in Threads |-> FALSE]
    /\ references = [t \in Threads |-> 0]
    /\ memory = [t \in Threads |-> "none"]

OwnerAt(t, from, to) == owner[t] = from /\ owner' = [owner EXCEPT ![t] = to]

WorkerAt(t, from, to) == worker[t] = from /\ worker' = [worker EXCEPT ![t] = to]

\* Who may still use the object.
OwnerHolds(t) == owner[t] \notin {"none", "failed", "joined"}

WorkerHolds(t) == worker[t] \in {"run", "woken", "leaving"}

-----------------------------------------------------------------------------
(* Mistakes the runs must notice; see "mutants" in PROJECT.json.           *)

ReleaseAlways(t) ==
    /\ references' = [references EXCEPT ![t] = @ - 1]
    /\ memory' = [memory EXCEPT ![t] = "freed"]

ReleaseNeverFrees(t) ==
    /\ references' = [references EXCEPT ![t] = @ - 1]
    /\ UNCHANGED memory

AlertWithoutWake(t) ==
    /\ OwnerAt(t, "alertWake", "join")
    /\ UNCHANGED <<worker, event, alerted, references, memory>>

WokenWithoutTest(t) ==
    /\ WorkerAt(t, "woken", "run")
    /\ UNCHANGED <<owner, event, alerted, references, memory>>

-----------------------------------------------------------------------------
(* ThreadCreate                                                            *)

InitialReferences == 2      \* one for us, one for the thread function

\* InterlockedDecrement(&References) == 0 => __ThreadFree.
Release(t) ==
    /\ references' = [references EXCEPT ![t] = @ - 1]
    /\ memory' = [memory EXCEPT ![t] = IF references[t] = 1 THEN "freed" ELSE @]

Allocate(t) ==
    /\ OwnerAt(t, "none", "spawn")
    /\ memory' = [memory EXCEPT ![t] = "live"]
    /\ references' = [references EXCEPT ![t] = InitialReferences]
    /\ UNCHANGED <<worker, event, alerted>>

\* PsCreateSystemThread.  If it fails the function's reference is dropped
\* on its behalf: there is no other user of the object yet.
Spawn(t) ==
    /\ OwnerAt(t, "spawn", "reference")
    /\ worker' = [worker EXCEPT ![t] = "run"]
    /\ UNCHANGED <<event, alerted, references, memory>>

SpawnFails(t) ==
    /\ OwnerAt(t, "spawn", "drop")
    /\ references' = [references EXCEPT ![t] = @ - 1]
    /\ UNCHANGED <<worker, event, alerted, memory>>

\* ObReferenceObjectByHandle; its failure alerts the running thread and
\* does not wait for it.
Reference(t) ==
    /\ \/ OwnerAt(t, "reference", "open")
       \/ OwnerAt(t, "reference", "failAlert")
    /\ UNCHANGED <<worker, event, alerted, references, memory>>

FailDrop(t) ==
    /\ OwnerAt(t, "drop", "failed")
    /\ Release(t)
    /\ UNCHANGED <<worker, event, alerted>>

-----------------------------------------------------------------------------
(* ThreadWake, ThreadAlert and ThreadJoin                                  *)

\* Anyone who was given the thread may wake it; a caller that is late may
\* still do so while ThreadAlert and ThreadJoin run, and an event the worker
\* function has handed out (ThreadGetEvent) may be set until it returns.
Wake(t) ==
    /\ owner[t] \in {"open", "alertWake", "join"} \/ WorkerHolds(t)
    /\ event' = [event EXCEPT ![t] = TRUE]
    /\ UNCHANGED <<owner, worker, alerted, references, memory>>

AlertStore(t) ==
    /\ \/ OwnerAt(t, "open", "alertWake")
       \/ OwnerAt(t, "failAlert", "failWake")
    /\ alerted' = [alerted EXCEPT ![t] = TRUE]
    /\ UNCHANGED <<worker, event, references, memory>>

AlertWake(t) ==
    /\ \/ OwnerAt(t, "alertWake", "join")
       \/ OwnerAt(t, "failWake", "drop")
    /\ event' = [event EXCEPT ![t] = TRUE]
    /\ UNCHANGED <<worker, alerted, references, memory>>

\* The wait is for the thread object, so the decrement in ThreadFunction is
\* over; ASSERT3U(References, ==, 0) and an unconditional __ThreadFree.
Join(t) ==
    /\ worker[t] = "term"
    /\ OwnerAt(t, "join", "joined")
    /\ references' = [references EXCEPT ![t] = @ - 1]
    /\ memory' = [memory EXCEPT ![t] = "freed"]
    /\ UNCHANGED <<worker, event, alerted>>

-----------------------------------------------------------------------------
(* ThreadFunction and the loop every worker function has                   *)

\* KeWaitForSingleObject returns, KeClearEvent.
ClearEvent(t) ==
    /\ event[t]
    /\ WorkerAt(t, "run", "woken")
    /\ event' = [event EXCEPT ![t] = FALSE]
    /\ UNCHANGED <<owner, alerted, references, memory>>

TestAlerted(t) ==
    /\ WorkerAt(t, "woken", IF alerted[t] THEN "leaving" ELSE "run")
    /\ UNCHANGED <<owner, event, alerted, references, memory>>

\* A worker function may return on an error without having been alerted.
GiveUp(t) ==
    /\ WorkerAt(t, "run", "leaving")
    /\ UNCHANGED <<owner, event, alerted, references, memory>>

FunctionReturns(t) ==
    /\ WorkerAt(t, "leaving", "dropped")
    /\ Release(t)
    /\ UNCHANGED <<owner, event, alerted>>

Terminate(t) ==
    /\ WorkerAt(t, "dropped", "term")
    /\ UNCHANGED <<owner, event, alerted, references, memory>>

-----------------------------------------------------------------------------

OwnerStep(t) ==
    \/ Spawn(t) \/ SpawnFails(t) \/ Reference(t) \/ FailDrop(t)
    \/ AlertWake(t) \/ Join(t)

WorkerStep(t) ==
    ClearEvent(t) \/ TestAlerted(t) \/ FunctionReturns(t) \/ Terminate(t)

\* Both sides are done with the thread.
Finished(t) ==
    /\ owner[t] \in {"failed", "joined"}
    /\ worker[t] \in {"none", "term"}
    /\ UNCHANGED vars

Next ==
    \E t \in Threads :
        \/ Allocate(t) \/ OwnerStep(t) \/ AlertStore(t) \/ Wake(t)
        \/ WorkerStep(t) \/ GiveUp(t) \/ Finished(t)

Spec == Init /\ [][Next]_vars

-----------------------------------------------------------------------------
(* Properties                                                              *)

\* Every variable has its type (the fields of struct _XENCONS_THREAD).
TypeOK ==
    /\ owner \in [Threads -> OwnerPC]
    /\ worker \in [Threads -> WorkerPC]
    /\ event \in [Threads -> BOOLEAN]
    /\ alerted \in [Threads -> BOOLEAN]
    /\ references \in [Threads -> 0 .. 2]
    /\ memory \in [Threads -> Memory]

\* Whoever can still reach the object finds it allocated: the owner between
\* ThreadCreate and ThreadJoin or ThreadCreate's failure, the function until
\* its decrement (the object may not be freed by the side that is first).
UsersFindItLive ==
    \A t \in Threads :
        OwnerHolds(t) \/ WorkerHolds(t) => memory[t] = "live"

\* And the last of them frees it, whichever that is, on the error paths of
\* ThreadCreate too: no thread object is leaked.
LastUserFrees ==
    \A t \in Threads :
        owner[t] \in {"failed", "joined"} /\ ~WorkerHolds(t)
            => memory[t] = "freed"

\* ASSERT3U(References, ==, 0) in ThreadJoin (thread.c:222): when the wait
\* for the thread object is over, the owner's reference is the only one.
JoinAssertion ==
    \A t \in Threads :
        owner[t] = "join" /\ worker[t] = "term" => references[t] = 1

\* An alert is never lost: a worker that is about to wait, or is waiting,
\* after ThreadAlert finished finds the event set (Alerted is stored before
\* the event is set, and the worker clears the event before it tests it).
AlertNotLost ==
    \A t \in Threads :
        alerted[t] /\ owner[t] \notin {"alertWake", "failWake"}
                   /\ worker[t] = "run"
            => event[t]

=============================================================================
