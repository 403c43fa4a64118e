---------------------------- MODULE MonitorProofs ----------------------------
(***************************************************************************)
(* What the threads of the monitor service find when they use it, for any  *)
(* number of clients and arrivals and any failures of MonitorAdd.          *)
(*                                                                         *)
(* The property follows from two facts: which of the attachment is there   *)
(* at each position of MonitorMain, and that a pipe on the list is one     *)
(* whose thread has yet to unlink it.                                      *)
(***************************************************************************)
EXTENDS Monitor, TLAPS

\* Where MonitorMain is within MonitorRemove, or in the error path of
\* MonitorAdd, with the device still open.
Removing == {"collect", "beginWait", "waitPipes", "joinServer", "joinDevice",
             "joinMonitor"}
Undoing == {"undoDevice", "undoMonitor"}
Greeting == {"greet", "farewell"}

\* Between attachments there are no threads; each is gone once its join has
\* returned.  The device is open a little longer than the rest is there.
AttachmentOK ==
    /\ lock => device = "open" /\ main \notin Greeting
    /\ main \in Removing \cup Undoing => lock
    /\ main \in Greeting => device = "open"
    /\ main \in {"wait", "add"} => (device = "open" => lock)
    /\ ~lock =>
          server \in Ended /\ deviceThread \in Ended /\ monitorThread \in Ended
    /\ main \in {"joinDevice", "joinMonitor"} \cup Undoing => server \in Ended
    /\ main \in {"joinMonitor", "undoMonitor"} => deviceThread \in Ended

ListOK == list \subseteq Linked

IInv == TypeOK /\ AttachmentOK /\ ListOK

AttachmentState ==
    <<main, device, lock, server, deviceThread, monitorThread>>

\* What the pipe threads and the clients leave alone.
BesidePipes == <<presence, arrivals, eventVars, device, threadVars, lock,
                 waitFor>>

LEMMA Wraps ==
  ASSUME NEW n \in Nat PROVE n % CountModulus \in 0 .. CountModulus - 1
  BY MonitorAssumption

LEMMA InitIInv == Init => IInv
  <1> SUFFICES ASSUME Init PROVE IInv
    OBVIOUS
  <1>1. TypeOK
    <2>1. arrivals \in 0 .. MaxArrivals /\ count \in 0 .. CountModulus - 1
      BY MonitorAssumption DEF Init
    <2>2. pipe \in [Clients -> PipePC]
      BY DEF Init, PipePC
    <2>3. QED
      BY <2>1, <2>2 DEF Init, TypeOK, FirstEvents, MainPC
  <1>2. AttachmentOK
    BY DEF Init, AttachmentOK, Ended, Removing, Undoing, Greeting
  <1>3. ListOK
    BY DEF Init, ListOK
  <1>4. QED
    BY <1>1, <1>2, <1>3 DEF IInv

-----------------------------------------------------------------------------
(* The pipe threads: the list changes, the attachment does not.            *)

LEMMA PipesTyped ==
  ASSUME TypeOK, UNCHANGED <<main, BesidePipes>>,
         list' \subseteq Clients, count' \in 0 .. CountModulus - 1,
         pipe' \in [Clients -> PipePC]
  PROVE  TypeOK'
  BY DEF TypeOK, BesidePipes, eventVars, threadVars

LEMMA AttachmentSame ==
  ASSUME AttachmentOK, UNCHANGED AttachmentState PROVE AttachmentOK'
  BY DEF AttachmentOK, AttachmentState

LEMMA ReadEndsIInv ==
  ASSUME IInv, NEW c \in Clients, ReadEnds(c), UNCHANGED <<main, BesidePipes>>
  PROVE  IInv'
  <1>1. pipe' \in [Clients -> PipePC]
    BY DEF IInv, TypeOK, ReadEnds, PipePC
  <1>2. TypeOK'
    BY <1>1, PipesTyped DEF IInv, TypeOK, ReadEnds
  <1>3. AttachmentOK'
    BY AttachmentSame DEF IInv, AttachmentState, BesidePipes, threadVars
  <1>4. ListOK'
    BY DEF IInv, TypeOK, ListOK, Linked, ReadEnds
  <1>5. QED
    BY <1>2, <1>3, <1>4 DEF IInv

LEMMA PipeStepIInv ==
  ASSUME IInv, NEW c \in Clients, PipeStep(c) \/ PipeWrites(c) \/ LosePipe(c)
  PROVE  IInv'
  <1>1. UNCHANGED <<main, BesidePipes>>
    BY DEF PipeStep, PipeWrites, LosePipe, BesidePipes
  <1>2. AttachmentOK'
    BY <1>1, AttachmentSame
    DEF IInv, AttachmentState, BesidePipes, threadVars
  <1>3. CASE InsertPipe(c)
    <2>1. pipe' \in [Clients -> PipePC] /\ list' \subseteq Clients
      BY <1>3 DEF IInv, TypeOK, InsertPipe, PipePC
    <2>2. count' \in 0 .. CountModulus - 1
      BY <1>3, Wraps DEF IInv, TypeOK, InsertPipe
    <2>3. ListOK'
      BY <1>3 DEF IInv, TypeOK, ListOK, Linked, InsertPipe
    <2>4. QED
      BY <1>1, <1>2, <2>1, <2>2, <2>3, PipesTyped DEF IInv
  <1>4. CASE RemovePipe(c)
    <2>1. pipe' \in [Clients -> PipePC]
      BY <1>4 DEF IInv, TypeOK, RemovePipe, PipePC
    <2>2. count' \in 0 .. CountModulus - 1
      BY <1>4, Wraps, MonitorAssumption DEF IInv, TypeOK, RemovePipe, Decrement
    <2>3. list' \subseteq Linked \ {c}
      BY <1>4 DEF IInv, ListOK, RemovePipe
    <2>4. ListOK' /\ list' \subseteq Clients
      BY <1>4, <2>3 DEF IInv, TypeOK, ListOK, Linked, RemovePipe
    <2>5. QED
      BY <1>1, <1>2, <2>1, <2>2, <2>4, PipesTyped DEF IInv
  <1>5. CASE Input(c) \/ InputDone(c) \/ ClosePipe(c) \/ LosePipe(c)
    <2>1. pipe' \in [Clients -> PipePC] /\ UNCHANGED <<list, count>>
      BY <1>5 DEF IInv, TypeOK, Input, InputDone, ClosePipe, LosePipe, PipePC
    <2>2. ListOK'
      BY <1>5 DEF IInv, TypeOK, ListOK, Linked, Input, InputDone, ClosePipe,
                  LosePipe
    <2>3. QED
      BY <1>1, <1>2, <2>1, <2>2, PipesTyped DEF IInv, TypeOK
  <1>6. QED
    BY <1>1, <1>3, <1>4, <1>5, ReadEndsIInv DEF PipeStep, PipeWrites

-----------------------------------------------------------------------------
(* MonitorMain                                                             *)

LEMMA AddIInv ==
  ASSUME IInv, \/ OpenDevice \/ Attach \/ NothingToAdd \/ AddFails
               \/ AddFailsLate \/ UndoDevice \/ UndoMonitor
  PROVE  IInv'
  <1> USE DEF IInv, MainAt, MainPC, eventVars, threadVars, pipeVars
  <1>1. TypeOK'
    BY DEF TypeOK, OpenDevice, Attach, NothingToAdd, AddFails, AddFailsLate,
           UndoDevice, UndoMonitor
  <1>2. AttachmentOK'
    BY DEF TypeOK, AttachmentOK, Removing, Undoing, Greeting, Ended,
           OpenDevice, Attach, NothingToAdd, AddFails, AddFailsLate,
           UndoDevice, UndoMonitor
  <1>3. ListOK'
    BY DEF ListOK, Linked, OpenDevice, Attach, NothingToAdd, AddFails,
           AddFailsLate, UndoDevice, UndoMonitor
  <1>4. QED
    BY <1>1, <1>2, <1>3

LEMMA RemoveIInv ==
  ASSUME IInv, \/ Wake \/ Collect \/ BeginWait \/ WaitPipes \/ JoinServer
               \/ JoinDevice \/ JoinMonitor \/ CloseDevice
  PROVE  IInv'
  <1> USE DEF IInv, MainAt, MainPC, eventVars, threadVars, pipeVars
  <1>1. TypeOK'
    <2>1. CASE Collect
      <3>1. waitFor' \subseteq Clients
        BY <2>1 DEF TypeOK, Collect
      <3>2. count' \in 0 .. CountModulus - 1
        BY <2>1, MonitorAssumption DEF TypeOK, Collect
      <3>3. QED
        BY <2>1, <3>1, <3>2 DEF TypeOK, Collect
    <2>2. CASE \/ Wake \/ BeginWait \/ WaitPipes \/ JoinServer
               \/ JoinDevice \/ JoinMonitor \/ CloseDevice
      BY <2>2 DEF TypeOK, Wake, BeginRemove, BeginWait, WaitPipes, JoinServer,
                  JoinDevice, JoinMonitor, CloseDevice
    <2>3. QED
      BY <2>1, <2>2
  <1>2. AttachmentOK'
    BY DEF TypeOK, AttachmentOK, Removing, Undoing, Greeting, Ended, Wake,
           BeginRemove, Collect, BeginWait, WaitPipes, JoinServer, JoinDevice,
           JoinMonitor, CloseDevice
  <1>3. ListOK'
    BY DEF ListOK, Linked, Wake, Collect, BeginWait, WaitPipes, JoinServer,
           JoinDevice, JoinMonitor, CloseDevice
  <1>4. QED
    BY <1>1, <1>2, <1>3

-----------------------------------------------------------------------------
(* The other threads, the control handler and the device                   *)

LEMMA ThreadsIInv ==
  ASSUME IInv, ServerStep \/ MonitorStep \/ DeviceStep \/ Output \/ Delivered
  PROVE  IInv'
  <1> USE DEF IInv, eventVars, threadVars, pipeVars
  <1>1. CASE ServerStep
    <2>1. TypeOK'
      BY <1>1 DEF TypeOK, ServerStep, PipePC
    <2>2. AttachmentOK'
      BY <1>1 DEF AttachmentOK, ServerStep, Ended
    <2>3. ListOK'
      <3>1. CASE pipe' = pipe
        BY <1>1, <3>1 DEF ListOK, Linked, ServerStep
      <3>2. ASSUME NEW c \in Clients, pipe[c] = "none",
                   pipe' = [pipe EXCEPT ![c] = "insert"]
            PROVE  ListOK'
        BY <1>1, <3>2 DEF TypeOK, ListOK, Linked, ServerStep
      <3>3. \A c \in Clients : c >= c
        BY MonitorAssumption DEF Clients
      <3>4. QED
        BY <1>1, <3>1, <3>2, <3>3 DEF ServerStep
    <2>4. QED
      BY <2>1, <2>2, <2>3
  <1>2. CASE MonitorStep
    <2>1. TypeOK'
      BY <1>2 DEF TypeOK, MonitorStep
    <2>2. AttachmentOK'
      BY <1>2 DEF AttachmentOK, MonitorStep, Ended
    <2>3. ListOK'
      BY <1>2 DEF ListOK, Linked, MonitorStep
    <2>4. QED
      BY <2>1, <2>2, <2>3
  <1>3. CASE DeviceStep \/ Output \/ Delivered
    BY <1>3 DEF TypeOK, AttachmentOK, ListOK, Linked, DeviceStep, Output,
                Delivered, DeviceGoto, Ended
  <1>4. QED
    BY <1>1, <1>2, <1>3

LEMMA ControlIInv ==
  ASSUME IInv,
         Arrive \/ QueryRemove \/ CancelRemove \/ Depart \/ Stop \/ Crash
  PROVE  IInv'
  <1> USE DEF IInv, eventVars, threadVars, pipeVars
  <1>1. TypeOK'
    <2>1. CASE Arrive
      <3>1. arrivals' \in 0 .. MaxArrivals
        BY <2>1, MonitorAssumption DEF TypeOK, Arrive
      <3>2. QED
        BY <2>1, <3>1 DEF TypeOK, Arrive
    <2>2. CASE QueryRemove \/ CancelRemove \/ Depart
      BY <2>2 DEF TypeOK, QueryRemove, CancelRemove, Depart, RemoveSignalled
    <2>3. CASE Stop \/ Crash
      BY <2>3 DEF TypeOK, Stop, Crash, MainPC
    <2>4. QED
      BY <2>1, <2>2, <2>3
  <1>2. AttachmentOK'
    BY DEF AttachmentOK, Arrive, QueryRemove, CancelRemove, Depart, Stop,
           Crash, Removing, Undoing, Greeting
  <1>3. ListOK'
    BY DEF ListOK, Linked, Arrive, QueryRemove, CancelRemove, Depart, Stop,
           Crash
  <1>4. QED
    BY <1>1, <1>2, <1>3

LEMMA StepIInv == IInv /\ [Next]_vars => IInv'
  <1> SUFFICES ASSUME IInv, [Next]_vars PROVE IInv'
    OBVIOUS
  <1>1. CASE UNCHANGED vars
    BY <1>1 DEF IInv, TypeOK, AttachmentOK, ListOK, Linked, vars, eventVars,
                threadVars, pipeVars
  <1>2. ASSUME NEW c \in Clients, ClientLeaves(c) PROVE IInv'
    BY <1>2, ReadEndsIInv DEF ClientLeaves, BesidePipes
  <1>3. QED
    BY <1>1, <1>2, AddIInv, RemoveIInv, ThreadsIInv, ControlIInv, PipeStepIInv
    DEF Next, MainStep

\* The invariant above holds in every reachable state.
THEOREM MonitorInductive == Spec => []IInv
  BY InitIInv, StepIInv, PTL DEF Spec

\* Every variable has its type; ListCount stays within its width, whatever
\* it wraps to.
THEOREM MonitorTyping == Spec => []TypeOK
  <1>1. IInv => TypeOK
    BY DEF IInv
  <1>2. QED
    BY <1>1, MonitorInductive, PTL

\* The device thread writes to no pipe that has been closed, and none of the
\* server, the device and the monitor thread uses a critical section or an
\* event that is gone, however attachments fail and whichever writes wait.  The
\* pipe threads are not part of this: one that was not waited for may come to
\* a critical section that was deleted.
THEOREM ServiceOutlivesThreads == Spec => []ThreadsUseWhatIsThere
  <1>1. IInv => ThreadsUseWhatIsThere
    BY DEF IInv, AttachmentOK, ListOK, Linked, ThreadsUseWhatIsThere, Open,
           TypeOK
  <1>2. QED
    BY <1>1, MonitorInductive, PTL

=============================================================================
