---------------------------- MODULE StreamProofs ----------------------------
(***************************************************************************)
(* Proofs about a stream, for every set of IRPs, ring size and choice of   *)
(* faults:                                                                 *)
(*                                                                         *)
(*  - who may complete an IRP.  IInv says what the cancel routine, the     *)
(*    insertion and the worker's position each tell about where an IRP is; *)
(*    it needs nothing of the list but that what is taken from it is armed;*)
(*  - the worker gives back what it took from the console, and what is on  *)
(*    the list (ConsoleOK, ListOK);                                        *)
(*  - the worker does not sleep while it could serve somebody (WakeOK),    *)
(*    and a READ it serves returns data (RingOK);                          *)
(*  - if no dispatch routine or canceller runs into StreamDestroy          *)
(*    (CallersOK), it finds the list empty, the stream keeps the promises  *)
(*    of IrpQueue, and its worker is a thread as Thread describes them;    *)
(*    if moreover ThreadCreate does not fail after its thread runs,        *)
(*    whoever is on the way into the stream finds it live (OwnerOK).       *)
(***************************************************************************)
EXTENDS Stream, SequenceTheorems, TLAPS

\* The types of the variables on which completion depends.
Typed ==
    /\ irp \in [Irps -> IrpPlace]
    /\ cancel \in [Irps -> BOOLEAN]
    /\ routine \in [Irps -> {"null", "armed", "taken"}]
    /\ completions \in [Irps -> Nat]
    /\ inserting \in Irps \cup {NoIrp}
    /\ held \in Irps \cup {NoIrp}
    /\ worker \in WorkerPC

\* An IRP that has a cancel routine, or whose cancel routine is being run, is
\* on the list.
RoutineOK == \A i \in Irps : routine[i] # "null" => irp[i] = "listed"

\* The one that is being inserted is there already but has none yet.
InsertOK ==
    \A i \in Irps : inserting = i => irp[i] = "listed" /\ routine[i] = "null"

\* The worker holds an IRP between removing it and serving it or putting it
\* back, and at no other time.
HeldOK ==
    /\ held # NoIrp <=> worker \in {"check", "requeue", "transfer"}
    /\ held # NoIrp => irp[held] = "held"

\* There is no worker before its thread is created.
SpawnOK == owner \in {"none", "spawn"} => worker = "none"

IInv == Typed /\ RoutineOK /\ InsertOK /\ HeldOK /\ SpawnOK /\ CompletedOnce

LEMMA InitIInv == Init => IInv
  BY IrpAssumption
  DEF Init, IInv, Typed, RoutineOK, InsertOK, HeldOK, SpawnOK, CompletedOnce,
      IrpPlace, WorkerPC

LEMMA RemovedIsArmed ==
  ASSUME NEW i \in Irps, RemoveNext(i)
  PROVE  routine[i] = "armed" /\ routine' = [routine EXCEPT ![i] = "null"]
  BY DEF RemoveNext, InLine

LEMMA WorkerIInv ==
  ASSUME IInv, WorkerStep PROVE IInv'
  <1> USE IrpAssumption
      DEF IInv, Typed, RoutineOK, InsertOK, HeldOK, SpawnOK, CompletedOnce,
          IrpPlace, WorkerPC, WorkerAt, irpVars
  <1>1. CASE ConsoleAcquire
    BY <1>1 DEF ConsoleAcquire
  <1>2. CASE WakeupAdd
    BY <1>2 DEF WakeupAdd
  <1>3. CASE Wait
    BY <1>3 DEF Wait
  <1>4. CASE ClearEvent
    BY <1>4 DEF ClearEvent
  <1>5. CASE TestAlerted
    BY <1>5 DEF TestAlerted
  <1>6. CASE TakeNext
    <2>1. CASE WorkerAt("next", "wait")
      BY <1>6, <2>1, RemovedIsArmed DEF TakeNext
    <2>2. ASSUME NEW i \in Irps, WorkerAt("next", "check"), RemoveNext(i),
                 held' = i, irp' = [irp EXCEPT ![i] = "held"]
          PROVE  IInv'
      BY <1>6, <2>2, RemovedIsArmed DEF TakeNext, LockFree
    <2>3. QED
      BY <1>6, <2>1, <2>2 DEF TakeNext
  <1>7. CASE CheckBlocked
    BY <1>7 DEF CheckBlocked
  <1>8. CASE Requeue
    <2>1. /\ held \in Irps /\ inserting = NoIrp /\ worker = "requeue"
          /\ worker' = "wait" /\ held' = NoIrp
          /\ UNCHANGED <<cancel, inserting, owner>>
      BY <1>8 DEF Requeue, LockFree
    <2>2. CASE cancel[held]
      <3>1. Complete(held, "cancelled") /\ UNCHANGED routine
        BY <1>8, <2>2 DEF Requeue, Arm
      <3>2. QED
        BY <2>1, <3>1 DEF Complete
    <2>3. CASE ~cancel[held]
      <3>1. /\ irp' = [irp EXCEPT ![held] = "listed"]
            /\ routine' = [routine EXCEPT ![held] = "armed"]
            /\ UNCHANGED completions
        BY <1>8, <2>3 DEF Requeue, Arm
      <3>2. QED
        BY <2>1, <3>1
    <2>4. QED
      BY <2>2, <2>3
  <1>9. CASE Transfer
    BY <1>9 DEF Transfer, Complete
  <1>10. CASE WakeupRemove
    BY <1>10 DEF WakeupRemove
  <1>11. CASE ConsoleRelease
    BY <1>11 DEF ConsoleRelease
  <1>12. CASE FunctionReturns
    BY <1>12 DEF FunctionReturns
  <1>13. CASE Terminate
    BY <1>13 DEF Terminate
  <1>14. QED
    BY <1>1, <1>2, <1>3, <1>4, <1>5, <1>6, <1>7, <1>8, <1>9, <1>10, <1>11,
       <1>12, <1>13 DEF WorkerStep

LEMMA OwnerIInv ==
  ASSUME IInv, OwnerStep PROVE IInv'
  <1> USE IrpAssumption
      DEF IInv, Typed, RoutineOK, InsertOK, HeldOK, SpawnOK, CompletedOnce,
          IrpPlace, WorkerPC, OwnerAt, irpVars
  <1>1. CASE Allocate
    BY <1>1 DEF Allocate
  <1>2. CASE Spawn
    BY <1>2 DEF Spawn
  <1>3. CASE Reference \/ FailDrop \/ FreeFailed
    BY <1>3 DEF Reference, FailDrop, FreeFailed
  <1>4. CASE AlertStore \/ AlertWake \/ Join \/ Free
    BY <1>4 DEF AlertStore, AlertWake, Join, Free
  <1>5. CASE Drain
    BY <1>5, RemovedIsArmed DEF Drain, Complete, LockFree
  <1>6. QED
    BY <1>1, <1>2, <1>3, <1>4, <1>5 DEF OwnerStep

LEMMA IrpIInv ==
  ASSUME IInv, NEW i \in Irps,
         Send(i) \/ DispatchStep(i) \/ RequestCancel(i) \/ CancelRoutine(i)
  PROVE  IInv'
  <1> USE IrpAssumption
      DEF IInv, Typed, RoutineOK, InsertOK, HeldOK, SpawnOK, CompletedOnce,
          IrpPlace, WorkerPC
  <1>1. CASE Send(i)
    BY <1>1 DEF Send
  <1>2. CASE InsertTail(i)
    <2>1. CASE stream = "live" /\ thread = "live"
      <3>1. /\ irp[i] = "sent" /\ inserting = NoIrp
            /\ irp' = [irp EXCEPT ![i] = "listed"] /\ inserting' = i
            /\ UNCHANGED <<cancel, routine, completions, worker, held, owner>>
        BY <1>2, <2>1 DEF InsertTail, LockFree
      <3>2. QED
        BY <3>1
    <2>2. CASE ~(stream = "live" /\ thread = "live")
      <3>1. /\ irp[i] = "sent" /\ irp' = [irp EXCEPT ![i] = "astray"]
            /\ UNCHANGED <<inserting, cancel, routine, completions, worker, held,
                           owner>>
        BY <1>2, <2>2 DEF InsertTail
      <3>2. QED
        BY <3>1
    <2>3. QED
      BY <2>1, <2>2
  <1>3. CASE WakeAndArm(i)
    BY <1>3 DEF WakeAndArm, Arm, Complete
  <1>4. CASE RequestCancel(i)
    BY <1>4 DEF RequestCancel
  <1>5. CASE CancelRoutine(i)
    BY <1>5 DEF CancelRoutine, Complete, LockFree
  <1>6. QED
    BY <1>1, <1>2, <1>3, <1>4, <1>5 DEF DispatchStep

LEMMA StepIInv == IInv /\ [Next]_vars => IInv'
  <1> SUFFICES ASSUME IInv, [Next]_vars PROVE IInv'
    OBVIOUS
  <1>1. CASE UNCHANGED vars \/ Finished
    BY <1>1 DEF vars, irpVars, Finished, IInv, Typed, RoutineOK, InsertOK,
                HeldOK, SpawnOK, CompletedOnce
  <1>2. CASE ConsoleStep
    BY <1>2 DEF ConsoleStep, BackendSends, BackendDrains, Deliver,
                RivalTransfers, irpVars, IInv, Typed, RoutineOK, InsertOK,
                HeldOK, SpawnOK, CompletedOnce
  <1>3. QED
    BY <1>1, <1>2, WorkerIInv, OwnerIInv, IrpIInv DEF Next

\* The invariant above holds in every reachable state.
THEOREM StreamInductive == Spec => []IInv
  BY InitIInv, StepIInv, PTL DEF Spec

\* Every IRP is completed at most once, by whichever of the worker, the drain,
\* the cancel routine and the insertion gets it, and is not completed while
\* another may still do so.
THEOREM IrpsCompletedOnce == Spec => []CompletedOnce
  <1>1. IInv => CompletedOnce
    BY DEF IInv
  <1>2. QED
    BY <1>1, StreamInductive, PTL

-----------------------------------------------------------------------------
(* Sequences whose elements are all different, and what is on them.        *)

Distinct(s) == \A j, k \in DOMAIN s : s[j] = s[k] => j = k

On(s, x) == \E k \in DOMAIN s : s[k] = x

LEMMA Appended ==
  ASSUME NEW S, NEW s \in Seq(S), NEW x \in S, Distinct(s), ~On(s, x)
  PROVE  /\ Append(s, x) \in Seq(S) /\ Distinct(Append(s, x))
         /\ \A y : On(Append(s, x), y) <=> On(s, y) \/ y = x
  <1>1. /\ DOMAIN s = 1 .. Len(s) /\ Len(s) \in Nat
        /\ DOMAIN Append(s, x) = 1 .. Len(s) + 1
        /\ \A k \in 1 .. Len(s) + 1 :
              Append(s, x)[k] = IF k = Len(s) + 1 THEN x ELSE s[k]
    OBVIOUS
  <1>2. Append(s, x) \in Seq(S)
    OBVIOUS
  <1>3. Distinct(Append(s, x))
    BY <1>1 DEF Distinct, On
  <1>4. ASSUME NEW y PROVE On(Append(s, x), y) <=> On(s, y) \/ y = x
    <2>1. CASE On(Append(s, x), y)
      BY <1>1, <2>1 DEF On
    <2>2. CASE On(s, y)
      <3>1. PICK k \in 1 .. Len(s) : s[k] = y
        BY <1>1, <2>2 DEF On
      <3>2. k \in 1 .. Len(s) + 1 /\ Append(s, x)[k] = y
        BY <1>1, <3>1
      <3>3. QED
        BY <1>1, <2>2, <3>2 DEF On
    <2>3. CASE y = x
      BY <1>1, <2>3 DEF On
    <2>4. QED
      BY <2>1, <2>2, <2>3
  <1>5. QED
    BY <1>2, <1>3, <1>4

LEMMA Prefixed ==
  ASSUME NEW S, NEW s \in Seq(S), NEW x \in S, Distinct(s), ~On(s, x)
  PROVE  /\ <<x>> \o s \in Seq(S) /\ Distinct(<<x>> \o s)
         /\ \A y : On(<<x>> \o s, y) <=> On(s, y) \/ y = x
  <1> DEFINE t == <<x>> \o s
  <1>1. /\ DOMAIN s = 1 .. Len(s) /\ Len(s) \in Nat
        /\ DOMAIN t = 1 .. Len(s) + 1
        /\ t[1] = x
        /\ \A k \in 1 .. Len(s) + 1 : k # 1 => t[k] = s[k - 1]
    OBVIOUS
  <1>2. t \in Seq(S)
    OBVIOUS
  <1> HIDE DEF t
  <1>3. Distinct(t)
    <2>1. SUFFICES ASSUME NEW j \in 1 .. Len(s) + 1, NEW k \in 1 .. Len(s) + 1,
                          t[j] = t[k]
                   PROVE  j = k
      BY <1>1 DEF Distinct
    <2>2. \A i \in 1 .. Len(s) + 1 : i # 1 => i - 1 \in 1 .. Len(s) /\ t[i] # x
      BY <1>1 DEF On
    <2>3. CASE j = 1 \/ k = 1
      BY <1>1, <2>1, <2>2, <2>3
    <2>4. CASE j # 1 /\ k # 1
      <3>1. s[j - 1] = s[k - 1] /\ j - 1 \in DOMAIN s /\ k - 1 \in DOMAIN s
        BY <1>1, <2>1, <2>2, <2>4
      <3>2. j - 1 = k - 1
        BY <3>1 DEF Distinct
      <3>3. QED
        BY <3>2
    <2>5. QED
      BY <2>3, <2>4
  <1>4. ASSUME NEW y PROVE On(t, y) <=> On(s, y) \/ y = x
    <2>1. ASSUME On(t, y) PROVE On(s, y) \/ y = x
      <3>1. PICK k \in 1 .. Len(s) + 1 : t[k] = y
        BY <1>1, <2>1 DEF On
      <3>2. k # 1 => k - 1 \in 1 .. Len(s) /\ s[k - 1] = y
        BY <1>1, <3>1
      <3>3. QED
        BY <1>1, <3>1, <3>2 DEF On
    <2>2. ASSUME On(s, y) PROVE On(t, y)
      <3>1. PICK k \in 1 .. Len(s) : s[k] = y
        BY <1>1, <2>2 DEF On
      <3>2. k + 1 \in 1 .. Len(s) + 1 /\ t[k + 1] = y
        BY <1>1, <3>1
      <3>3. QED
        BY <1>1, <3>2 DEF On
    <2>3. ASSUME y = x PROVE On(t, y)
      <3>1. 1 \in 1 .. Len(s) + 1
        BY <1>1
      <3>2. QED
        BY <1>1, <2>3, <3>1 DEF On
    <2>4. QED
      BY <2>1, <2>2, <2>3
  <1>5. QED
    BY <1>2, <1>3, <1>4 DEF t

LEMMA RemovedAt ==
  ASSUME NEW S, NEW s \in Seq(S), NEW n \in DOMAIN s
  PROVE  /\ DOMAIN s = 1 .. Len(s) /\ Len(s) \in Nat /\ n \in 1 .. Len(s)
         /\ RemoveAt(s, n) \in Seq(S)
         /\ DOMAIN RemoveAt(s, n) = 1 .. Len(s) - 1
         /\ \A k \in 1 .. Len(s) - 1 :
               RemoveAt(s, n)[k] = IF k < n THEN s[k] ELSE s[k + 1]
  <1> DEFINE t == RemoveAt(s, n)
  <1>1. DOMAIN s = 1 .. Len(s) /\ Len(s) \in Nat /\ n \in 1 .. Len(s)
    OBVIOUS
  <1>2. /\ SubSeq(s, 1, n - 1) \in Seq(S)
        /\ Len(SubSeq(s, 1, n - 1)) = n - 1
        /\ \A k \in 1 .. n - 1 : SubSeq(s, 1, n - 1)[k] = s[k]
    BY <1>1
  <1>3. /\ SubSeq(s, n + 1, Len(s)) \in Seq(S)
        /\ Len(SubSeq(s, n + 1, Len(s))) = Len(s) - n
        /\ \A k \in 1 .. Len(s) - n :
              SubSeq(s, n + 1, Len(s))[k] = s[n + k]
    BY <1>1, SMTT(30)
  <1> DEFINE a == SubSeq(s, 1, n - 1)
             b == SubSeq(s, n + 1, Len(s))
  <1>4. t = a \o b
    BY DEF RemoveAt
  <1> HIDE DEF a, b, t
  <1>5. /\ a \in Seq(S) /\ Len(a) = n - 1
        /\ b \in Seq(S) /\ Len(b) = Len(s) - n
        /\ \A k \in 1 .. n - 1 : a[k] = s[k]
        /\ \A k \in 1 .. Len(s) - n : b[k] = s[n + k]
    BY <1>2, <1>3 DEF a, b
  <1>6. /\ t \in Seq(S) /\ Len(t) = Len(s) - 1
        /\ \A k \in 1 .. Len(s) - 1 :
              t[k] = IF k <= n - 1 THEN a[k] ELSE b[k - (n - 1)]
    <2>1. /\ a \o b \in Seq(S) /\ Len(a \o b) = Len(a) + Len(b)
          /\ \A k \in 1 .. Len(a) + Len(b) :
                (a \o b)[k] = IF k <= Len(a) THEN a[k] ELSE b[k - Len(a)]
      BY <1>5, ConcatProperties
    <2>2. Len(a) + Len(b) = Len(s) - 1
      BY <1>1, <1>5
    <2>3. QED
      BY <1>4, <1>5, <2>1, <2>2
  <1>7. ASSUME NEW k \in 1 .. Len(s) - 1
        PROVE  t[k] = IF k < n THEN s[k] ELSE s[k + 1]
    <2>1. CASE k < n
      <3>1. k \in 1 .. n - 1 /\ k <= n - 1
        BY <1>1, <2>1
      <3>2. QED
        BY <1>5, <1>6, <2>1, <3>1
    <2>2. CASE ~(k < n)
      <3>1. /\ k - (n - 1) \in 1 .. Len(s) - n /\ ~(k <= n - 1)
            /\ n + (k - (n - 1)) = k + 1
        BY <1>1, <2>2
      <3>2. QED
        BY <1>5, <1>6, <2>2, <3>1
    <2>3. QED
      BY <2>1, <2>2
  <1>8. QED
    BY <1>1, <1>6, <1>7 DEF t

LEMMA Removed ==
  ASSUME NEW S, NEW s \in Seq(S), NEW n \in DOMAIN s, Distinct(s)
  PROVE  /\ RemoveAt(s, n) \in Seq(S) /\ Distinct(RemoveAt(s, n))
         /\ \A y : On(RemoveAt(s, n), y) <=> On(s, y) /\ y # s[n]
  <1> DEFINE t == RemoveAt(s, n)
  <1>1. DOMAIN s = 1 .. Len(s) /\ Len(s) \in Nat /\ n \in 1 .. Len(s)
    OBVIOUS
  <1>2. /\ t \in Seq(S)
        /\ DOMAIN t = 1 .. Len(s) - 1
        /\ \A k \in 1 .. Len(s) - 1 : t[k] = IF k < n THEN s[k] ELSE s[k + 1]
    BY RemovedAt
  <1> HIDE DEF t
  <1>3. Distinct(t)
    <2>1. SUFFICES ASSUME NEW j \in 1 .. Len(s) - 1, NEW k \in 1 .. Len(s) - 1,
                          t[j] = t[k]
                   PROVE  j = k
      BY <1>2 DEF Distinct
    <2>2. DEFINE At(i) == IF i < n THEN i ELSE i + 1
    <2>3. At(j) \in DOMAIN s /\ At(k) \in DOMAIN s /\ s[At(j)] = s[At(k)]
      BY <1>1, <1>2, <2>1
    <2>4. At(j) = At(k)
      BY <2>3 DEF Distinct
    <2>5. QED
      BY <1>1, <2>4
  <1>4. ASSUME NEW y, On(t, y) PROVE On(s, y) /\ y # s[n]
    <2>1. PICK k \in 1 .. Len(s) - 1 : t[k] = y
      BY <1>2, <1>4 DEF On
    <2>2. DEFINE m == IF k < n THEN k ELSE k + 1
    <2>3. m \in DOMAIN s /\ s[m] = y /\ m # n
      BY <1>1, <1>2, <2>1
    <2>4. QED
      BY <2>3 DEF On, Distinct
  <1>5. ASSUME NEW y, On(s, y), y # s[n] PROVE On(t, y)
    <2>1. PICK k \in 1 .. Len(s) : s[k] = y
      BY <1>1, <1>5 DEF On
    <2>2. DEFINE m == IF k < n THEN k ELSE k - 1
    <2>3. m \in DOMAIN t /\ t[m] = y
      BY <1>1, <1>2, <1>5, <2>1
    <2>4. QED
      BY <2>3 DEF On
  <1>6. QED
    BY <1>2, <1>3, <1>4, <1>5 DEF t

LEMMA EmptyOn ==
  ASSUME NEW S, NEW s \in Seq(S), \A x \in S : ~On(s, x)
  PROVE  s = <<>>
  <1>1. ASSUME NEW k \in DOMAIN s PROVE FALSE
    BY <1>1 DEF On
  <1>2. QED
    BY <1>1

-----------------------------------------------------------------------------
(* What the worker has taken from the console.                             *)

Hooked == {"wait", "clear", "test", "next", "check", "requeue", "transfer",
           "unhook"}

ConsoleOK ==
    /\ acquired <=> worker \in Hooked \cup {"add", "release"}
    /\ wakeup <=> worker \in Hooked

LEMMA StepConsoleOK == IInv /\ ConsoleOK /\ [Next]_vars => ConsoleOK'
  <1> SUFFICES ASSUME IInv, ConsoleOK, [Next]_vars PROVE ConsoleOK'
    OBVIOUS
  <1> USE DEF ConsoleOK, Hooked
  <1>1. CASE \E i \in Irps :
                Send(i) \/ DispatchStep(i) \/ RequestCancel(i)
                    \/ CancelRoutine(i)
    BY <1>1 DEF Send, DispatchStep, InsertTail, WakeAndArm, RequestCancel,
                CancelRoutine, consoleVars
  <1>2. CASE ConsoleAcquire \/ WakeupAdd \/ WakeupRemove \/ ConsoleRelease
    BY <1>2 DEF ConsoleAcquire, WakeupAdd, WakeupRemove, ConsoleRelease,
                WorkerAt
  <1>3. CASE Wait \/ ClearEvent \/ TestAlerted \/ CheckBlocked
    BY <1>3 DEF Wait, ClearEvent, TestAlerted, CheckBlocked, WorkerAt,
                consoleVars
  <1>4. CASE TakeNext \/ Requeue \/ Transfer
    BY <1>4 DEF TakeNext, Requeue, Transfer, WorkerAt, consoleVars
  <1>5. CASE FunctionReturns \/ Terminate
    BY <1>5 DEF FunctionReturns, Terminate, WorkerAt, consoleVars
  <1>6. CASE Spawn
    BY <1>6 DEF Spawn, IInv, SpawnOK, OwnerAt, consoleVars
  <1>7. CASE Allocate \/ Reference \/ FailDrop \/ FreeFailed \/ AlertStore
    BY <1>7 DEF Allocate, Reference, FailDrop, FreeFailed, AlertStore,
                consoleVars
  <1>8. CASE AlertWake \/ Join \/ Drain \/ Free
    BY <1>8 DEF AlertWake, Join, Drain, Free, consoleVars
  <1>9. CASE ConsoleStep \/ UNCHANGED vars
    BY <1>9 DEF ConsoleStep, BackendSends, BackendDrains, Deliver,
                RivalTransfers, vars, consoleVars
  <1>10. QED
    BY <1>1, <1>2, <1>3, <1>4, <1>5, <1>6, <1>7, <1>8, <1>9
    DEF Next, WorkerStep, OwnerStep, Finished

LEMMA ConsoleInductive == Spec => []ConsoleOK
  <1>1. Init => ConsoleOK
    BY DEF Init, ConsoleOK, Hooked
  <1>2. QED
    BY <1>1, StepConsoleOK, StreamInductive, PTL DEF Spec

\* Whichever console call fails, a worker that is done holds neither a
\* reference to the console nor a registration of its event.
THEOREM WorkerReturnsConsole == Spec => []ConsoleReturned
  <1>1. ConsoleOK => ConsoleReturned
    BY DEF ConsoleOK, ConsoleReturned, Hooked
  <1>2. QED
    BY <1>1, ConsoleInductive, PTL

-----------------------------------------------------------------------------
(* What is on the list.                                                    *)

\* The list holds the listed IRPs, each once, and those are the ones that
\* have a cancel routine, or are being cancelled or inserted.
ListOK ==
    /\ list \in Seq(Irps)
    /\ Distinct(list)
    /\ \A i \in Irps : irp[i] = "listed" <=> On(list, i)
    /\ \A i \in Irps :
          irp[i] = "listed" => routine[i] \in {"armed", "taken"} \/ inserting = i

\* An IRP leaves the list.
LEMMA Leaves ==
  ASSUME IInv, ListOK, NEW n \in DOMAIN list, NEW i \in Irps, list[n] = i,
         NEW place, place # "listed",
         list' = RemoveAt(list, n),
         irp' = [irp EXCEPT ![i] = place],
         \A j \in Irps : j # i => /\ routine'[j] = routine[j]
                                  /\ inserting = j => inserting' = j
  PROVE  ListOK'
  <1>1. /\ list' \in Seq(Irps) /\ Distinct(list')
        /\ \A j \in Irps : On(list', j) <=> On(list, j) /\ j # i
    BY Removed, IInv, ListOK DEF ListOK
  <1>2. \A j \in Irps : irp'[j] = IF j = i THEN place ELSE irp[j]
    BY DEF IInv, Typed
  <1>3. QED
    BY <1>1, <1>2 DEF ListOK

LEMMA LeavesAsUnlinked ==
  ASSUME IInv, ListOK, NEW i \in Irps, irp[i] = "listed",
         NEW place, place # "listed",
         list' = Unlinked(i),
         irp' = [irp EXCEPT ![i] = place],
         \A j \in Irps : j # i => /\ routine'[j] = routine[j]
                                  /\ inserting = j => inserting' = j
  PROVE  ListOK'
  <1>1. \E k \in DOMAIN list : list[k] = i
    BY DEF ListOK, On
  <1> DEFINE n == CHOOSE k \in DOMAIN list : list[k] = i
  <1>2. n \in DOMAIN list /\ list[n] = i
    BY <1>1
  <1>3. list' = RemoveAt(list, n)
    BY DEF Unlinked
  <1> HIDE DEF n
  <1>4. QED
    BY <1>2, <1>3, Leaves

LEMMA LeavesAsNext ==
  ASSUME IInv, ListOK, NEW i \in Irps, RemoveNext(i),
         NEW place, place # "listed",
         irp' = [irp EXCEPT ![i] = place],
         UNCHANGED inserting
  PROVE  ListOK'
  <1>1. PICK n \in DOMAIN list : list[n] = i /\ list' = RemoveAt(list, n)
    BY DEF RemoveNext
  <1>2. \A j \in Irps : j # i => routine'[j] = routine[j]
    BY DEF RemoveNext, IInv, Typed
  <1>3. QED
    BY <1>1, <1>2, Leaves

LEMMA IrpListOK ==
  ASSUME IInv, ListOK, NEW i \in Irps,
         Send(i) \/ DispatchStep(i) \/ RequestCancel(i) \/ CancelRoutine(i)
  PROVE  ListOK'
  <1>1. CASE Send(i)
    <2>1. \A j \in Irps : irp'[j] = IF j = i THEN "sent" ELSE irp[j]
      BY <1>1 DEF Send, IInv, Typed
    <2>2. irp[i] = "new" /\ UNCHANGED <<list, routine, inserting>>
      BY <1>1 DEF Send
    <2>3. QED
      BY <2>1, <2>2 DEF ListOK
  <1>2. ASSUME InsertTail(i), stream = "live", thread = "live"
        PROVE  ListOK'
    <2>1. /\ irp[i] = "sent" /\ inserting = NoIrp /\ inserting' = i
          /\ list' = Append(list, i) /\ UNCHANGED routine
          /\ \A j \in Irps : irp'[j] = IF j = i THEN "listed" ELSE irp[j]
      BY <1>2 DEF InsertTail, LockFree, IInv, Typed
    <2>2. /\ list' \in Seq(Irps) /\ Distinct(list')
          /\ \A y : On(list', y) <=> On(list, y) \/ y = i
      BY <2>1, Appended DEF ListOK
    <2>3. QED
      BY <2>1, <2>2, IrpAssumption DEF ListOK
  <1>3. CASE WakeAndArm(i)
    <2>1. irp[i] = "listed" /\ inserting = i /\ inserting' = NoIrp
      BY <1>3 DEF WakeAndArm, IInv, InsertOK
    <2>2. CASE cancel[i]
      BY <1>3, <2>1, <2>2, LeavesAsUnlinked DEF WakeAndArm, Arm, Complete
    <2>3. CASE ~cancel[i]
      <3>1. list' = list
        BY <1>3, <2>3 DEF WakeAndArm, Arm
      <3>2. \A j \in Irps : irp'[j] = irp[j]
        BY <1>3, <2>1, <2>3 DEF WakeAndArm, Arm, IInv, Typed
      <3>3. \A j \in Irps : routine'[j] = IF j = i THEN "armed" ELSE routine[j]
        BY <1>3, <2>3 DEF WakeAndArm, Arm, IInv, Typed
      <3>4. QED
        BY <2>1, <3>1, <3>2, <3>3 DEF ListOK
    <2>4. QED
      BY <2>2, <2>3
  <1>4. CASE RequestCancel(i)
    <2>1. \A j \in Irps :
             routine'[j] = IF j = i /\ routine[j] = "armed" THEN "taken"
                                                            ELSE routine[j]
      BY <1>4 DEF RequestCancel, IInv, Typed
    <2>2. UNCHANGED <<list, irp, inserting>>
      BY <1>4 DEF RequestCancel
    <2>3. QED
      BY <2>1, <2>2 DEF ListOK
  <1>5. CASE CancelRoutine(i)
    <2>1. irp[i] = "listed"
      BY <1>5 DEF CancelRoutine, IInv, RoutineOK
    <2>2. \A j \in Irps : j # i => routine'[j] = routine[j]
      BY <1>5 DEF CancelRoutine, IInv, Typed
    <2>3. QED
      BY <1>5, <2>1, <2>2, LeavesAsUnlinked DEF CancelRoutine, Complete
  <1>6. ASSUME InsertTail(i), ~(stream = "live" /\ thread = "live")
        PROVE  ListOK'
    <2>1. /\ irp[i] = "sent" /\ UNCHANGED <<list, routine, inserting>>
          /\ \A j \in Irps : irp'[j] = IF j = i THEN "astray" ELSE irp[j]
      BY <1>6 DEF InsertTail, IInv, Typed
    <2>2. QED
      BY <2>1 DEF ListOK
  <1>7. QED
    BY <1>1, <1>2, <1>3, <1>4, <1>5, <1>6 DEF DispatchStep

LEMMA WorkerListOK ==
  ASSUME IInv, ListOK, WorkerStep PROVE ListOK'
  <1>1. CASE UNCHANGED <<list, irp, routine, inserting>>
    BY <1>1 DEF ListOK
  <1>2. CASE TakeNext
    <2>1. CASE WorkerAt("next", "wait")
      BY <1>2, <2>1, <1>1 DEF TakeNext, WorkerAt
    <2>2. ASSUME NEW i \in Irps, RemoveNext(i), irp' = [irp EXCEPT ![i] = "held"]
          PROVE  ListOK'
      BY <1>2, <2>2, LeavesAsNext DEF TakeNext
    <2>3. QED
      BY <1>2, <2>1, <2>2 DEF TakeNext
  <1>3. CASE Requeue
    <2>1. held \in Irps /\ irp[held] = "held" /\ UNCHANGED inserting
      BY <1>3 DEF Requeue, IInv, HeldOK, Typed, WorkerAt
    <2>2. CASE cancel[held]
      <3>1. list' = list /\ UNCHANGED routine
        BY <1>3, <2>2 DEF Requeue, Arm
      <3>2. \A j \in Irps : irp'[j] = IF j = held THEN "cancelled" ELSE irp[j]
        BY <1>3, <2>2 DEF Requeue, Arm, Complete, IInv, Typed
      <3>3. QED
        BY <2>1, <3>1, <3>2 DEF ListOK
    <2>3. CASE ~cancel[held]
      <3>1. list' = <<held>> \o list
        BY <1>3, <2>3 DEF Requeue, Arm
      <3>2. \A j \in Irps : /\ irp'[j] = IF j = held THEN "listed" ELSE irp[j]
                            /\ routine'[j] = IF j = held THEN "armed"
                                                         ELSE routine[j]
        BY <1>3, <2>3 DEF Requeue, Arm, IInv, Typed
      <3>3. ~On(list, held)
        BY <2>1 DEF ListOK
      <3>4. /\ list' \in Seq(Irps) /\ Distinct(list')
            /\ \A y : On(list', y) <=> On(list, y) \/ y = held
        BY <2>1, <3>1, <3>3, Prefixed DEF ListOK
      <3>5. QED
        BY <2>1, <3>2, <3>4 DEF ListOK
    <2>4. QED
      BY <2>2, <2>3
  <1>4. CASE Transfer
    <2>1. held \in Irps /\ irp[held] = "held"
      BY <1>4 DEF Transfer, IInv, HeldOK, Typed, WorkerAt
    <2>2. \A j \in Irps : irp'[j] = IF j = held THEN "served" ELSE irp[j]
      BY <1>4 DEF Transfer, Complete, IInv, Typed
    <2>3. UNCHANGED <<list, routine, inserting>>
      BY <1>4 DEF Transfer
    <2>4. QED
      BY <2>1, <2>2, <2>3 DEF ListOK
  <1>5. QED
    BY <1>1, <1>2, <1>3, <1>4
    DEF WorkerStep, ConsoleAcquire, WakeupAdd, Wait, ClearEvent, TestAlerted,
        CheckBlocked, WakeupRemove, ConsoleRelease, FunctionReturns, Terminate,
        irpVars

LEMMA StepListOK == IInv /\ ListOK /\ [Next]_vars => ListOK'
  <1> SUFFICES ASSUME IInv, ListOK, [Next]_vars PROVE ListOK'
    OBVIOUS
  <1>1. CASE UNCHANGED <<list, irp, routine, inserting>>
    BY <1>1 DEF ListOK
  <1>2. CASE Drain
    <2>1. ASSUME NEW i \in Irps, RemoveNext(i), Complete(i, "cancelled")
          PROVE  ListOK'
      BY <1>2, <2>1, LeavesAsNext DEF Drain, Complete
    <2>2. QED
      BY <1>1, <1>2, <2>1 DEF Drain
  <1>3. CASE OwnerStep
    BY <1>1, <1>2, <1>3
    DEF OwnerStep, Allocate, Spawn, Reference, FailDrop, FreeFailed,
        AlertStore, AlertWake, Join, Free, irpVars
  <1>4. CASE ConsoleStep \/ UNCHANGED vars
    BY <1>1, <1>4 DEF ConsoleStep, BackendSends, BackendDrains, Deliver,
                      RivalTransfers, vars, irpVars
  <1>5. QED
    BY <1>3, <1>4, IrpListOK, WorkerListOK DEF Next, Finished

LEMMA ListInductive == Spec => []ListOK
  <1>1. Init => ListOK
    BY DEF Init, ListOK, Distinct, On
  <1>2. QED
    BY <1>1, StepListOK, StreamInductive, PTL DEF Spec

\* The list holds exactly the IRPs that are listed, each of them once.
THEOREM ListIsExact == Spec => []ListHoldsListed
  <1>1. ListOK => ListHoldsListed
    BY DEF ListOK, ListHoldsListed, Distinct, On
  <1>2. QED
    BY <1>1, ListInductive, PTL

-----------------------------------------------------------------------------
(* Where the owner and the worker may be at the same time.                 *)

\* The thread object exists from its allocation on, also when StreamCreate
\* fails later; StreamDestroy goes on when the worker has terminated; and the
\* worker clears only an event that was set.
PlacesOK ==
    /\ event \in BOOLEAN
    /\ owner = "none" => thread = "none" /\ references = 0
    /\ owner \in {"free", "failed"} =>
          thread # "none" \/ (references = 0 /\ worker = "none")
    /\ owner \notin {"none", "free", "failed"} => thread # "none"
    /\ owner \in {"drain", "assert", "gone"} => worker = "term"
    /\ worker = "clear" => event

LEMMA StepPlacesOK == IInv /\ PlacesOK /\ [Next]_vars => PlacesOK'
  <1> SUFFICES ASSUME IInv, PlacesOK, [Next]_vars PROVE PlacesOK'
    OBVIOUS
  <1> USE DEF PlacesOK
  <1>1. CASE /\ UNCHANGED <<owner, worker, references, thread>>
             /\ event' \in BOOLEAN /\ (event => event')
    BY <1>1
  <1>2. CASE Wait \/ ClearEvent \/ TestAlerted
    BY <1>2 DEF Wait, ClearEvent, TestAlerted, WorkerAt, threadVars
  <1>3. CASE FunctionReturns \/ Terminate
    BY <1>3 DEF FunctionReturns, Terminate, ReleaseThread, WorkerAt, threadVars,
                IInv, SpawnOK
  <1>4. CASE \/ ConsoleAcquire \/ WakeupAdd \/ TakeNext \/ CheckBlocked
             \/ Requeue \/ Transfer \/ WakeupRemove \/ ConsoleRelease
    <2>1. /\ UNCHANGED <<owner, references, thread, event>>
          /\ worker \notin {"none", "term"} /\ worker' # "clear"
      BY <1>4 DEF ConsoleAcquire, WakeupAdd, TakeNext, CheckBlocked, Requeue,
                  Transfer, WakeupRemove, ConsoleRelease, WorkerAt, threadVars
    <2>2. QED
      BY <2>1
  <1>5. CASE Allocate \/ Spawn \/ Reference
    BY <1>5 DEF Allocate, Spawn, Reference, OwnerAt, threadVars, IInv, SpawnOK
  <1>6. CASE FailDrop \/ FreeFailed
    BY <1>6 DEF FailDrop, FreeFailed, ReleaseThread, OwnerAt, threadVars
  <1>7. CASE AlertStore \/ AlertWake
    BY <1>7 DEF AlertStore, AlertWake, OwnerAt
  <1>8. CASE Join \/ Drain \/ Free
    BY <1>8 DEF Join, Drain, Free, OwnerAt, threadVars
  <1>9. ASSUME NEW i \in Irps,
               Send(i) \/ DispatchStep(i) \/ RequestCancel(i) \/ CancelRoutine(i)
        PROVE  PlacesOK'
    <2>1. /\ UNCHANGED <<owner, worker, references, thread>>
          /\ event' = event \/ event' = TRUE
      BY <1>9 DEF Send, DispatchStep, InsertTail, WakeAndArm, RequestCancel,
                  CancelRoutine, threadVars
    <2>2. QED
      BY <2>1
  <1>10. CASE ConsoleStep \/ UNCHANGED vars
    BY <1>1, <1>10 DEF ConsoleStep, BackendSends, BackendDrains, Deliver,
                       RivalTransfers, vars, threadVars
  <1>11. QED
    BY <1>2, <1>3, <1>4, <1>5, <1>6, <1>7, <1>8, <1>9, <1>10
    DEF Next, WorkerStep, OwnerStep, Finished

LEMMA PlacesInductive == Spec => []PlacesOK
  <1>1. Init => PlacesOK
    BY DEF Init, PlacesOK
  <1>2. QED
    BY <1>1, StepPlacesOK, StreamInductive, PTL DEF Spec

-----------------------------------------------------------------------------
(* StreamDestroy, when no dispatch routine or canceller runs into it.      *)

\* Only an open stream has anybody on the way into it, and the list is empty
\* once it has been drained.
CallersOK ==
    /\ owner # "open" => Quiescent
    /\ owner = "assert" => list = <<>>

\* With nobody in line and nobody inserting or being cancelled, no IRP is
\* left on the list.
LEMMA DrainedListIsEmpty ==
  ASSUME IInv, ListOK, Quiescent, NoneInLine PROVE list = <<>>
  <1>1. ASSUME NEW i \in Irps, On(list, i) PROVE FALSE
    <2>1. PICK k \in DOMAIN list : list[k] = i
      BY <1>1 DEF On
    <2>2. routine[i] = "armed"
      BY <1>1, IrpAssumption DEF ListOK, Quiescent, LockFree
    <2>3. QED
      BY <2>1, <2>2 DEF NoneInLine, InLine
  <1>2. QED
    BY <1>1, EmptyOn DEF ListOK

LEMMA StepCallersOK ==
  ASSUME ~Overlap, IInv, ListOK, PlacesOK, CallersOK, [Next]_vars
  PROVE  CallersOK'
  <1>1. CASE UNCHANGED <<owner, list, irp, routine, inserting>>
    BY <1>1 DEF CallersOK, Quiescent, LockFree
  <1>2. ASSUME NEW i \in Irps,
               Send(i) \/ DispatchStep(i) \/ RequestCancel(i) \/ CancelRoutine(i)
        PROVE  CallersOK'
    <2>1. UNCHANGED owner
      BY <1>2 DEF Send, DispatchStep, InsertTail, WakeAndArm, RequestCancel,
                  CancelRoutine
    <2>2. owner = "open"
      BY <1>2, IrpAssumption
      DEF CallersOK, Quiescent, LockFree, Send, DispatchStep, InsertTail,
          WakeAndArm, RequestCancel, CancelRoutine
    <2>3. QED
      BY <2>1, <2>2 DEF CallersOK
  <1>3. CASE WorkerStep
    <2>1. UNCHANGED <<owner, inserting>> /\ owner # "assert"
      BY <1>3
      DEF PlacesOK, WorkerStep, ConsoleAcquire, WakeupAdd, Wait, ClearEvent,
          TestAlerted, TakeNext, CheckBlocked, Requeue, Transfer, WakeupRemove,
          ConsoleRelease, FunctionReturns, Terminate, WorkerAt
    <2>2. CASE UNCHANGED <<list, irp, routine>>
      BY <2>1, <2>2, <1>1
    <2>3. CASE TakeNext
      <3>1. ASSUME NEW i \in Irps, RemoveNext(i),
                   irp' = [irp EXCEPT ![i] = "held"]
            PROVE  CallersOK'
        BY <2>1, <3>1, RemovedIsArmed
        DEF CallersOK, Quiescent, LockFree, IInv, Typed
      <3>2. QED
        BY <2>1, <2>2, <2>3, <3>1 DEF TakeNext
    <2>4. CASE Requeue
      <3>1. \A j \in Irps : /\ irp'[j] = "sent" => irp[j] = "sent"
                            /\ routine'[j] = "taken" => routine[j] = "taken"
        BY <2>4 DEF Requeue, Arm, Complete, IInv, Typed
      <3>2. QED
        BY <2>1, <3>1 DEF CallersOK, Quiescent, LockFree
    <2>5. CASE Transfer
      <3>1. \A j \in Irps : irp'[j] = "sent" => irp[j] = "sent"
        BY <2>5 DEF Transfer, Complete, IInv, Typed
      <3>2. UNCHANGED routine
        BY <2>5 DEF Transfer
      <3>3. QED
        BY <2>1, <3>1, <3>2 DEF CallersOK, Quiescent, LockFree
    <2>6. QED
      BY <1>3, <2>2, <2>3, <2>4, <2>5
      DEF WorkerStep, ConsoleAcquire, WakeupAdd, Wait, ClearEvent, TestAlerted,
          CheckBlocked, WakeupRemove, ConsoleRelease, FunctionReturns,
          Terminate, irpVars
  <1>4. CASE Drain
    <2>1. owner = "drain" /\ Quiescent
      BY <1>4 DEF Drain, OwnerAt, CallersOK
    <2>2. ASSUME NEW i \in Irps, OwnerAt("drain", "drain"), RemoveNext(i),
                 Complete(i, "cancelled")
          PROVE  CallersOK'
      BY <1>4, <2>1, <2>2, RemovedIsArmed
      DEF Drain, Complete, OwnerAt, CallersOK, Quiescent, LockFree, IInv, Typed
    <2>3. CASE NoneInLine /\ UNCHANGED <<list, irp, routine, completions>>
      BY <1>4, <2>1, <2>3, DrainedListIsEmpty
      DEF Drain, CallersOK, Quiescent, LockFree
    <2>4. QED
      BY <1>4, <2>2, <2>3 DEF Drain
  <1>5. ASSUME OwnerStep, ~Drain PROVE CallersOK'
    <2>1. UNCHANGED <<list, irp, routine, inserting>> /\ owner' # "assert"
      BY <1>5
      DEF OwnerStep, Allocate, Spawn, Reference, FailDrop, FreeFailed,
          AlertStore, AlertWake, Join, Free, OwnerAt, irpVars
    <2>2. CASE owner = "open"
      <3>1. Quiescent
        BY <1>5, <2>2
        DEF OwnerStep, Allocate, Spawn, Reference, FailDrop, FreeFailed,
            AlertStore, AlertWake, Join, Free, OwnerAt
      <3>2. QED
        BY <2>1, <3>1 DEF CallersOK, Quiescent, LockFree
    <2>3. CASE owner # "open"
      BY <2>1, <2>3 DEF CallersOK, Quiescent, LockFree
    <2>4. QED
      BY <2>2, <2>3
  <1>6. CASE ConsoleStep \/ UNCHANGED vars
    BY <1>1, <1>6 DEF ConsoleStep, BackendSends, BackendDrains, Deliver,
                      RivalTransfers, vars, irpVars
  <1>7. QED
    BY <1>2, <1>3, <1>4, <1>5, <1>6 DEF Next, Finished

LEMMA CallersInductive == ASSUME ~Overlap PROVE Spec => []CallersOK
  <1>1. Init => CallersOK
    BY DEF Init, CallersOK, Quiescent, LockFree
  <1>2. IInv /\ ListOK /\ PlacesOK /\ CallersOK /\ [Next]_vars => CallersOK'
    BY StepCallersOK
  <1>3. QED
    BY <1>1, <1>2, StreamInductive, ListInductive, PlacesInductive, PTL DEF Spec

\* StreamDestroy finds the list empty when it asserts so, if no dispatch
\* routine or canceller runs into it. (Otherwise it may not: see the run
\* stream_overlap.)
THEOREM DestroyFindsListEmpty ==
  ASSUME ~Overlap PROVE Spec => []DestroyAssertion
  <1>1. CallersOK => DestroyAssertion
    BY DEF CallersOK, DestroyAssertion
  <1>2. QED
    BY <1>1, CallersInductive, PTL

-----------------------------------------------------------------------------
(* What a stream promises to those who queue IRPs on it.                   *)

LEMMA AppendedLast ==
  ASSUME NEW S, NEW s \in Seq(S), NEW x \in S, ~On(s, x), NEW i, NEW j
  PROVE  Before(Append(s, x), i, j) <=> Before(s, i, j) \/ (On(s, i) /\ j = x)
  <1>1. /\ DOMAIN s = 1 .. Len(s) /\ Len(s) \in Nat
        /\ DOMAIN Append(s, x) = 1 .. Len(s) + 1
        /\ \A k \in 1 .. Len(s) + 1 :
              Append(s, x)[k] = IF k = Len(s) + 1 THEN x ELSE s[k]
    OBVIOUS
  <1> DEFINE t == Append(s, x)
  <1> HIDE DEF t
  <1>2. ASSUME Before(t, i, j) PROVE Before(s, i, j) \/ (On(s, i) /\ j = x)
    <2>1. PICK k, l \in 1 .. Len(s) + 1 : k < l /\ t[k] = i /\ t[l] = j
      BY <1>1, <1>2 DEF Before, t
    <2>2. k \in DOMAIN s /\ s[k] = i
      BY <1>1, <2>1 DEF t
    <2>3. CASE l = Len(s) + 1
      BY <1>1, <2>1, <2>2, <2>3 DEF On, t
    <2>4. CASE l # Len(s) + 1
      <3>1. l \in DOMAIN s /\ s[l] = j
        BY <1>1, <2>1, <2>4 DEF t
      <3>2. QED
        BY <2>1, <2>2, <3>1 DEF Before
    <2>5. QED
      BY <2>3, <2>4
  <1>3. ASSUME Before(s, i, j) PROVE Before(t, i, j)
    <2>1. PICK k, l \in 1 .. Len(s) : k < l /\ s[k] = i /\ s[l] = j
      BY <1>1, <1>3 DEF Before
    <2>2. k \in DOMAIN t /\ l \in DOMAIN t /\ t[k] = i /\ t[l] = j
      BY <1>1, <2>1 DEF t
    <2>3. QED
      BY <2>1, <2>2 DEF Before
  <1>4. ASSUME On(s, i), j = x PROVE Before(t, i, j)
    <2>1. PICK k \in 1 .. Len(s) : s[k] = i
      BY <1>1, <1>4 DEF On
    <2>2. /\ k \in DOMAIN t /\ Len(s) + 1 \in DOMAIN t /\ k < Len(s) + 1
          /\ t[k] = i /\ t[Len(s) + 1] = j
      BY <1>1, <1>4, <2>1 DEF t
    <2>3. QED
      BY <2>2 DEF Before
  <1>5. QED
    BY <1>2, <1>3, <1>4 DEF t

LEMMA PrefixedFirst ==
  ASSUME NEW S, NEW s \in Seq(S), NEW x \in S, NEW i, NEW j
  PROVE  Before(<<x>> \o s, i, j) <=> Before(s, i, j) \/ (i = x /\ On(s, j))
  <1> DEFINE t == <<x>> \o s
  <1>1. /\ DOMAIN s = 1 .. Len(s) /\ Len(s) \in Nat
        /\ DOMAIN t = 1 .. Len(s) + 1
        /\ t[1] = x
        /\ \A k \in 1 .. Len(s) + 1 : k # 1 => t[k] = s[k - 1]
    OBVIOUS
  <1> HIDE DEF t
  <1>2. ASSUME Before(t, i, j) PROVE Before(s, i, j) \/ (i = x /\ On(s, j))
    <2>1. PICK k, l \in 1 .. Len(s) + 1 : k < l /\ t[k] = i /\ t[l] = j
      BY <1>1, <1>2 DEF Before
    <2>2. l - 1 \in DOMAIN s /\ s[l - 1] = j
      BY <1>1, <2>1
    <2>3. CASE k = 1
      BY <1>1, <2>1, <2>2, <2>3 DEF On
    <2>4. CASE k # 1
      <3>1. k - 1 \in DOMAIN s /\ s[k - 1] = i /\ k - 1 < l - 1
        BY <1>1, <2>1, <2>4
      <3>2. QED
        BY <2>2, <3>1 DEF Before
    <2>5. QED
      BY <2>3, <2>4
  <1>3. ASSUME Before(s, i, j) PROVE Before(t, i, j)
    <2>1. PICK k, l \in 1 .. Len(s) : k < l /\ s[k] = i /\ s[l] = j
      BY <1>1, <1>3 DEF Before
    <2>2. /\ k + 1 \in DOMAIN t /\ l + 1 \in DOMAIN t /\ k + 1 < l + 1
          /\ t[k + 1] = i /\ t[l + 1] = j
      BY <1>1, <2>1
    <2>3. QED
      BY <2>2 DEF Before
  <1>4. ASSUME i = x, On(s, j) PROVE Before(t, i, j)
    <2>1. PICK l \in 1 .. Len(s) : s[l] = j
      BY <1>1, <1>4 DEF On
    <2>2. /\ 1 \in DOMAIN t /\ l + 1 \in DOMAIN t /\ 1 < l + 1
          /\ t[1] = i /\ t[l + 1] = j
      BY <1>1, <1>4, <2>1
    <2>3. QED
      BY <2>2 DEF Before
  <1>5. QED
    BY <1>2, <1>3, <1>4 DEF t

LEMMA RemovedBetween ==
  ASSUME NEW S, NEW s \in Seq(S), NEW n \in DOMAIN s, Distinct(s), NEW i, NEW j
  PROVE  Before(RemoveAt(s, n), i, j) <=> Before(s, i, j) /\ s[n] \notin {i, j}
  <1> DEFINE t == RemoveAt(s, n)
  <1>1. /\ DOMAIN s = 1 .. Len(s) /\ Len(s) \in Nat /\ n \in 1 .. Len(s)
        /\ DOMAIN t = 1 .. Len(s) - 1
        /\ \A k \in 1 .. Len(s) - 1 : t[k] = IF k < n THEN s[k] ELSE s[k + 1]
    BY RemovedAt
  <1> HIDE DEF t
  <1> DEFINE Was(k) == IF k < n THEN k ELSE k + 1
             Is(k) == IF k < n THEN k ELSE k - 1
  <1>2. ASSUME NEW k \in DOMAIN t
        PROVE  Was(k) \in DOMAIN s /\ t[k] = s[Was(k)] /\ Was(k) # n
    BY <1>1
  <1>3. ASSUME NEW k \in DOMAIN s, k # n
        PROVE  Is(k) \in DOMAIN t /\ t[Is(k)] = s[k]
    BY <1>1, <1>3
  <1>4. ASSUME NEW k \in DOMAIN t, NEW l \in DOMAIN t, k < l
        PROVE  Was(k) < Was(l)
    BY <1>1, <1>4
  <1>5. ASSUME NEW k \in DOMAIN s, NEW l \in DOMAIN s, k # n, l # n, k < l
        PROVE  Is(k) < Is(l)
    BY <1>1, <1>5
  <1> HIDE DEF Was, Is
  <1>6. ASSUME Before(t, i, j) PROVE Before(s, i, j) /\ s[n] \notin {i, j}
    <2>1. PICK k, l \in DOMAIN t : k < l /\ t[k] = i /\ t[l] = j
      BY <1>6 DEF Before
    <2>2. /\ Was(k) \in DOMAIN s /\ Was(l) \in DOMAIN s /\ Was(k) < Was(l)
          /\ s[Was(k)] = i /\ s[Was(l)] = j /\ Was(k) # n /\ Was(l) # n
      BY <1>2, <1>4, <2>1
    <2>3. QED
      BY <2>2 DEF Before, Distinct
  <1>7. ASSUME Before(s, i, j), s[n] \notin {i, j} PROVE Before(t, i, j)
    <2>1. PICK k, l \in DOMAIN s : k < l /\ s[k] = i /\ s[l] = j
      BY <1>7 DEF Before
    <2>2. k # n /\ l # n
      BY <1>7, <2>1
    <2>3. /\ Is(k) \in DOMAIN t /\ Is(l) \in DOMAIN t /\ Is(k) < Is(l)
          /\ t[Is(k)] = i /\ t[Is(l)] = j
      BY <1>3, <1>5, <2>1, <2>2
    <2>4. QED
      BY <2>3 DEF Before
  <1>8. QED
    BY <1>6, <1>7 DEF t

\* Before the stream is open nobody has sent anything, and it is freed when
\* its owner has done with it, not before.
LifeOK ==
    /\ owner \in {"none", "spawn", "reference", "failAlert", "failWake",
                  "drop", "free", "failed"} => \A i \in Irps : irp[i] = "new"
    /\ stream = IF owner \in {"gone", "failed"} THEN "freed" ELSE "live"

LEMMA StepLifeOK == IInv /\ LifeOK /\ [Next]_vars => LifeOK'
  <1> SUFFICES ASSUME IInv, LifeOK, [Next]_vars PROVE LifeOK'
    OBVIOUS
  <1> USE DEF LifeOK
  <1>1. CASE UNCHANGED <<irp, owner, stream>>
    BY <1>1
  <1>2. CASE OwnerStep
    <2>1. CASE Drain
      BY <2>1 DEF Drain, OwnerAt
    <2>2. CASE OwnerStep /\ ~Drain
      BY <2>2 DEF OwnerStep, Allocate, Spawn, Reference, FailDrop, FreeFailed,
                  AlertStore, AlertWake, Join, Free, OwnerAt, irpVars
    <2>3. QED
      BY <1>2, <2>1, <2>2
  <1>3. ASSUME NEW i \in Irps,
               Send(i) \/ DispatchStep(i) \/ RequestCancel(i) \/ CancelRoutine(i)
        PROVE  LifeOK'
    <2>1. UNCHANGED <<owner, stream>>
      BY <1>3 DEF Send, DispatchStep, InsertTail, WakeAndArm, RequestCancel,
                  CancelRoutine
    <2>2. owner = "open" \/ irp[i] # "new"
      BY <1>3 DEF Send, DispatchStep, InsertTail, WakeAndArm, RequestCancel,
                  CancelRoutine, IInv, InsertOK, RoutineOK
    <2>3. QED
      BY <2>1, <2>2
  <1>4. CASE TakeNext \/ Requeue \/ Transfer
    <2>1. UNCHANGED <<owner, stream>>
      BY <1>4 DEF TakeNext, Requeue, Transfer
    <2>2. UNCHANGED irp \/ \E i \in Irps : irp[i] # "new"
      <3>1. CASE TakeNext
        BY <3>1, RemovedIsArmed DEF TakeNext, IInv, RoutineOK
      <3>2. CASE Requeue \/ Transfer
        BY <3>2 DEF Requeue, Transfer, WorkerAt, IInv, HeldOK, Typed
      <3>3. QED
        BY <1>4, <3>1, <3>2
    <2>3. QED
      BY <2>1, <2>2
  <1>5. QED
    BY <1>1, <1>2, <1>3, <1>4
    DEF Next, WorkerStep, ConsoleAcquire, WakeupAdd, Wait, ClearEvent,
        TestAlerted, CheckBlocked, WakeupRemove, ConsoleRelease,
        FunctionReturns, Terminate, ConsoleStep, BackendSends, BackendDrains,
        Deliver, RivalTransfers, Finished, vars, irpVars

LEMMA LifeInductive == Spec => []LifeOK
  <1>1. Init => LifeOK
    BY DEF Init, LifeOK
  <1>2. QED
    BY <1>1, StepLifeOK, StreamInductive, PTL DEF Spec

\* Two relations that relate the same.
LEMMA SamePairs ==
  ASSUME NEW R, NEW S, \A p \in R \cup S : p = <<p[1], p[2]>>,
         \A i, j : <<i, j>> \in R <=> <<i, j>> \in S
  PROVE  R = S
  <1>1. ASSUME NEW p \in R PROVE p \in S
    BY <1>1
  <1>2. ASSUME NEW p \in S PROVE p \in R
    BY <1>2
  <1>3. QED
    BY <1>1, <1>2

LEMMA WhoIsAhead ==
  /\ \A p \in Ahead : p = <<p[1], p[2]>>
  /\ \A i, j : <<i, j>> \in Ahead <=> i \in Waiting /\ j \in Waiting /\ Earlier(i, j)
  BY DEF Ahead

LEMMA WhoIsAheadThen ==
  /\ \A p \in Ahead' : p = <<p[1], p[2]>>
  /\ \A i, j : <<i, j>> \in Ahead'
                  <=> i \in Waiting' /\ j \in Waiting' /\ Earlier(i, j)'
  BY DEF Ahead

\* The same IRPs are in line, in the same order.
LEMMA LineStays ==
  ASSUME Waiting' = Waiting,
         \A i, j \in Waiting : Earlier(i, j)' <=> Earlier(i, j)
  PROVE  Ahead' = Ahead
  <1>1. \A i, j : <<i, j>> \in Ahead' <=> <<i, j>> \in Ahead
    BY WhoIsAhead, WhoIsAheadThen
  <1>2. \A p \in Ahead' \cup Ahead : p = <<p[1], p[2]>>
    BY WhoIsAhead, WhoIsAheadThen
  <1>3. QED
    BY ONLY <1>1, <1>2, SamePairs

\* One leaves the line, the others stay in order.
LEMMA OneLeaves ==
  ASSUME NEW i \in Waiting, Waiting' = Waiting \ {i},
         \A j, k \in Waiting : i \notin {j, k} => (Earlier(j, k)' <=> Earlier(j, k))
  PROVE  Queue!Leave(i)
  <1> DEFINE Q == {p \in Ahead : i \notin {p[1], p[2]}}
  <1>1. \A p \in Ahead' \cup Q : p = <<p[1], p[2]>>
    BY WhoIsAhead, WhoIsAheadThen
  <1>2. \A j, k : <<j, k>> \in Ahead' <=> <<j, k>> \in Q
    BY WhoIsAhead, WhoIsAheadThen
  <1> HIDE DEF Q
  <1>3. Ahead' = Q
    BY ONLY <1>1, <1>2, SamePairs
  <1>4. QED
    BY <1>3 DEF Q, Queue!Leave

LEMMA WhoWaits ==
  ASSUME NEW i \in Irps
  PROVE  /\ i \in Waiting <=> i = held \/ (routine[i] # "taken" /\ On(list, i))
         /\ i \in Waiting' <=> i = held' \/ (routine'[i] # "taken" /\ On(list', i))
  BY DEF Waiting, On

\* Removed from the list, for good.
LEMMA UnlinkedLeaves ==
  ASSUME IInv, ListOK, NEW n \in DOMAIN list, NEW i \in Irps, list[n] = i,
         list' = RemoveAt(list, n), held' = held,
         \A j \in Irps : j # i => routine'[j] = routine[j]
  PROVE  /\ i # held
         /\ Waiting' = Waiting \ {i}
         /\ \A j, k \in Waiting :
               i \notin {j, k} => (Earlier(j, k)' <=> Earlier(j, k))
  <1>1. irp[i] = "listed" /\ i # held
    BY IrpAssumption DEF ListOK, On, IInv, HeldOK
  <1>2. \A j : On(list', j) <=> On(list, j) /\ j # i
    BY Removed DEF ListOK
  <1>3. \A j, k : i \notin {j, k} => (Before(list', j, k) <=> Before(list, j, k))
    BY RemovedBetween DEF ListOK
  <1>4. \A j \in Irps : j \in Waiting' <=> j \in Waiting /\ j # i
    BY <1>1, <1>2, WhoWaits
  <1>5. Waiting' = Waiting \ {i}
    BY <1>4 DEF Waiting
  <1>6. QED
    BY <1>1, <1>3, <1>5 DEF Earlier

\* The worker has done with the one it held.
LEMMA HeldLeaves ==
  ASSUME IInv, ListOK, held \in Irps, held' = NoIrp,
         list' = list,
         \A j \in Irps : j # held => routine'[j] = routine[j]
  PROVE  /\ held \in Waiting
         /\ Waiting' = Waiting \ {held}
         /\ \A j, k \in Waiting :
               held \notin {j, k} => (Earlier(j, k)' <=> Earlier(j, k))
  <1>1. ~On(list, held)
    BY IrpAssumption DEF ListOK, IInv, HeldOK
  <1>2. \A j \in Irps : j \in Waiting' <=> j \in Waiting /\ j # held
    BY <1>1, WhoWaits, IrpAssumption
  <1>3. Waiting' = Waiting \ {held}
    BY <1>2 DEF Waiting
  <1>4. \A k \in Waiting : k \in Irps /\ k # NoIrp
    BY IrpAssumption DEF Waiting
  <1>5. QED
    BY <1>3, <1>4, WhoWaits DEF Earlier

\* It has put it back where it was.
LEMMA HeldReturns ==
  ASSUME IInv, ListOK, held \in Irps, held' = NoIrp,
         list' = <<held>> \o list,
         routine' = [routine EXCEPT ![held] = "armed"]
  PROVE  /\ Waiting' = Waiting
         /\ \A j, k \in Waiting : Earlier(j, k)' <=> Earlier(j, k)
  <1>1. ~On(list, held)
    BY IrpAssumption DEF ListOK, IInv, HeldOK
  <1>2. \A j : On(list', j) <=> On(list, j) \/ j = held
    BY <1>1, Prefixed DEF ListOK
  <1>3. \A j \in Irps : routine'[j] = IF j = held THEN "armed" ELSE routine[j]
    BY DEF IInv, Typed
  <1>4. \A j \in Irps : j \in Waiting' <=> j \in Waiting
    BY <1>1, <1>2, <1>3, WhoWaits, IrpAssumption
  <1>5. Waiting' = Waiting
    BY <1>4 DEF Waiting
  <1>6. ASSUME NEW j \in Waiting, NEW k \in Waiting
        PROVE  Earlier(j, k)' <=> Earlier(j, k)
    <2>1. j \in Irps /\ k \in Irps /\ j # NoIrp /\ k # NoIrp
      BY IrpAssumption DEF Waiting
    <2>2. k # held => On(list, k)
      BY <2>1, WhoWaits
    <2>3. Before(list', j, k) <=> Before(list, j, k) \/ (j = held /\ On(list, k))
      BY PrefixedFirst DEF ListOK
    <2>4. k = held => ~Before(list, j, k)
      BY <1>1 DEF Before, On
    <2>5. QED
      BY <1>1, <2>1, <2>2, <2>3, <2>4 DEF Earlier
  <1>7. QED
    BY <1>5, <1>6

\* It has taken the first in line.
LEMMA FirstIsHeld ==
  ASSUME IInv, ListOK, LockFree, held = NoIrp,
         NEW i \in Irps, RemoveNext(i), held' = i
  PROVE  /\ Waiting' = Waiting
         /\ \A j, k \in Waiting : Earlier(j, k)' <=> Earlier(j, k)
  <1>1. PICK n \in DOMAIN list :
          /\ InLine(n) /\ list[n] = i /\ list' = RemoveAt(list, n)
          /\ \A m \in 1 .. n - 1 : ~InLine(m)
    BY DEF RemoveNext
  <1>2. routine[i] = "armed" /\ \A j \in Irps : j # i => routine'[j] = routine[j]
    BY RemovedIsArmed DEF IInv, Typed
  <1>3. \A j : On(list', j) <=> On(list, j) /\ j # i
    BY <1>1, Removed DEF ListOK
  <1>4. On(list, i)
    BY <1>1 DEF On
  <1>5. \A j \in Irps : j \in Waiting' <=> j \in Waiting
    BY <1>2, <1>3, <1>4, WhoWaits, IrpAssumption
  <1>6. Waiting' = Waiting
    BY <1>5 DEF Waiting
  <1>7. ASSUME NEW j \in Waiting, j # i
        PROVE  Before(list, i, j) /\ ~Before(list, j, i)
    <2>1. j \in Irps /\ On(list, j) /\ routine[j] = "armed"
      BY WhoWaits, IrpAssumption DEF Waiting, ListOK, LockFree
    <2>2. PICK m \in DOMAIN list : list[m] = j
      BY <2>1 DEF On
    <2>3. m \in Nat /\ n \in Nat /\ m >= 1 /\ ~(m \in 1 .. n - 1) /\ m # n
      BY <1>1, <1>7, <2>1, <2>2 DEF InLine, ListOK
    <2>4. n < m
      BY <2>3
    <2>5. \A l \in DOMAIN list : (list[l] = i => l = n) /\ (list[l] = j => l = m)
      BY <1>1, <2>2 DEF ListOK, Distinct
    <2>6. Before(list, i, j)
      BY <1>1, <2>2, <2>4 DEF Before
    <2>7. ASSUME Before(list, j, i) PROVE FALSE
      <3>1. m < n
        BY <2>5, <2>7 DEF Before
      <3>2. QED
        BY <2>3, <2>4, <3>1
    <2>8. QED
      BY <2>6, <2>7
  <1>8. ASSUME NEW j \in Waiting, NEW k \in Waiting
        PROVE  Earlier(j, k)' <=> Earlier(j, k)
    <2>1. Before(list', j, k) <=> Before(list, j, k) /\ i \notin {j, k}
      BY <1>1, RemovedBetween DEF ListOK
    <2>2. j # NoIrp /\ k # NoIrp
      BY IrpAssumption DEF Waiting
    <2>3. ~Before(list, i, i)
      <3>1. \A l \in DOMAIN list : list[l] = i => l = n
        BY <1>1 DEF ListOK, Distinct
      <3>2. n \in Nat
        BY <1>1 DEF ListOK
      <3>3. QED
        BY <3>1, <3>2 DEF Before
    <2>4. QED
      BY <1>7, <2>1, <2>2, <2>3 DEF Earlier
  <1>9. QED
    BY <1>6, <1>8

\* Nothing that the promise is about.
LEMMA QueueStutters ==
  ASSUME UNCHANGED <<list, held, irp, routine, owner>>
  PROVE  UNCHANGED Queue!vars
  BY DEF Queue!vars, Waiting, Ahead, Earlier

\* Who waits has not been completed, and is not being cancelled.
LEMMA WaitersPend ==
  ASSUME IInv, ListOK, NEW i \in Waiting
  PROVE  i \in Irps /\ irp[i] \in {"listed", "held"} /\ routine[i] # "taken"
  BY IrpAssumption DEF Waiting, IInv, HeldOK, ListOK, On, RoutineOK

\* An IRP is taken out of the line and completed as cancelled, by the drain, or
\* because its insertion finds it cancelled.
LEMMA CancelsInLine ==
  ASSUME IInv, ListOK, NEW i \in Waiting, Queue!Leave(i),
         Complete(i, "cancelled"),
         \A j \in Irps : routine'[j] = "taken" <=> routine[j] = "taken",
         owner' \in {"gone", "failed"} <=> owner \in {"gone", "failed"}
  PROVE  Queue!Cancel(i)
  <1>1. i \in Irps /\ irp[i] \in {"listed", "held"}
    BY WaitersPend
  <1>2. \A j \in Irps : irp'[j] = IF j = i THEN "cancelled" ELSE irp[j]
    BY DEF Complete, IInv, Typed
  <1>3. QED
    BY <1>1, <1>2 DEF Queue!Cancel

LEMMA IrpKeepsPromises ==
  ASSUME ~Overlap, IInv, ListOK, LifeOK, CallersOK, NEW i \in Irps,
         Send(i) \/ DispatchStep(i) \/ RequestCancel(i) \/ CancelRoutine(i)
  PROVE  Queue!Next \/ UNCHANGED Queue!vars
  <1>1. CASE Send(i)
    <2>1. \A j \in Irps : irp'[j] = IF j = i THEN "sent" ELSE irp[j]
      BY <1>1 DEF Send, IInv, Typed
    <2>2. irp[i] = "new" /\ UNCHANGED <<list, held, routine, owner>>
      BY <1>1 DEF Send
    <2>3. Waiting' = Waiting /\ Ahead' = Ahead
      BY <2>2 DEF Waiting, Ahead, Earlier
    <2>4. QED
      BY <2>1, <2>2, <2>3 DEF Queue!vars
  <1>2. ASSUME InsertTail(i), stream = "live", thread = "live"
        PROVE  Queue!Next
    <2>1. /\ irp[i] = "sent" /\ list' = Append(list, i)
          /\ UNCHANGED <<held, routine, owner>>
          /\ \A j \in Irps : irp'[j] = IF j = i THEN "listed" ELSE irp[j]
      BY <1>2 DEF InsertTail, IInv, Typed
    <2>2. ~On(list, i) /\ routine[i] = "null" /\ i # held
      BY <2>1, IrpAssumption DEF ListOK, IInv, RoutineOK, Typed, HeldOK
    <2>3. \A j : On(list', j) <=> On(list, j) \/ j = i
      BY <2>1, <2>2, Appended DEF ListOK
    <2>4. \A j \in Irps : j \in Waiting' <=> j \in Waiting \/ j = i
      BY <2>1, <2>2, <2>3, WhoWaits
    <2>5. Waiting' = Waiting \cup {i} /\ i \notin Waiting
      BY <2>1, <2>2, <2>4, WhoWaits DEF Waiting
    <2>6. ASSUME NEW j, NEW k
          PROVE  <<j, k>> \in Ahead' <=> <<j, k>> \in Ahead \cup Waiting \X {i}
      <3>1. Before(list', j, k) <=> Before(list, j, k) \/ (On(list, j) /\ k = i)
        BY <2>1, <2>2, AppendedLast DEF ListOK
      <3>2. j \in Waiting => j = held \/ On(list, j)
        BY WhoWaits DEF Waiting
      <3>3. i \in {j, k} => ~Before(list, j, k)
        BY <2>2 DEF Before, On
      <3>4. CASE k = i
        BY <2>1, <2>2, <2>5, <3>1, <3>2, <3>3, <3>4, WhoIsAhead, WhoIsAheadThen
        DEF Earlier
      <3>5. CASE k # i
        BY <2>1, <2>2, <2>5, <3>1, <3>3, <3>5, WhoIsAhead, WhoIsAheadThen
        DEF Earlier
      <3>6. QED
        BY <3>4, <3>5
    <2>7. \A p \in Ahead' \cup (Ahead \cup Waiting \X {i}) : p = <<p[1], p[2]>>
      BY WhoIsAhead, WhoIsAheadThen
    <2>8. Ahead' = Ahead \cup Waiting \X {i}
      BY ONLY <2>6, <2>7, SamePairs
    <2>9. owner \notin {"gone", "failed"}
      BY <1>2 DEF LifeOK
    <2>10. Queue!Accept(i)
      BY <2>1, <2>2, <2>5, <2>8, <2>9 DEF Queue!Accept, Queue!Accepted
    <2>11. QED
      BY <2>10 DEF Queue!Next
  <1>3. CASE WakeAndArm(i)
    <2>1. /\ irp[i] = "listed" /\ routine[i] = "null" /\ On(list, i)
          /\ UNCHANGED <<held, owner>>
      BY <1>3 DEF WakeAndArm, IInv, InsertOK, ListOK
    <2>2. i \in Waiting
      BY <2>1, WhoWaits
    <2>3. CASE cancel[i]
      <3>1. list' = Unlinked(i) /\ Complete(i, "cancelled") /\ UNCHANGED routine
        BY <1>3, <2>3 DEF WakeAndArm, Arm
      <3>2. PICK n \in DOMAIN list : list[n] = i /\ list' = RemoveAt(list, n)
        BY <2>1, <3>1 DEF Unlinked, On
      <3>3. Queue!Leave(i)
        BY <2>1, <2>2, <3>1, <3>2, UnlinkedLeaves, OneLeaves
      <3>4. QED
        BY <2>1, <2>2, <3>1, <3>3, CancelsInLine DEF Queue!Next
    <2>4. CASE ~cancel[i]
      <3>1. list' = list /\ irp' = irp
        <4>1. list' = list /\ irp' = [irp EXCEPT ![i] = "listed"]
          BY <1>3, <2>4 DEF WakeAndArm, Arm
        <4>2. QED
          BY <2>1, <4>1 DEF IInv, Typed
      <3>2. \A j \in Irps : routine'[j] = IF j = i THEN "armed" ELSE routine[j]
        BY <1>3, <2>4 DEF WakeAndArm, Arm, IInv, Typed
      <3>3. Waiting' = Waiting
        BY <2>1, <3>1, <3>2 DEF Waiting
      <3>4. Ahead' = Ahead
        BY <2>1, <3>1, <3>3 DEF Ahead, Earlier
      <3>5. QED
        BY <2>1, <3>1, <3>2, <3>3, <3>4 DEF Queue!vars
    <2>5. QED
      BY <2>3, <2>4
  <1>4. CASE RequestCancel(i)
    <2>1. UNCHANGED <<list, held, irp, owner>>
      BY <1>4 DEF RequestCancel
    <2>2. CASE routine[i] # "armed"
      <3>1. routine' = routine
        BY <1>4, <2>2 DEF RequestCancel, IInv, Typed
      <3>2. QED
        BY <2>1, <3>1, QueueStutters
    <2>3. CASE routine[i] = "armed"
      <3>1. \A j \in Irps : routine'[j] = IF j = i THEN "taken" ELSE routine[j]
        BY <1>4, <2>3 DEF RequestCancel, IInv, Typed
      <3>2. irp[i] = "listed" /\ On(list, i) /\ i # held
        BY <2>3, IrpAssumption DEF IInv, RoutineOK, HeldOK, ListOK
      <3>3. i \in Waiting
        BY <2>3, <3>2, WhoWaits
      <3>4. Waiting' = Waiting \ {i}
        BY <2>1, <3>1, <3>2 DEF Waiting
      <3>5. Queue!Leave(i)
        BY <2>1, <3>3, <3>4, OneLeaves DEF Earlier
      <3>6. Queue!Doom(i)
        BY <2>1, <3>1, <3>5 DEF Queue!Doom
      <3>7. QED
        BY <3>6 DEF Queue!Next
    <2>4. QED
      BY <2>2, <2>3
  <1>5. CASE CancelRoutine(i)
    <2>1. /\ routine[i] = "taken" /\ irp[i] = "listed" /\ On(list, i)
          /\ list' = Unlinked(i) /\ UNCHANGED <<held, owner>>
      BY <1>5 DEF CancelRoutine, IInv, RoutineOK, ListOK
    <2>2. /\ \A j \in Irps : routine'[j] = IF j = i THEN "null" ELSE routine[j]
          /\ \A j \in Irps : irp'[j] = IF j = i THEN "cancelled" ELSE irp[j]
      <3>1. stream = "live"
        BY <2>1 DEF CallersOK, Quiescent, LifeOK
      <3>2. QED
        BY <1>5, <3>1 DEF CancelRoutine, Complete, IInv, Typed
    <2>3. PICK n \in DOMAIN list : list[n] = i /\ list' = RemoveAt(list, n)
      BY <2>1 DEF Unlinked, On
    <2>4. /\ i # held /\ Waiting' = Waiting \ {i}
          /\ \A j, k \in Waiting :
                i \notin {j, k} => (Earlier(j, k)' <=> Earlier(j, k))
      BY <2>1, <2>2, <2>3, UnlinkedLeaves
    <2>5. i \notin Waiting
      BY <2>1, <2>4, WhoWaits
    <2>6. Waiting' = Waiting /\ Ahead' = Ahead
      BY <2>4, <2>5, LineStays
    <2>7. Queue!CancelDoomed(i)
      BY <2>1, <2>2, <2>6 DEF Queue!CancelDoomed
    <2>8. QED
      BY <2>7 DEF Queue!Next
  <1>6. ASSUME InsertTail(i), ~(stream = "live" /\ thread = "live")
        PROVE  UNCHANGED Queue!vars
    <2>1. /\ irp[i] = "sent" /\ UNCHANGED <<list, held, routine, owner>>
          /\ \A j \in Irps : irp'[j] = IF j = i THEN "astray" ELSE irp[j]
      BY <1>6 DEF InsertTail, IInv, Typed
    <2>2. Waiting' = Waiting /\ Ahead' = Ahead
      BY <2>1 DEF Waiting, Ahead, Earlier
    <2>3. QED
      BY <2>1, <2>2 DEF Queue!vars
  <1>7. QED
    BY <1>1, <1>2, <1>3, <1>4, <1>5, <1>6 DEF DispatchStep

LEMMA WorkerKeepsPromises ==
  ASSUME IInv, ListOK, WorkerStep
  PROVE  Queue!Next \/ UNCHANGED Queue!vars
  <1>1. CASE UNCHANGED <<list, held, irp, routine, owner>>
    BY <1>1, QueueStutters
  <1>2. CASE TakeNext
    <2>1. CASE WorkerAt("next", "wait")
      BY <1>1, <1>2, <2>1 DEF TakeNext, WorkerAt
    <2>2. ASSUME NEW i \in Irps, WorkerAt("next", "check"), RemoveNext(i),
                 held' = i, irp' = [irp EXCEPT ![i] = "held"]
          PROVE  UNCHANGED Queue!vars
      <3>1. LockFree /\ held = NoIrp /\ UNCHANGED owner
        BY <1>2, <2>2 DEF TakeNext, WorkerAt, IInv, HeldOK
      <3>2. Waiting' = Waiting /\ Ahead' = Ahead
        BY <2>2, <3>1, FirstIsHeld, LineStays
      <3>3. /\ routine[i] = "armed" /\ irp[i] = "listed"
            /\ \A j \in Irps : routine'[j] = IF j = i THEN "null" ELSE routine[j]
            /\ \A j \in Irps : irp'[j] = IF j = i THEN "held" ELSE irp[j]
        BY <2>2, RemovedIsArmed DEF IInv, Typed, RoutineOK
      <3>4. QED
        BY <3>1, <3>2, <3>3 DEF Queue!vars
    <2>3. QED
      BY <1>2, <2>1, <2>2 DEF TakeNext
  <1>3. CASE Requeue
    <2>1. /\ held \in Irps /\ irp[held] = "held" /\ routine[held] = "null"
          /\ held' = NoIrp /\ UNCHANGED owner
      BY <1>3 DEF Requeue, IInv, HeldOK, RoutineOK, Typed, WorkerAt
    <2>2. CASE cancel[held]
      <3>1. list' = list /\ Complete(held, "cancelled") /\ UNCHANGED routine
        BY <1>3, <2>2 DEF Requeue, Arm
      <3>2. held \in Waiting /\ Queue!Leave(held)
        BY <2>1, <3>1, HeldLeaves, OneLeaves
      <3>3. QED
        BY <2>1, <3>1, <3>2, CancelsInLine DEF Queue!Next
    <2>3. CASE ~cancel[held]
      <3>1. /\ list' = <<held>> \o list
            /\ irp' = [irp EXCEPT ![held] = "listed"]
            /\ routine' = [routine EXCEPT ![held] = "armed"]
        BY <1>3, <2>3 DEF Requeue, Arm
      <3>2. Waiting' = Waiting /\ Ahead' = Ahead
        BY <2>1, <3>1, HeldReturns, LineStays
      <3>3. /\ \A j \in Irps : irp'[j] = IF j = held THEN "listed" ELSE irp[j]
            /\ \A j \in Irps :
                  routine'[j] = IF j = held THEN "armed" ELSE routine[j]
        BY <3>1 DEF IInv, Typed
      <3>4. QED
        BY <2>1, <3>2, <3>3 DEF Queue!vars
    <2>4. QED
      BY <2>2, <2>3
  <1>4. CASE Transfer
    <2>1. PICK i \in Irps : i = held
      BY <1>4 DEF Transfer, IInv, HeldOK, Typed, WorkerAt
    <2>2. /\ irp[i] = "held" /\ held' = NoIrp
          /\ UNCHANGED <<list, routine, owner>>
          /\ \A j \in Irps : irp'[j] = IF j = i THEN "served" ELSE irp[j]
      BY <1>4, <2>1, IrpAssumption DEF Transfer, Complete, IInv, HeldOK, Typed
    <2>3. i \in Waiting /\ Queue!Leave(i)
      BY <2>1, <2>2, HeldLeaves, OneLeaves
    <2>4. \A j \in Waiting : <<j, i>> \notin Ahead
      BY <2>1, WhoIsAhead DEF Earlier
    <2>5. Queue!Serve(i)
      BY <2>2, <2>3, <2>4 DEF Queue!Serve
    <2>6. QED
      BY <2>5 DEF Queue!Next
  <1>5. QED
    BY <1>1, <1>2, <1>3, <1>4
    DEF WorkerStep, ConsoleAcquire, WakeupAdd, Wait, ClearEvent, TestAlerted,
        CheckBlocked, WakeupRemove, ConsoleRelease, FunctionReturns, Terminate,
        irpVars

\* The stream is freed with nobody in line.
LEMMA ClosesEmpty ==
  ASSUME IInv, ListOK, held = NoIrp, \A i \in Irps : ~On(list, i),
         UNCHANGED <<list, held, irp, routine>>,
         owner \notin {"gone", "failed"}, owner' \in {"gone", "failed"}
  PROVE  Queue!Close
  <1>1. \A i \in Irps : routine[i] # "taken"
    BY DEF ListOK, IInv, RoutineOK
  <1>2. Waiting = {}
    BY IrpAssumption DEF Waiting, On
  <1>3. Waiting' = Waiting /\ Ahead' = Ahead
    BY DEF Waiting, Ahead, Earlier
  <1>4. QED
    BY <1>1, <1>2, <1>3 DEF Queue!Close

LEMMA OwnerKeepsPromises ==
  ASSUME IInv, ListOK, PlacesOK, LifeOK, CallersOK, OwnerStep
  PROVE  Queue!Next \/ UNCHANGED Queue!vars
  <1>1. CASE Drain
    <2>1. CASE OwnerAt("drain", "drain")
      <3>1. PICK i \in Irps : RemoveNext(i) /\ Complete(i, "cancelled")
        BY <1>1, <2>1 DEF Drain, OwnerAt
      <3>2. /\ owner = "drain" /\ owner' = "drain" /\ held = NoIrp
            /\ held' = held
        BY <1>1, <2>1, IrpAssumption DEF Drain, OwnerAt, PlacesOK, IInv, HeldOK
      <3>3. PICK n \in DOMAIN list : list[n] = i /\ list' = RemoveAt(list, n)
        BY <3>1 DEF RemoveNext
      <3>4. /\ routine[i] = "armed"
            /\ \A j \in Irps : routine'[j] = IF j = i THEN "null" ELSE routine[j]
        BY <3>1, RemovedIsArmed DEF IInv, Typed
      <3>5. i \in Waiting
        BY <3>3, <3>4, WhoWaits DEF On
      <3>6. Queue!Leave(i)
        BY <3>2, <3>3, <3>4, <3>5, UnlinkedLeaves, OneLeaves
      <3>7. QED
        BY <3>1, <3>2, <3>4, <3>5, <3>6, CancelsInLine DEF Queue!Next
    <2>2. CASE OwnerAt("drain", "assert") /\ UNCHANGED <<list, irp, routine>>
      <3>1. Waiting' = Waiting /\ Ahead' = Ahead
        BY <1>1, <2>2 DEF Drain, Waiting, Ahead, Earlier
      <3>2. QED
        BY <2>2, <3>1 DEF OwnerAt, Queue!vars
    <2>3. QED
      BY <1>1, <2>1, <2>2 DEF Drain
  <1>2. CASE FreeFailed
    <2>1. /\ owner = "free" /\ owner' = "failed"
          /\ UNCHANGED <<list, held, irp, routine>>
      BY <1>2 DEF FreeFailed, OwnerAt, irpVars
    <2>2. \A i \in Irps : irp[i] = "new"
      BY <2>1 DEF LifeOK
    <2>3. held = NoIrp /\ \A i \in Irps : ~On(list, i)
      BY <2>2 DEF IInv, HeldOK, Typed, ListOK
    <2>4. QED
      BY <2>1, <2>3, ClosesEmpty DEF Queue!Next
  <1>3. CASE Free
    <2>1. /\ owner = "assert" /\ owner' = "gone" /\ list = <<>>
          /\ UNCHANGED <<list, held, irp, routine>>
      BY <1>3 DEF Free, OwnerAt, CallersOK, irpVars
    <2>2. held = NoIrp
      BY <2>1 DEF PlacesOK, IInv, HeldOK
    <2>3. \A i \in Irps : ~On(list, i)
      BY <2>1 DEF On
    <2>4. QED
      BY <2>1, <2>2, <2>3, ClosesEmpty DEF Queue!Next
  <1>4. CASE OwnerStep /\ ~Drain /\ ~FreeFailed /\ ~Free
    <2>1. UNCHANGED <<list, held, irp, routine>>
      BY <1>4 DEF OwnerStep, Allocate, Spawn, Reference, FailDrop, AlertStore,
                  AlertWake, Join, irpVars
    <2>2. owner \notin {"gone", "failed"} /\ owner' \notin {"gone", "failed"}
      BY <1>4 DEF OwnerStep, Allocate, Spawn, Reference, FailDrop, AlertStore,
                  AlertWake, Join, OwnerAt
    <2>3. Waiting' = Waiting /\ Ahead' = Ahead
      BY <2>1 DEF Waiting, Ahead, Earlier
    <2>4. QED
      BY <2>1, <2>2, <2>3 DEF Queue!vars
  <1>5. QED
    BY <1>1, <1>2, <1>3, <1>4

\* The stream implements IrpQueue, whatever fails, if no dispatch routine or
\* canceller runs into StreamDestroy: every IRP that was accepted is completed
\* once, it is served only when nobody in line came before it (an IRP that is
\* put back keeps its place), and when the stream is freed nobody is left.
THEOREM StreamKeepsPromises == ASSUME ~Overlap PROVE Spec => KeepsPromises
  <1>1. Init => Queue!Init
    <2> SUFFICES ASSUME Init PROVE Queue!Init
      OBVIOUS
    <2>1. \A i \in Irps : ~On(list, i) /\ i # held
      BY IrpAssumption DEF Init, On
    <2>2. Waiting = {} /\ Ahead = {}
      BY <2>1 DEF Waiting, Ahead, On
    <2>3. owner = "none" /\ \A i \in Irps : irp[i] = "new" /\ routine[i] = "null"
      BY DEF Init
    <2>4. QED
      BY <2>2, <2>3 DEF Queue!Init
  <1>2. IInv /\ ListOK /\ PlacesOK /\ LifeOK /\ CallersOK /\ [Next]_vars
            => [Queue!Next]_(Queue!vars)
    <2>1. SUFFICES ASSUME IInv, ListOK, PlacesOK, LifeOK, CallersOK, [Next]_vars
                   PROVE  Queue!Next \/ UNCHANGED Queue!vars
      OBVIOUS
    <2>2. CASE ConsoleStep \/ Finished \/ UNCHANGED vars
      BY <2>2, QueueStutters
      DEF ConsoleStep, BackendSends, BackendDrains, Deliver, RivalTransfers,
          Finished, vars, irpVars
    <2>3. QED
      BY <2>1, <2>2, IrpKeepsPromises, WorkerKeepsPromises, OwnerKeepsPromises
      DEF Next
  <1>3. QED
    BY <1>1, <1>2, StreamInductive, ListInductive, PlacesInductive,
       LifeInductive, CallersInductive, PTL DEF Spec, KeepsPromises, Queue!Spec

-----------------------------------------------------------------------------
(* What the worker goes to sleep over.                                     *)

\* The event is set, or is about to be.
Signalled == event \/ notify \/ ~LockFree

\* An IRP whose cancel routine was taken has been cancelled, so that only the
\* removal of a cancelled IRP brings another to the front of the list.
TakenOK == \A i \in Irps : routine[i] = "taken" => cancel[i]

\* Before the worker waits for the first time nobody signals its event but an
\* insertion; a worker that puts an IRP back has seen the ring block it; and
\* one that waits can serve nobody in line (with IRPs of one kind) or not the
\* first (while none was cancelled).
WakeOK ==
    /\ worker \in {"none", "acquire", "add"} => list = <<>> \/ event \/ ~LockFree
    /\ worker = "requeue" => Signalled \/ ~CanServe(held)
    /\ worker = "wait" /\ OneKind =>
          Signalled \/ \A i \in Irps : routine[i] = "armed" => ~CanServe(i)
    /\ worker = "wait" /\ (\A i \in Irps : ~cancel[i]) =>
          Signalled \/ list = <<>> \/ ~CanServe(list[1])

LEMMA StepTakenOK == IInv /\ TakenOK /\ [Next]_vars => TakenOK'
  <1> SUFFICES ASSUME IInv, TakenOK, [Next]_vars PROVE TakenOK'
    OBVIOUS
  <1>1. ASSUME NEW i \in Irps,
               Send(i) \/ DispatchStep(i) \/ RequestCancel(i) \/ CancelRoutine(i)
        PROVE  TakenOK'
    BY <1>1 DEF TakenOK, Send, DispatchStep, InsertTail, WakeAndArm, Arm,
                RequestCancel, CancelRoutine, IInv, Typed
  <1>2. CASE TakeNext \/ Drain
    BY <1>2, RemovedIsArmed DEF TakenOK, TakeNext, Drain, IInv, Typed
  <1>3. CASE Requeue
    BY <1>3 DEF TakenOK, Requeue, Arm, IInv, Typed
  <1>4. CASE UNCHANGED <<cancel, routine>>
    BY <1>4 DEF TakenOK
  <1>5. QED
    BY <1>1, <1>2, <1>3, <1>4
    DEF Next, WorkerStep, OwnerStep, ConsoleStep, Finished, ConsoleAcquire,
        WakeupAdd, Wait, ClearEvent, TestAlerted, CheckBlocked, Transfer,
        WakeupRemove, ConsoleRelease, FunctionReturns, Terminate, Allocate,
        Spawn, Reference, FailDrop, FreeFailed, AlertStore, AlertWake, Join,
        Free, BackendSends, BackendDrains, Deliver, RivalTransfers, vars,
        irpVars

LEMMA TakenInductive == Spec => []TakenOK
  <1>1. Init => TakenOK
    BY DEF Init, TakenOK
  <1>2. QED
    BY <1>1, StepTakenOK, StreamInductive, PTL DEF Spec

\* With no IRP in line and no insertion under way none has a cancel routine.
LEMMA NoneArmed ==
  ASSUME IInv, ListOK, NoneInLine, NEW i \in Irps PROVE routine[i] # "armed"
  <1>1. SUFFICES ASSUME routine[i] = "armed" PROVE FALSE
    OBVIOUS
  <1>2. irp[i] = "listed"
    BY <1>1 DEF IInv, RoutineOK
  <1>3. QED
    BY <1>1, <1>2 DEF ListOK, On, NoneInLine, InLine

\* And without cancellation the list is empty then.
LEMMA NoneListed ==
  ASSUME IInv, ListOK, TakenOK, NoneInLine, LockFree, \A i \in Irps : ~cancel[i]
  PROVE  list = <<>>
  <1>1. ASSUME NEW i \in Irps, On(list, i) PROVE FALSE
    BY <1>1, NoneArmed, IrpAssumption DEF ListOK, TakenOK, LockFree
  <1>2. QED
    BY <1>1, EmptyOn DEF ListOK

\* A routine of the queue, or a canceller, that runs while the worker is
\* before its first wait, puts an IRP back, or waits.
LEMMA IrpWakeOK ==
  ASSUME IInv, ListOK, TakenOK, WakeOK, NEW i \in Irps,
         Send(i) \/ DispatchStep(i) \/ RequestCancel(i) \/ CancelRoutine(i)
  PROVE  WakeOK'
  <1>1. CASE Send(i)
    BY <1>1 DEF WakeOK, Send, Signalled, LockFree, CanServe, consoleVars,
                threadVars
  <1>2. CASE InsertTail(i)
    <2>1. CASE stream = "live" /\ thread = "live"
      BY <1>2, <2>1, IrpAssumption DEF WakeOK, InsertTail, Signalled, LockFree
    <2>2. CASE ~(stream = "live" /\ thread = "live")
      <3>1. UNCHANGED <<list, routine, cancel, inserting, worker, held, event,
                        notify, rx, tx>>
        BY <1>2, <2>2 DEF InsertTail, consoleVars, threadVars
      <3>2. QED
        BY <3>1 DEF WakeOK, Signalled, LockFree, CanServe
    <2>3. QED
      BY <2>1, <2>2
  <1>3. CASE WakeAndArm(i)
    BY <1>3 DEF WakeOK, WakeAndArm, Signalled
  <1>4. CASE RequestCancel(i)
    <2>1. /\ UNCHANGED <<list, inserting, worker, held, event, notify, rx, tx>>
          /\ \A j \in Irps : /\ routine'[j] = "armed" => routine[j] = "armed"
                             /\ cancel[j] => cancel'[j]
      BY <1>4 DEF RequestCancel, consoleVars, threadVars, IInv, Typed
    <2>2. QED
      BY <2>1 DEF WakeOK, Signalled, LockFree, CanServe
  <1>5. CASE CancelRoutine(i)
    <2>1. /\ UNCHANGED <<cancel, inserting, worker, held, event, notify, rx, tx>>
          /\ \A j \in Irps : routine'[j] = "armed" => routine[j] = "armed"
          /\ cancel[i]
      BY <1>5 DEF CancelRoutine, consoleVars, threadVars, IInv, Typed, TakenOK
    <2>2. list # <<>>
      BY <1>5 DEF CancelRoutine, IInv, RoutineOK, ListOK, On
    <2>3. QED
      BY <2>1, <2>2 DEF WakeOK, Signalled, LockFree, CanServe
  <1>6. QED
    BY <1>1, <1>2, <1>3, <1>4, <1>5 DEF DispatchStep

\* A full ring does not become writable, or an empty one readable, without a
\* notification, and one that was delivered sets the event of a worker that
\* is hooked.
LEMMA ConsoleWakeOK ==
  ASSUME IInv, ConsoleOK, WakeOK, ConsoleStep, rx \in Nat, tx \in Nat
  PROVE  WakeOK'
  <1>1. UNCHANGED <<list, irp, cancel, routine, inserting, worker, held>>
    BY DEF ConsoleStep, BackendSends, BackendDrains, Deliver, RivalTransfers,
           irpVars
  <1>2. CASE BackendSends \/ BackendDrains
    BY <1>1, <1>2 DEF BackendSends, BackendDrains, WakeOK, Signalled, LockFree,
                      threadVars
  <1>3. CASE Deliver
    BY <1>1, <1>3 DEF Deliver, WakeOK, Signalled, LockFree, CanServe, ConsoleOK,
                      Hooked
  <1>4. CASE RivalTransfers
    <2>1. /\ UNCHANGED <<event, notify>>
          /\ \A j : CanServe(j)' => CanServe(j)
      BY <1>4, RingAssumption DEF RivalTransfers, CanServe, threadVars
    <2>2. held' = held /\ list' = list
      BY <1>1
    <2>3. QED
      BY <1>1, <2>1 DEF WakeOK, Signalled, LockFree
  <1>5. QED
    BY <1>2, <1>3, <1>4 DEF ConsoleStep

\* IRPs of one kind are blocked together.
LEMMA BlockedTogether ==
  ASSUME OneKind, NEW i \in Irps, NEW j \in Irps, ~CanServe(i)
  PROVE  ~CanServe(j)
  BY IrpAssumption DEF OneKind, CanServe, Irps

LEMMA WorkerWakeOK ==
  ASSUME IInv, ListOK, TakenOK, PlacesOK, WakeOK, WorkerStep PROVE WakeOK'
  <1>1. CASE ConsoleAcquire \/ WakeupAdd
    <2>1. /\ UNCHANGED <<list, irp, cancel, routine, inserting, event, notify>>
          /\ worker \in {"acquire", "add"} /\ worker' # "requeue"
      BY <1>1 DEF ConsoleAcquire, WakeupAdd, WorkerAt, irpVars, threadVars
    <2>2. CASE list = <<>>
      <3>1. \A i \in Irps : routine[i] # "armed"
        BY <2>2 DEF IInv, RoutineOK, ListOK, On
      <3>2. QED
        BY <2>1, <2>2, <3>1 DEF WakeOK
    <2>3. CASE list # <<>>
      BY <2>1, <2>3 DEF WakeOK, Signalled, LockFree
    <2>4. QED
      BY <2>2, <2>3
  <1>2. CASE TakeNext
    <2>1. CASE WorkerAt("next", "check")
      BY <2>1 DEF WorkerAt, WakeOK
    <2>2. CASE WorkerAt("next", "wait")
      <3>1. /\ worker' = "wait" /\ NoneInLine /\ LockFree
            /\ UNCHANGED <<list, routine, cancel>>
        BY <1>2, <2>2 DEF TakeNext, WorkerAt
      <3>2. QED
        BY <3>1, NoneArmed, NoneListed DEF WakeOK
    <2>3. QED
      BY <1>2, <2>1, <2>2 DEF TakeNext
  <1>3. CASE CheckBlocked
    BY <1>3 DEF CheckBlocked, WorkerAt, WakeOK, CanServe, consoleVars
  <1>4. CASE Requeue
    <2>1. /\ worker = "requeue" /\ worker' = "wait" /\ held \in Irps
          /\ UNCHANGED <<cancel, inserting, event, notify, rx, tx>>
      BY <1>4 DEF Requeue, WorkerAt, threadVars, consoleVars, IInv, Typed,
                  HeldOK
    <2>2. CASE Signalled
      BY <2>1, <2>2 DEF WakeOK, Signalled, LockFree
    <2>3. CASE ~Signalled
      <3>1. ~CanServe(held)
        BY <2>1, <2>3 DEF WakeOK
      <3>2. ASSUME OneKind, NEW i \in Irps PROVE ~CanServe(i)'
        BY <2>1, <3>1, <3>2, BlockedTogether DEF CanServe
      <3>3. ASSUME \A i \in Irps : ~cancel[i] PROVE ~CanServe(list[1])'
        <4>1. list' = <<held>> \o list /\ list \in Seq(Irps)
          BY <1>4, <2>1, <3>3 DEF Requeue, Arm, ListOK
        <4>2. list'[1] = held
          BY <2>1, <4>1
        <4>3. QED
          BY <2>1, <3>1, <4>2 DEF CanServe
      <3>4. QED
        BY <2>1, <3>2, <3>3 DEF WakeOK
    <2>4. QED
      BY <2>2, <2>3
  <1>5. CASE \/ Wait \/ ClearEvent \/ TestAlerted \/ Transfer \/ WakeupRemove
             \/ ConsoleRelease \/ FunctionReturns \/ Terminate
    BY <1>5 DEF Wait, ClearEvent, TestAlerted, Transfer, WakeupRemove,
                ConsoleRelease, FunctionReturns, Terminate, WorkerAt, WakeOK
  <1>6. QED
    BY <1>1, <1>2, <1>3, <1>4, <1>5 DEF WorkerStep

\* What the owner does: the stream has neither IRPs nor a worker that waits
\* when it is drained.
LEMMA OwnerWakeOK ==
  ASSUME IInv, PlacesOK, WakeOK, OwnerStep PROVE WakeOK'
  <1>1. CASE Drain
    BY <1>1 DEF Drain, OwnerAt, PlacesOK, WakeOK
  <1>2. CASE Spawn
    BY <1>2 DEF Spawn, OwnerAt, IInv, SpawnOK, WakeOK, LockFree, threadVars
  <1>3. ASSUME OwnerStep, ~Drain, ~Spawn PROVE WakeOK'
    <2>1. /\ UNCHANGED <<list, cancel, routine, inserting, worker, held, notify,
                         rx, tx>>
          /\ event => event'
      BY <1>3 DEF OwnerStep, Allocate, Reference, FailDrop, FreeFailed,
                  AlertStore, AlertWake, Join, Free, irpVars, threadVars,
                  consoleVars
    <2>2. QED
      BY <2>1 DEF WakeOK, Signalled, LockFree, CanServe
  <1>4. QED
    BY <1>1, <1>2, <1>3

\* The bytes in the two rings, and that nobody else empties the ring between
\* what ConsoleCanRead saw and ConsoleRead.
RingOK ==
    /\ rx \in 0 .. RingSize /\ tx \in 0 .. RingSize
    /\ worker = "transfer" /\ held \in Reads => Rival \/ rx > 0

LEMMA StepRingOK == IInv /\ RingOK /\ [Next]_vars => RingOK'
  <1> SUFFICES ASSUME IInv, RingOK, [Next]_vars PROVE RingOK'
    OBVIOUS
  <1> USE RingAssumption DEF RingOK
  <1>1. CASE Transfer
    BY <1>1 DEF Transfer, WorkerAt
  <1>2. CASE CheckBlocked
    BY <1>2 DEF CheckBlocked, WorkerAt, CanServe, consoleVars
  <1>3. CASE ConsoleStep
    BY <1>3 DEF ConsoleStep, BackendSends, BackendDrains, Deliver,
                RivalTransfers
  <1>4. ASSUME UNCHANGED <<rx, tx>>,
               worker' # "transfer" \/ UNCHANGED <<worker, held>>
        PROVE  RingOK'
    BY <1>4
  <1>5. CASE WorkerStep
    BY <1>1, <1>2, <1>4, <1>5
    DEF WorkerStep, ConsoleAcquire, WakeupAdd, Wait, ClearEvent, TestAlerted,
        TakeNext, Requeue, WakeupRemove, ConsoleRelease, FunctionReturns,
        Terminate, WorkerAt, consoleVars
  <1>6. CASE OwnerStep
    BY <1>4, <1>6
    DEF OwnerStep, Allocate, Spawn, Reference, FailDrop, FreeFailed,
        AlertStore, AlertWake, Join, Drain, Free, consoleVars
  <1>7. CASE \E i \in Irps :
                Send(i) \/ DispatchStep(i) \/ RequestCancel(i)
                    \/ CancelRoutine(i)
    BY <1>4, <1>7 DEF Send, DispatchStep, InsertTail, WakeAndArm,
                      RequestCancel, CancelRoutine, consoleVars
  <1>8. QED
    BY <1>3, <1>4, <1>5, <1>6, <1>7 DEF Next, Finished, vars, consoleVars

LEMMA RingInductive == Spec => []RingOK
  <1>1. Init => RingOK
    BY DEF Init, RingOK
  <1>2. QED
    BY <1>1, StepRingOK, StreamInductive, PTL DEF Spec

LEMMA StepWakeOK ==
  ASSUME IInv, ConsoleOK, ListOK, TakenOK, PlacesOK, RingOK, WakeOK, [Next]_vars
  PROVE  WakeOK'
  <1>1. CASE UNCHANGED vars \/ Finished
    BY <1>1 DEF vars, Finished, irpVars, threadVars, consoleVars, WakeOK,
                Signalled, LockFree, CanServe
  <1>2. rx \in Nat /\ tx \in Nat
    BY RingAssumption DEF RingOK
  <1>3. QED
    BY <1>1, <1>2, IrpWakeOK, WorkerWakeOK, OwnerWakeOK, ConsoleWakeOK DEF Next

LEMMA WakeInductive == Spec => []WakeOK
  <1>1. Init => WakeOK
    BY DEF Init, WakeOK
  <1>2. IInv /\ ConsoleOK /\ ListOK /\ TakenOK /\ PlacesOK /\ RingOK /\ WakeOK
            /\ [Next]_vars => WakeOK'
    BY StepWakeOK
  <1>3. QED
    BY <1>1, <1>2, StreamInductive, ConsoleInductive, ListInductive,
       TakenInductive, PlacesInductive, RingInductive, PTL DEF Spec

\* A worker that waits could serve nobody, or is about to be woken: for every
\* order of insertion, cancellation, requeueing and notification, also while
\* others run into StreamDestroy and another stream uses the console.
THEOREM SleepsOverNothing == Spec => []NoLostWakeup
  <1>1. ASSUME IInv, ListOK, TakenOK, WakeOK PROVE NoLostWakeup
    <2>1. SUFFICES ASSUME worker = "wait", OneKind \/ \A i \in Irps : ~cancel[i],
                          ~Signalled,
                          NEW k \in DOMAIN list, InLine(k),
                          \A j \in 1 .. k - 1 : ~InLine(j)
                   PROVE  ~CanServe(list[k])
      BY DEF NoLostWakeup, Signalled
    <2>2. list[k] \in Irps /\ routine[list[k]] = "armed" /\ k \in 1 .. Len(list)
      BY <1>1, <2>1 DEF InLine, ListOK
    <2>3. CASE OneKind
      BY <1>1, <2>1, <2>2, <2>3 DEF WakeOK
    <2>4. CASE \A i \in Irps : ~cancel[i]
      <3>1. list[1] \in Irps /\ 1 \in DOMAIN list /\ list # <<>>
        BY <1>1, <2>2 DEF ListOK
      <3>2. irp[list[1]] = "listed"
        BY <1>1, <3>1 DEF ListOK, On
      <3>3. routine[list[1]] = "armed"
        BY <1>1, <2>1, <2>4, <3>1, <3>2, IrpAssumption
        DEF ListOK, TakenOK, Signalled, LockFree
      <3>4. k = 1
        BY <2>1, <2>2, <3>1, <3>3 DEF InLine
      <3>5. QED
        BY <1>1, <2>1, <2>4, <3>1, <3>4 DEF WakeOK
    <2>5. QED
      BY <2>1, <2>3, <2>4
  <1>2. QED
    BY <1>1, StreamInductive, ListInductive, TakenInductive, WakeInductive, PTL

\* A READ that succeeds returns data unless it asked for none, for a stream
\* that has the console to itself.
THEOREM ReadsTakeData == ASSUME ~Rival PROVE Spec => ReadsReturnData
  <1>1. ASSUME IInv, RingOK, [Next]_vars, NEW i \in Reads \ Empty,
               irp[i] = "held", irp'[i] = "served"
        PROVE  rx' < rx
    <2>1. i \in Irps
      BY DEF Irps
    <2>2. Transfer /\ held = i
      BY <1>1, <2>1, RemovedIsArmed
      DEF Next, WorkerStep, OwnerStep, ConsoleStep, Finished, ConsoleAcquire,
          WakeupAdd, Wait, ClearEvent, TestAlerted, TakeNext, CheckBlocked,
          Requeue, Transfer, WakeupRemove, ConsoleRelease, FunctionReturns,
          Terminate, Allocate, Spawn, Reference, FailDrop, FreeFailed,
          AlertStore, AlertWake, Join, Drain, Free, BackendSends,
          BackendDrains, Deliver, RivalTransfers, Send, DispatchStep,
          InsertTail, WakeAndArm, RequestCancel, CancelRoutine, Arm, Complete,
          vars, irpVars, IInv, Typed
    <2>3. QED
      BY <1>1, <2>2, RingAssumption DEF Transfer, WorkerAt, RingOK
  <1>2. IInv /\ RingOK /\ [Next]_vars
            => [\A i \in Reads \ Empty :
                   irp[i] = "held" /\ irp'[i] = "served" => rx' < rx]_vars
    BY <1>1
  <1>3. QED
    BY <1>2, StreamInductive, RingInductive, PTL DEF Spec, ReadsReturnData

-----------------------------------------------------------------------------
(* The worker is a thread, step by step.                                   *)

LEMMA Changed ==
  ASSUME NEW x, NEW y
  PROVE  [[t \in {"worker"} |-> x] EXCEPT !["worker"] = y]
             = [t \in {"worker"} |-> y]
  OBVIOUS

LEMMA InitIsThread == Init => WorkerThread!Init
  BY DEF Init, WorkerThread!Init, ThreadOwnerPC, FunctionPC

LEMMA Stutters ==
  ASSUME UNCHANGED <<ThreadOwnerPC, FunctionPC, event, alerted, references, thread>>
  PROVE  UNCHANGED WorkerThread!vars
  BY DEF WorkerThread!vars

\* While it has an owner in the sense of Thread the two agree about where the
\* owner is, and once StreamDestroy or StreamCreate's error path is done with
\* the thread, that it is.
OwnerAgrees ==
    /\ owner \notin {"drain", "assert", "gone", "free", "failed"}
          => ThreadOwnerPC = owner
    /\ owner \in {"drain", "assert", "gone"} => ThreadOwnerPC = "joined"
    /\ owner \in {"free", "failed"} =>
          ThreadOwnerPC = IF thread = "none" THEN "none" ELSE "failed"

LEMMA OwnerPlaces ==
  ASSUME PlacesOK, PlacesOK' PROVE OwnerAgrees /\ OwnerAgrees'
  <1>1. OwnerAgrees
    BY DEF PlacesOK, OwnerAgrees, ThreadOwnerPC
  <1>2. OwnerAgrees'
    BY DEF PlacesOK, OwnerAgrees, ThreadOwnerPC
  <1>3. QED
    BY <1>1, <1>2

LEMMA WorkerIsThread ==
  ASSUME IInv, PlacesOK, PlacesOK', WorkerStep
  PROVE  WorkerThread!Next \/ UNCHANGED WorkerThread!vars
  <1>1. UNCHANGED ThreadOwnerPC
    <2>1. owner' = owner /\ (thread' = "none" <=> thread = "none")
      BY DEF WorkerStep, ConsoleAcquire, WakeupAdd, Wait, ClearEvent,
             TestAlerted, TakeNext, CheckBlocked, Requeue, Transfer,
             WakeupRemove, ConsoleRelease, FunctionReturns, Terminate,
             ReleaseThread, WorkerAt, threadVars, PlacesOK, IInv, SpawnOK
    <2>2. QED
      BY <2>1, OwnerPlaces DEF OwnerAgrees
  <1>2. ASSUME UNCHANGED <<event, alerted, references, thread>>,
               worker \in (Hooked \cup {"acquire", "add"}) \ {"test", "unhook"},
               worker' \in {"exit", "release"}
        PROVE  WorkerThread!Next
    <2>1. WorkerThread!GiveUp("worker")
      BY <1>1, <1>2, Changed
      DEF FunctionPC, Hooked, WorkerThread!GiveUp, WorkerThread!WorkerAt
    <2>2. QED
      BY <2>1 DEF WorkerThread!Next
  <1>3. ASSUME UNCHANGED <<event, alerted, references, thread, FunctionPC>>
        PROVE  UNCHANGED WorkerThread!vars
    BY <1>1, <1>3, Stutters
  <1>4. CASE ConsoleAcquire \/ WakeupAdd
    BY <1>2, <1>3, <1>4 DEF ConsoleAcquire, WakeupAdd, WorkerAt, FunctionPC,
                            threadVars, Hooked
  <1>5. CASE ClearEvent
    <2>1. /\ FunctionPC = "run" /\ FunctionPC' = "woken" /\ event
          /\ event' = FALSE /\ UNCHANGED <<alerted, references, thread>>
      BY <1>5 DEF ClearEvent, WorkerAt, FunctionPC, PlacesOK
    <2>2. WorkerThread!ClearEvent("worker")
      BY <1>1, <2>1, Changed DEF WorkerThread!ClearEvent, WorkerThread!WorkerAt
    <2>3. QED
      BY <2>2 DEF WorkerThread!Next, WorkerThread!WorkerStep
  <1>6. CASE TestAlerted
    <2>1. /\ FunctionPC = "woken"
          /\ FunctionPC' = IF alerted THEN "leaving" ELSE "run"
          /\ UNCHANGED <<event, alerted, references, thread>>
      BY <1>6 DEF TestAlerted, WorkerAt, FunctionPC, threadVars
    <2>2. WorkerThread!TestAlerted("worker")
      BY <1>1, <2>1, Changed DEF WorkerThread!TestAlerted, WorkerThread!WorkerAt
    <2>3. QED
      BY <2>2 DEF WorkerThread!Next, WorkerThread!WorkerStep
  <1>7. CASE FunctionReturns
    <2>1. /\ FunctionPC = "leaving" /\ FunctionPC' = "dropped"
          /\ UNCHANGED <<event, alerted>>
          /\ references' = references - 1
          /\ thread' = IF references = 1 THEN "freed" ELSE thread
      BY <1>7 DEF FunctionReturns, ReleaseThread, WorkerAt, FunctionPC
    <2>2. WorkerThread!FunctionReturns("worker")
      BY <1>1, <2>1, Changed
      DEF WorkerThread!FunctionReturns, WorkerThread!WorkerAt,
          WorkerThread!Release
    <2>3. QED
      BY <2>2 DEF WorkerThread!Next, WorkerThread!WorkerStep
  <1>8. CASE Terminate
    <2>1. /\ FunctionPC = "dropped" /\ FunctionPC' = "term"
          /\ UNCHANGED <<event, alerted, references, thread>>
      BY <1>8 DEF Terminate, WorkerAt, FunctionPC, threadVars
    <2>2. WorkerThread!Terminate("worker")
      BY <1>1, <2>1, Changed DEF WorkerThread!Terminate, WorkerThread!WorkerAt
    <2>3. QED
      BY <2>2 DEF WorkerThread!Next, WorkerThread!WorkerStep
  <1>9. CASE \/ Wait \/ TakeNext \/ CheckBlocked \/ Requeue \/ Transfer
             \/ WakeupRemove \/ ConsoleRelease
    BY <1>3, <1>9 DEF Wait, TakeNext, CheckBlocked, Requeue, Transfer,
                      WakeupRemove, ConsoleRelease, WorkerAt, FunctionPC,
                      threadVars
  <1>10. QED
    BY <1>4, <1>5, <1>6, <1>7, <1>8, <1>9 DEF WorkerStep

LEMMA OwnerIsThread ==
  ASSUME IInv, PlacesOK, PlacesOK', OwnerStep
  PROVE  WorkerThread!Next \/ UNCHANGED WorkerThread!vars
  <1> DEFINE From(pc) == ThreadOwnerPC = pc
             To(pc) == ThreadOwnerPC' = pc
  <1>1. CASE Allocate
    <2>1. CASE owner' = "free"
      <3>1. UNCHANGED <<ThreadOwnerPC, FunctionPC, event, alerted, references, thread>>
        BY <1>1, <2>1, OwnerPlaces
        DEF OwnerAgrees, Allocate, OwnerAt, FunctionPC, PlacesOK
      <3>2. QED
        BY <3>1, Stutters
    <2>2. CASE owner' # "free"
      <3>1. /\ From("none") /\ To("spawn")
            /\ references' = 2 /\ thread' = "live"
            /\ UNCHANGED <<FunctionPC, event, alerted>>
        BY <1>1, <2>2, OwnerPlaces DEF OwnerAgrees, Allocate, OwnerAt, FunctionPC
      <3>2. WorkerThread!Allocate("worker")
        BY <3>1, Changed DEF WorkerThread!Allocate, WorkerThread!OwnerAt,
                             WorkerThread!InitialReferences
      <3>3. QED
        BY <3>2 DEF WorkerThread!Next
    <2>3. QED
      BY <2>1, <2>2
  <1>2. CASE Spawn
    <2>1. CASE owner' = "reference"
      <3>1. /\ From("spawn") /\ To("reference") /\ FunctionPC' = "run"
            /\ UNCHANGED <<event, alerted, references, thread>>
        BY <1>2, <2>1, OwnerPlaces DEF OwnerAgrees, Spawn, OwnerAt, FunctionPC
      <3>2. WorkerThread!Spawn("worker")
        BY <3>1, Changed DEF WorkerThread!Spawn, WorkerThread!OwnerAt
      <3>3. QED
        BY <3>2 DEF WorkerThread!Next, WorkerThread!OwnerStep
    <2>2. CASE owner' # "reference"
      <3>1. /\ From("spawn") /\ To("drop") /\ references' = references - 1
            /\ UNCHANGED <<FunctionPC, event, alerted, thread>>
        BY <1>2, <2>2, OwnerPlaces DEF OwnerAgrees, Spawn, OwnerAt, FunctionPC
      <3>2. WorkerThread!SpawnFails("worker")
        BY <3>1, Changed DEF WorkerThread!SpawnFails, WorkerThread!OwnerAt
      <3>3. QED
        BY <3>2 DEF WorkerThread!Next, WorkerThread!OwnerStep
    <2>3. QED
      BY <2>1, <2>2
  <1>3. CASE Reference
    <2>1. /\ From("reference") /\ (To("open") \/ To("failAlert"))
          /\ UNCHANGED <<FunctionPC, event, alerted, references, thread>>
      BY <1>3, OwnerPlaces DEF OwnerAgrees, Reference, OwnerAt, FunctionPC, threadVars
    <2>2. WorkerThread!Reference("worker")
      BY <2>1, Changed DEF WorkerThread!Reference, WorkerThread!OwnerAt
    <2>3. QED
      BY <2>2 DEF WorkerThread!Next, WorkerThread!OwnerStep
  <1>4. CASE FailDrop
    <2>1. /\ From("drop") /\ To("failed") /\ references' = references - 1
          /\ thread' = IF references = 1 THEN "freed" ELSE thread
          /\ UNCHANGED <<FunctionPC, event, alerted>>
      BY <1>4, OwnerPlaces
      DEF OwnerAgrees, FailDrop, OwnerAt, ReleaseThread, FunctionPC, PlacesOK
    <2>2. WorkerThread!FailDrop("worker")
      BY <2>1, Changed DEF WorkerThread!FailDrop, WorkerThread!OwnerAt,
                           WorkerThread!Release
    <2>3. QED
      BY <2>2 DEF WorkerThread!Next, WorkerThread!OwnerStep
  <1>5. CASE AlertStore
    <2>1. /\ \/ From("open") /\ To("alertWake")
             \/ From("failAlert") /\ To("failWake")
          /\ alerted' = TRUE
          /\ UNCHANGED <<FunctionPC, event, references, thread>>
      BY <1>5, OwnerPlaces DEF OwnerAgrees, AlertStore, OwnerAt, FunctionPC
    <2>2. WorkerThread!AlertStore("worker")
      BY <2>1, Changed DEF WorkerThread!AlertStore, WorkerThread!OwnerAt
    <2>3. QED
      BY <2>2 DEF WorkerThread!Next
  <1>6. CASE AlertWake
    <2>1. /\ \/ From("alertWake") /\ To("join")
             \/ From("failWake") /\ To("drop")
          /\ event' = TRUE
          /\ UNCHANGED <<FunctionPC, alerted, references, thread>>
      BY <1>6, OwnerPlaces DEF OwnerAgrees, AlertWake, OwnerAt, FunctionPC
    <2>2. WorkerThread!AlertWake("worker")
      BY <2>1, Changed DEF WorkerThread!AlertWake, WorkerThread!OwnerAt
    <2>3. QED
      BY <2>2 DEF WorkerThread!Next, WorkerThread!OwnerStep
  <1>7. CASE Join
    <2>1. /\ From("join") /\ To("joined") /\ FunctionPC = "term"
          /\ references' = references - 1 /\ thread' = "freed"
          /\ UNCHANGED <<FunctionPC, event, alerted>>
      BY <1>7, OwnerPlaces DEF OwnerAgrees, Join, OwnerAt, FunctionPC
    <2>2. WorkerThread!Join("worker")
      BY <2>1, Changed DEF WorkerThread!Join, WorkerThread!OwnerAt
    <2>3. QED
      BY <2>2 DEF WorkerThread!Next, WorkerThread!OwnerStep
  <1>8. CASE FreeFailed \/ Drain \/ Free
    <2>1. UNCHANGED <<ThreadOwnerPC, FunctionPC, event, alerted, references, thread>>
      BY <1>8, OwnerPlaces
      DEF OwnerAgrees, FreeFailed, Drain, Free, OwnerAt, FunctionPC, threadVars
    <2>2. QED
      BY <2>1, Stutters
  <1>9. QED
    BY <1>1, <1>2, <1>3, <1>4, <1>5, <1>6, <1>7, <1>8 DEF OwnerStep

\* Whoever sets the event: an insertion has an open stream, the console one
\* whose worker has not given back its registration.
LEMMA WakesAsThread ==
  ASSUME FunctionPC \in {"run", "woken", "leaving"} \/ ThreadOwnerPC = "open",
         event' = TRUE,
         UNCHANGED <<ThreadOwnerPC, FunctionPC, alerted, references, thread>>
  PROVE  WorkerThread!Next
  <1>1. WorkerThread!Wake("worker")
    BY Changed DEF WorkerThread!Wake, WorkerThread!WorkerHolds
  <1>2. QED
    BY <1>1 DEF WorkerThread!Next

LEMMA StepIsThread ==
  ASSUME IInv, ConsoleOK, PlacesOK, PlacesOK', CallersOK, [Next]_vars
  PROVE  WorkerThread!Next \/ UNCHANGED WorkerThread!vars
  <1>1. ASSUME UNCHANGED <<owner, worker, event, alerted, references, thread>>
        PROVE  UNCHANGED WorkerThread!vars
    BY <1>1, Stutters DEF ThreadOwnerPC, FunctionPC
  <1>2. ASSUME NEW i \in Irps, WakeAndArm(i) PROVE WorkerThread!Next
    <2>1. /\ owner = "open" /\ event' = TRUE
          /\ UNCHANGED <<owner, worker, alerted, references, thread>>
      BY <1>2, IrpAssumption DEF WakeAndArm, CallersOK, Quiescent, LockFree
    <2>2. UNCHANGED <<ThreadOwnerPC, FunctionPC>> /\ ThreadOwnerPC = "open"
      BY <2>1, OwnerPlaces DEF OwnerAgrees, FunctionPC, ThreadOwnerPC
    <2>3. QED
      BY <2>1, <2>2, WakesAsThread
  <1>3. CASE Deliver
    <2>1. UNCHANGED <<owner, worker, alerted, references, thread>>
      BY <1>3 DEF Deliver
    <2>2. UNCHANGED <<ThreadOwnerPC, FunctionPC>>
      BY <2>1 DEF FunctionPC, ThreadOwnerPC
    <2>3. CASE wakeup
      <3>1. FunctionPC \in {"run", "woken", "leaving"} /\ event' = TRUE
        BY <1>3, <2>3 DEF Deliver, ConsoleOK, Hooked, FunctionPC
      <3>2. QED
        BY <2>1, <2>2, <3>1, WakesAsThread
    <2>4. CASE ~wakeup
      <3>1. event' = event
        BY <1>3, <2>4 DEF Deliver, PlacesOK
      <3>2. QED
        BY <1>1, <2>1, <3>1
    <2>5. QED
      BY <2>3, <2>4
  <1>4. QED
    BY <1>1, <1>2, <1>3, WorkerIsThread, OwnerIsThread
    DEF Next, Send, DispatchStep, InsertTail, RequestCancel, CancelRoutine,
        ConsoleStep, BackendSends, BackendDrains, RivalTransfers, Finished,
        vars, threadVars

\* The stream implements Thread, if no dispatch routine or canceller runs into
\* StreamDestroy: whatever is proved of a thread object holds of its worker.
THEOREM WorkerIsAThread == ASSUME ~Overlap PROVE Spec => IsThread
  <1>1. IInv /\ ConsoleOK /\ PlacesOK /\ PlacesOK' /\ CallersOK /\ [Next]_vars
            => [WorkerThread!Next]_(WorkerThread!vars)
    BY StepIsThread
  <1>2. QED
    BY <1>1, InitIsThread, StreamInductive, ConsoleInductive, PlacesInductive,
       CallersInductive, PTL DEF Spec, IsThread, WorkerThread!Spec

-----------------------------------------------------------------------------
(* Who finds the stream and its thread allocated.                          *)

Calm == ~Overlap /\ "reference" \notin CreateFaults

\* Who still uses the thread object and where the worker is, by the position
\* of StreamCreate and StreamDestroy.
OwnerOK ==
    /\ owner \in OwnerPC \ {"failAlert", "failWake"}
    /\ owner \in {"none", "spawn", "drop", "free", "failed"} => worker = "none"
    /\ owner \in {"drain", "assert", "gone"} => worker = "term"
    /\ owner = "spawn" => references = 2
    /\ owner \in {"reference", "open", "alertWake", "join"} =>
          references = IF worker \in {"dropped", "term"} THEN 1 ELSE 2
    /\ owner = "drop" => references = 1
    /\ owner \in {"spawn", "drop", "reference", "open", "alertWake", "join"}
          => thread = "live"
    /\ stream = IF owner \in {"failed", "gone"} THEN "freed" ELSE "live"

LEMMA StepOwnerOK == Calm /\ IInv /\ OwnerOK /\ [Next]_vars => OwnerOK'
  <1> SUFFICES ASSUME Calm, IInv, OwnerOK, [Next]_vars PROVE OwnerOK'
    OBVIOUS
  <1> USE DEF OwnerOK, OwnerPC
  <1>1. CASE UNCHANGED <<owner, worker, references, thread, stream>>
    BY <1>1
  <1>2. CASE FunctionReturns
    BY <1>2 DEF FunctionReturns, WorkerAt, ReleaseThread
  <1>3. CASE Terminate
    BY <1>3 DEF Terminate, WorkerAt, threadVars
  <1>4. ASSUME WorkerStep, ~FunctionReturns, ~Terminate
        PROVE  OwnerOK'
    <2>1. /\ UNCHANGED <<owner, references, thread, stream>>
          /\ worker \notin {"none", "dropped", "term"}
          /\ worker' \notin {"none", "dropped", "term"}
      BY <1>4
      DEF WorkerStep, ConsoleAcquire, WakeupAdd, Wait, ClearEvent, TestAlerted,
          TakeNext, CheckBlocked, Requeue, Transfer, WakeupRemove,
          ConsoleRelease, WorkerAt, threadVars
    <2>2. QED
      BY <2>1
  <1>5. CASE Allocate \/ Spawn \/ Reference
    BY <1>5 DEF Allocate, Spawn, Reference, OwnerAt, Calm, threadVars
  <1>6. CASE FailDrop \/ FreeFailed
    BY <1>6 DEF FailDrop, FreeFailed, OwnerAt, ReleaseThread, threadVars
  <1>7. CASE AlertStore \/ AlertWake
    BY <1>7 DEF AlertStore, AlertWake, OwnerAt
  <1>8. CASE Join \/ Drain \/ Free
    BY <1>8 DEF Join, Drain, Free, OwnerAt, threadVars
  <1>9. CASE \E i \in Irps :
                Send(i) \/ DispatchStep(i) \/ RequestCancel(i)
                    \/ CancelRoutine(i)
    BY <1>1, <1>9 DEF Send, DispatchStep, InsertTail, WakeAndArm,
                      RequestCancel, CancelRoutine, threadVars
  <1>10. CASE ConsoleStep \/ UNCHANGED vars
    BY <1>1, <1>10 DEF ConsoleStep, BackendSends, BackendDrains, Deliver,
                       RivalTransfers, vars, threadVars
  <1>11. QED
    BY <1>2, <1>3, <1>4, <1>5, <1>6, <1>7, <1>8, <1>9, <1>10
    DEF Next, OwnerStep, Finished

LEMMA OwnerInductive == ASSUME Calm PROVE Spec => []OwnerOK
  <1>1. Init => OwnerOK
    BY DEF Init, OwnerOK, OwnerPC
  <1>2. IInv /\ OwnerOK /\ [Next]_vars => OwnerOK'
    BY StepOwnerOK
  <1>3. QED
    BY <1>1, <1>2, StreamInductive, PTL DEF Spec

\* If moreover ThreadCreate does not fail after its thread runs, the worker,
\* dispatch routines, cancel routines and the console find the stream and its
\* thread allocated.
THEOREM StreamOutlivesItsUsers ==
  ASSUME Calm PROVE Spec => []StreamUsersFindItLive
  <1>1. ASSUME IInv, ConsoleOK, OwnerOK, CallersOK PROVE StreamUsersFindItLive
    <2>1. worker \notin {"none", "dropped", "term", "exit"} => stream = "live"
      BY <1>1 DEF OwnerOK
    <2>2. ASSUME ~Quiescent PROVE stream = "live" /\ thread = "live"
      BY <1>1, <2>2 DEF CallersOK, OwnerOK
    <2>3. \A i \in Irps :
             irp[i] = "sent" \/ routine[i] = "taken" \/ inserting = i
                => stream = "live" /\ thread = "live"
      BY <2>2, IrpAssumption DEF Quiescent, LockFree
    <2>4. wakeup => thread = "live"
      BY <1>1 DEF ConsoleOK, Hooked, OwnerOK, OwnerPC
    <2>5. QED
      BY <2>1, <2>3, <2>4 DEF StreamUsersFindItLive
  <1>2. ~Overlap
    BY DEF Calm
  <1>3. QED
    BY <1>1, <1>2, StreamInductive, ConsoleInductive, OwnerInductive,
       CallersInductive, PTL

=============================================================================
