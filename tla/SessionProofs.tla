---------------------------- MODULE SessionProofs ----------------------------
(***************************************************************************)
(* What the monitor service leaves behind when it has stopped, and what    *)
(* becomes of the keys typed at its client, for every scene, every length  *)
(* of line and however much is typed.                                      *)
(*                                                                         *)
(* Where MonitorMain is says what it holds and whether its thread, and so  *)
(* the client, can still be there.                                         *)
(***************************************************************************)
EXTENDS Session, Integers, FiniteSetTheorems, SequenceTheorems, TLAPS

Rungs == 8

\* The first call that makes each of the things MonitorMain holds.
Maker(h) ==
    IF h = "ParametersKey" THEN 1 ELSE IF h = "EventLog" THEN 3
    ELSE IF h = "StopEvent" THEN 4 ELSE IF h = "AddEvent" THEN 5
    ELSE IF h = "RemoveEvent" THEN 6 ELSE IF h = "Executable" THEN 7 ELSE 8

Things == {"ParametersKey", "EventLog", "StopEvent", "AddEvent",
           "RemoveEvent", "Executable", "InterfaceNotification"}

\* MonitorMain runs its loop, or MonitorRemove in it.
InLoop ==
    main \in {"loop", "collect", "begin", "pipes", "server", "device", "monitor"}

\* MonitorMain makes its things one by one.
HeldOK ==
    /\ rung \in 0 .. Rungs
    /\ held \subseteq Things
    /\ main = "climb" => \A h \in held : Maker(h) <= rung
    /\ main = "none" => held \subseteq {"Executable"}
    /\ main = "reported" => held \subseteq HeldLast \cup {"Executable"}

\* The service has not stopped before MonitorMain has nothing left to do.
StatusOK ==
    /\ status = "stopped" => main \in {"none", "reported"}
    /\ main \in {"climb", "returned"} => status = "startPending"

\* The client runs under the monitor thread, and that thread in the loop.
ClientOK ==
    /\ tty # "none" => monitorThread = "wait"
    /\ monitorThread # "none" => InLoop

IInv == HeldOK /\ StatusOK /\ ClientOK

-----------------------------------------------------------------------------

LEMMA InitIInv == Init => IInv
  BY DEF Init, ServiceInit, TtyInit, IInv, HeldOK, StatusOK, ClientOK, InLoop,
         Rungs, Things

LEMMA LadderMakes ==
    /\ Len(MainLadder) = Rungs
    /\ \A r \in 1 .. Rungs :
          /\ MainLadder[r].drops = {}
          /\ MainLadder[r].takes \subseteq Things
          /\ \A h \in MainLadder[r].takes : Maker(h) = r
          /\ MainLadder[r].step = "GetExecutable" <=> r = 7
  <1> USE DEF MainLadder, Rung, Rungs, Things, Maker
  <1>1. Len(MainLadder) = Rungs
    OBVIOUS
  <1>2. ASSUME NEW r \in 1 .. Rungs
        PROVE  /\ MainLadder[r].drops = {}
               /\ MainLadder[r].takes \subseteq Things
               /\ \A h \in MainLadder[r].takes : Maker(h) = r
               /\ MainLadder[r].step = "GetExecutable" <=> r = 7
    <2>1. CASE r = 1 BY <2>1
    <2>2. CASE r = 2 BY <2>2
    <2>3. CASE r = 3 BY <2>3
    <2>4. CASE r = 4 BY <2>4
    <2>5. CASE r = 5 BY <2>5
    <2>6. CASE r = 6 BY <2>6
    <2>7. CASE r = 7 BY <2>7
    <2>8. CASE r = 8 BY <2>8
    <2>9. r \in {1, 2, 3, 4, 5, 6, 7, 8}
      OBVIOUS
    <2>10. QED
      BY ONLY <2>1, <2>2, <2>3, <2>4, <2>5, <2>6, <2>7, <2>8, <2>9
  <1>3. QED
    BY ONLY <1>1, <1>2

\* From fail4 down the labels close all that was made so far, but for the
\* executable's name.
LEMMA LabelsClose ==
    ASSUME NEW r \in {3, 4, 5, 7},
           NEW h \in Things, Maker(h) <= r, h # "Executable"
    PROVE  h \in Unwound(MainLadder, r + 1)
  <1>1. \/ h = "ParametersKey" /\ h \in MainLadder[2].undo
        \/ h = "EventLog" /\ h \in MainLadder[4].undo
        \/ h = "StopEvent" /\ h \in MainLadder[5].undo
        \/ h = "AddEvent" /\ h \in MainLadder[6].undo
        \/ h = "RemoveEvent" /\ h \in MainLadder[8].undo
    BY DEF Things, Maker, MainLadder, Rung
  <1>2. ASSUME NEW i \in 1 .. r + 1, h \in MainLadder[i].undo
        PROVE  h \in Unwound(MainLadder, r + 1)
    BY <1>2 DEF Unwound
  <1>3. /\ h = "ParametersKey" => 2 \in 1 .. r + 1
        /\ h = "EventLog" => 4 \in 1 .. r + 1
        /\ h = "StopEvent" => 5 \in 1 .. r + 1
        /\ h = "AddEvent" => 6 \in 1 .. r + 1
        /\ h = "RemoveEvent" => 8 \in 1 .. r + 1
    BY DEF Maker
  <1>4. QED
    BY <1>1, <1>2, <1>3

LEMMA ClimbKeepsInv ==
    ASSUME IInv, Climb, UNCHANGED <<tty, monitorThread>>
    PROVE  IInv'
  <1>1. /\ main = "climb" /\ rung \in 0 .. 7 /\ rung' = rung + 1
        /\ held' = held \/ held' = held \cup MainLadder[rung'].takes
        /\ \/ rung' = 8 /\ main' = "loop" /\ status' = "running"
           \/ main' = "climb" /\ status' = status
    BY LadderMakes DEF Climb, Climbed, MainGoes, IInv, HeldOK, Rungs
  <1>2. held' \subseteq Things /\ \A h \in held' : Maker(h) <= rung'
    <2>1. \A h \in held : Maker(h) <= rung'
      BY <1>1 DEF IInv, HeldOK, Maker
    <2>2. /\ MainLadder[rung'].takes \subseteq Things
          /\ \A h \in MainLadder[rung'].takes : Maker(h) = rung'
      BY <1>1, LadderMakes DEF Rungs
    <2>3. \A h \in MainLadder[rung'].takes : Maker(h) <= rung'
      BY <1>1, <2>2
    <2>4. QED
      BY <1>1, <2>1, <2>2, <2>3 DEF IInv, HeldOK
  <1>3. QED
    BY <1>1, <1>2 DEF IInv, HeldOK, StatusOK, ClientOK, InLoop, Rungs

LEMMA FallKeepsInv ==
    ASSUME IInv, Fall, UNCHANGED <<tty, monitorThread>>
    PROVE  IInv'
  <1>1. /\ main = "climb" /\ rung \in {0, 1, 2, 3, 4, 5, 7} /\ rung' = 0
        /\ held' \subseteq held
        /\ \/ /\ rung >= 3 /\ main' = "reported" /\ status' = "stopped"
              /\ held' = held \ (Unwound(MainLadder, rung + 1) \ HeldLast)
           \/ rung < 3 /\ main' = "returned" /\ status' = status
    BY LadderMakes DEF Fall, MainGoes, IInv, HeldOK, Rungs
  <1>2. rung >= 3 => held' \subseteq HeldLast \cup {"Executable"}
    <2>1. SUFFICES ASSUME rung >= 3, NEW h \in held', h # "Executable",
                          h \notin HeldLast
                   PROVE  FALSE
      OBVIOUS
    <2>2. h \in Things /\ Maker(h) <= rung /\ rung \in {3, 4, 5, 7}
      BY <1>1, <2>1 DEF IInv, HeldOK
    <2>3. QED
      BY <1>1, <2>1, <2>2, LabelsClose
  <1>3. QED
    BY <1>1, <1>2 DEF IInv, HeldOK, StatusOK, ClientOK, InLoop, Rungs

LEMMA ServiceKeepsInv == ASSUME IInv, ServiceStep PROVE IInv'
  <1>1. UNCHANGED <<tty, monitorThread>>
    BY DEF ServiceStep, ttyVars, threadVars
  <1>2. CASE Start
    BY <1>1, <1>2 DEF Start, MainGoes, IInv, HeldOK, StatusOK, ClientOK,
                      InLoop, Rungs
  <1>3. CASE Climb
    BY <1>1, <1>3, ClimbKeepsInv
  <1>4. CASE Fall
    BY <1>1, <1>4, FallKeepsInv
  <1>5. CASE \/ InstallDevice \/ DeviceInstalled \/ RemoveService \/ Forget
             \/ Stop \/ OtherControl \/ RemoveDevice \/ DeviceRemoved
             \/ CreateCommand \/ DeleteCommand \/ DeleteByCommand
    <2>1. /\ UNCHANGED <<main, rung, held>>
          /\ \/ status' = status
             \/ /\ status \in {"running", "stopPending"}
                /\ status' \in {"running", "stopPending"}
      BY <1>5 DEF InstallDevice, DeviceInstalled, RemoveService, Forget, Stop,
                  OtherControl, RemoveDevice, DeviceRemoved, CreateCommand,
                  DeleteCommand, DeleteByCommand, ControlService, StopControl,
                  installVars
    <2>2. QED
      BY <1>1, <2>1 DEF IInv, HeldOK, StatusOK, ClientOK, InLoop
  <1>6. QED
    BY <1>2, <1>3, <1>4, <1>5 DEF ServiceStep

LEMMA RemoveKeepsInv == ASSUME IInv, Attach \/ RemoveStep PROVE IInv'
  <1> USE DEF IInv, HeldOK, StatusOK, ClientOK, InLoop, Rungs
  <1>1. CASE Attach
    BY <1>1 DEF Attach, Attached, serviceVars, ttyVars
  <1>2. CASE BeginRemove
    BY <1>2 DEF BeginRemove, RemoveGoes, MainGoes, Attached, ttyVars,
                threadVars, installVars
  <1>3. CASE Collect
    BY <1>3 DEF Collect, RemoveGoes, MainGoes, ttyVars, threadVars
  <1>4. CASE BeginWait
    BY <1>4 DEF BeginWait, RemoveGoes, MainGoes, ttyVars, threadVars
  <1>5. CASE Join
    BY <1>5 DEF Join, RemoveGoes, MainGoes, ttyVars, threadVars
  <1>6. CASE JoinMonitor
    BY <1>6 DEF JoinMonitor, RemoveGoes, MainGoes, ttyVars
  <1>7. CASE Report
    BY <1>7 DEF Report, Done, HeldLast, Things, MainGoes, ttyVars, threadVars
  <1>8. CASE End
    BY <1>8 DEF End, Release, MainGoes, ttyVars, threadVars
  <1>9. QED
    BY <1>1, <1>2, <1>3, <1>4, <1>5, <1>6, <1>7, <1>8 DEF RemoveStep

LEMMA ThreadsKeepInv ==
    ASSUME IInv,
           \/ StartProcess \/ WaitProcess \/ ServerEnds \/ DeviceGoesOn
           \/ \E k \in Keys : DeviceWrites(k)
           \/ \E i \in Pipes : PipeStep(i) \/ PutString(i)
    PROVE  IInv'
  <1>1. UNCHANGED <<main, rung, held, status>>
    BY DEF StartProcess, WaitProcess, ServerEnds, DeviceGoesOn, DeviceWrites,
           PipeStep, PutString, PipeGoes, serviceVars
  <1>2. CASE StartProcess \/ WaitProcess
    <2>1. /\ monitorThread \in {"start", "wait"}
          /\ monitorThread' \in {"start", "wait", "ended"}
          /\ monitorThread' = "wait" \/ tty' = "none"
      BY <1>2 DEF StartProcess, WaitProcess, Begin, Exit, ttyVars, IInv, ClientOK
    <2>2. QED
      BY <1>1, <2>1 DEF IInv, HeldOK, StatusOK, ClientOK, InLoop
  <1>3. CASE UNCHANGED <<tty, monitorThread>>
    BY <1>1, <1>3 DEF IInv, HeldOK, StatusOK, ClientOK, InLoop
  <1>4. QED
    BY <1>2, <1>3 DEF ServerEnds, DeviceGoesOn, DeviceWrites, PipeStep,
                      PutString, PipeGoes, ttyVars, threadVars

LEMMA ClientKeepsInv == ASSUME IInv, TtyStep \/ ChildStep PROVE IInv'
  <1>1. UNCHANGED <<main, rung, held, status, monitorThread>>
    BY DEF TtyStep, ChildStep, serviceVars, threadVars
  <1>2. tty' # "none" => tty # "none"
    BY DEF TtyStep, ChildStep, Open, OpenPipe, Exit, Read, ReadChunk, ReadFails,
           TtyIn, TakeKey, EndLine, Login, Password, Command, WriteLine,
           ChildGone, ChildReads, ChildExits, TtyOut, Output, OutputFails,
           Reading, lineVars
  <1>3. QED
    BY <1>1, <1>2 DEF IInv, HeldOK, StatusOK, ClientOK, InLoop

LEMMA StepIInv == IInv /\ [Next]_vars => IInv'
  <1> SUFFICES ASSUME IInv, [Next]_vars PROVE IInv'
    OBVIOUS
  <1>1. CASE UNCHANGED vars
    BY <1>1 DEF vars, serviceVars, ttyVars, threadVars, IInv, HeldOK, StatusOK,
                ClientOK, InLoop
  <1>2. CASE Next
    BY <1>2, ServiceKeepsInv, RemoveKeepsInv, ThreadsKeepInv, ClientKeepsInv
       DEF Next
  <1>3. QED
    BY <1>1, <1>2

\* What MonitorMain holds, and who runs, at each of its positions: the invariant
\* above holds in every reachable state, in every scene.
THEOREM SessionInductive == Spec => []IInv
  BY InitIInv, StepIInv, PTL DEF Spec

\* Whenever the manager has been told that the service stopped, from "done" or
\* from fail4, the client is gone and so is the thread that starts it again, and
\* every event and notification, whatever the pipes and the other threads were
\* doing; the event source and the key follow before the program ends.  The name
\* of the executable may stay.
THEOREM ServiceLeavesNothing == Spec => []StoppedLeavesNothing
  <1>1. IInv => StoppedLeavesNothing
    BY DEF IInv, HeldOK, StatusOK, ClientOK, InLoop, StoppedLeavesNothing
  <1>2. QED
    BY <1>1, SessionInductive, PTL

-----------------------------------------------------------------------------
(* FlattenSeq, which the community modules define by recursion over the    *)
(* length: what it does with one more sequence.                            *)

\* Induction over the natural numbers, for a set instead of a predicate: the
\* intervals 0 .. m with m outside the set would have no smallest one.
LEMMA SetInduction ==
    ASSUME NEW S, 0 \in S, \A n \in Nat : n \in S => n + 1 \in S
    PROVE  Nat \subseteq S
  <1> DEFINE R == StrictSubsetOrdering(Nat)
             F == FiniteSubsetsOf(Nat)
             T == {0 .. m : m \in Nat \ S}
  <1>1. SUFFICES ASSUME NEW k \in Nat, k \notin S PROVE FALSE
    OBVIOUS
  <1>2. IsWellFoundedOn(R, F)
    BY FS_StrictSubsetOrderingWellFounded, Zenon
  <1>3. T \subseteq F /\ T # {}
    <2>1. \A m \in Nat : IsFiniteSet(0 .. m) /\ 0 .. m \subseteq Nat
      BY FS_Interval
    <2>2. QED
      BY <1>1, <2>1 DEF FiniteSubsetsOf
  <1>4. \E x \in T : \A y \in T : ~(<<y, x>> \in R)
    <2> HIDE DEF R, F, T
    <2> QED BY <1>2, <1>3, WFMin, Zenon
  <1>5. PICK m \in Nat \ S : \A n \in Nat \ S : <<0 .. n, 0 .. m>> \notin R
    BY <1>4
  <1>6. m # 0 /\ m - 1 \in Nat
    BY <1>5
  <1>7. m - 1 \notin S
    BY <1>5, <1>6
  <1>8. <<0 .. m - 1, 0 .. m>> \in R
    <2>1. 0 .. m - 1 \subseteq 0 .. m /\ m \in 0 .. m /\ m \notin 0 .. m - 1
      BY <1>6
    <2>2. 0 .. m - 1 # 0 .. m
      BY <2>1, Zenon
    <2>3. 0 .. m - 1 \in SUBSET Nat /\ 0 .. m \in SUBSET Nat
      BY <1>6
    <2>4. QED
      BY <2>1, <2>2, <2>3 DEF StrictSubsetOrdering
  <1>9. QED
    BY <1>5, <1>6, <1>7, <1>8

\* The function that FlattenSeq defines by recursion.
Joins(f, seqs, n) ==
    f = [i \in 1 .. n |-> IF i = 1 THEN seqs[i] ELSE f[i - 1] \o seqs[i]]

\* FlattenSeq is defined with CHOOSE; the next lemmas say that what it chooses
\* from exists, and that it is unique where it matters.
LEMMA FlattenIs ==
    ASSUME NEW seqs, Len(seqs) # 0
    PROVE  FlattenSeq(seqs) = (CHOOSE f : Joins(f, seqs, Len(seqs)))[Len(seqs)]
  BY DEF FlattenSeq, Joins

LEMMA JoinsAt ==
    ASSUME NEW f, NEW seqs, NEW n, Joins(f, seqs, n), NEW i \in 1 .. n
    PROVE  f[i] = IF i = 1 THEN seqs[i] ELSE f[i - 1] \o seqs[i]
  <1> DEFINE g == [j \in 1 .. n |-> IF j = 1 THEN seqs[j] ELSE f[j - 1] \o seqs[j]]
  <1>1. f = g
    BY DEF Joins
  <1>2. g[i] = IF i = 1 THEN seqs[i] ELSE f[i - 1] \o seqs[i]
    OBVIOUS
  <1> HIDE DEF g
  <1>3. QED
    BY ONLY <1>1, <1>2

LEMMA JoinsExists ==
    ASSUME NEW seqs, NEW n \in Nat
    PROVE  \E f : Joins(f, seqs, n)
  <1> DEFINE S == {m \in Nat : \E f : Joins(f, seqs, m)}
  <1>1. 0 \in S
    <2>1. Joins([i \in 1 .. 0 |-> 0], seqs, 0)
      BY DEF Joins
    <2>2. QED
      BY <2>1
  <1>2. ASSUME NEW m \in Nat, m \in S PROVE m + 1 \in S
    <2>1. PICK f : Joins(f, seqs, m)
      BY <1>2
    <2> DEFINE g == [i \in 1 .. m + 1 |-> IF i <= m THEN f[i]
                        ELSE IF i = 1 THEN seqs[i] ELSE f[i - 1] \o seqs[i]]
    <2>2. ASSUME NEW i \in 1 .. m + 1
          PROVE  g[i] = IF i = 1 THEN seqs[i] ELSE g[i - 1] \o seqs[i]
      <3>1. CASE i <= m
        <4>1. f[i] = IF i = 1 THEN seqs[i] ELSE f[i - 1] \o seqs[i]
          BY <2>1, <3>1, JoinsAt
        <4>2. i # 1 => g[i - 1] = f[i - 1]
          BY <3>1
        <4>3. QED
          BY <3>1, <4>1, <4>2
      <3>2. CASE i = m + 1
        <4>1. i # 1 => g[i - 1] = f[i - 1]
          BY <3>2
        <4>2. g[i] = IF i = 1 THEN seqs[i] ELSE f[i - 1] \o seqs[i]
          BY <3>2
        <4>3. QED
          BY <4>1, <4>2
      <3>3. QED
        BY <3>1, <3>2
    <2>3. Joins(g, seqs, m + 1)
      <3>1. g = [i \in 1 .. m + 1 |-> g[i]]
        OBVIOUS
      <3> HIDE DEF g
      <3>2. QED
        BY <2>2, <3>1 DEF Joins
    <2>4. QED
      BY <2>3
  <1>3. QED
    BY <1>1, <1>2, SetInduction

LEMMA JoinsSame ==
    ASSUME NEW f, NEW g, NEW s, NEW t, NEW n \in Nat, NEW m \in n .. n + 1,
           Joins(f, s, n), Joins(g, t, m), \A i \in 1 .. n : s[i] = t[i]
    PROVE  \A i \in 1 .. n : f[i] = g[i]
  <1> DEFINE S == {k \in Nat : k \in 1 .. n => f[k] = g[k]}
  <1>1. 0 \in S
    OBVIOUS
  <1>2. ASSUME NEW k \in Nat, k \in S PROVE k + 1 \in S
    <2>1. SUFFICES ASSUME k + 1 \in 1 .. n PROVE f[k + 1] = g[k + 1]
      OBVIOUS
    <2>2. k + 1 \in 1 .. m /\ (k + 1) - 1 = k /\ s[k + 1] = t[k + 1] /\ (k + 1 # 1 => k \in 1 .. n)
      BY <2>1
    <2>3. f[k + 1] = IF k + 1 = 1 THEN s[k + 1] ELSE f[k] \o s[k + 1]
      BY <2>1, <2>2, JoinsAt
    <2>4. g[k + 1] = IF k + 1 = 1 THEN t[k + 1] ELSE g[k] \o t[k + 1]
      BY <2>1, <2>2, JoinsAt
    <2>5. QED
      BY <1>2, <2>2, <2>3, <2>4
  <1>3. Nat \subseteq S
    BY <1>1, <1>2, SetInduction
  <1>4. \A i \in 1 .. n : i \in S
    BY <1>3
  <1>5. QED
    BY <1>4

\* One more sequence is one more piece at the end.
LEMMA FlattenAppend ==
    ASSUME NEW T, NEW seqs \in Seq(Seq(T)), NEW s \in Seq(T)
    PROVE  FlattenSeq(Append(seqs, s)) = FlattenSeq(seqs) \o s
  <1> DEFINE n == Len(seqs)
             more == Append(seqs, s)
             f == CHOOSE h : Joins(h, seqs, n)
             g == CHOOSE h : Joins(h, more, n + 1)
  <1>1. n \in Nat /\ Len(more) = n + 1 /\ n + 1 # 0 /\ more[n + 1] = s
    OBVIOUS
  <1>2. \A i \in 1 .. n : seqs[i] = more[i]
    OBVIOUS
  <1>3. Joins(f, seqs, n)
    BY <1>1, JoinsExists
  <1>4. Joins(g, more, n + 1)
    <2>1. n + 1 \in Nat
      BY <1>1
    <2>2. \E h : Joins(h, more, n + 1)
      BY <2>1, JoinsExists
    <2>3. QED
      BY <2>2
  <1>5. FlattenSeq(more) = g[n + 1]
    BY <1>1, FlattenIs
  <1>6. n # 0 => FlattenSeq(seqs) = f[n]
    BY <1>1, FlattenIs
  <1>7. n = 0 => FlattenSeq(seqs) = <<>>
    BY DEF FlattenSeq
  <1> HIDE DEF f, g, n, more
  <1>8. g[n + 1] = IF n + 1 = 1 THEN more[n + 1] ELSE g[(n + 1) - 1] \o more[n + 1]
    BY <1>1, <1>4, JoinsAt
  <1>9. n # 0 => f[n] = g[n]
    BY <1>1, <1>2, <1>3, <1>4, JoinsSame
  <1>10. FlattenSeq(more) = FlattenSeq(seqs) \o s
    <2>1. CASE n = 0
      <3>1. FlattenSeq(more) = s
        BY <1>1, <1>5, <1>8, <2>1
      <3>2. <<>> \o s = s
        OBVIOUS
      <3>3. QED
        BY <1>7, <2>1, <3>1, <3>2
    <2>2. CASE n # 0
      <3>1. g[n + 1] = g[n] \o s
        BY <1>1, <1>8, <2>2
      <3>2. QED
        BY <1>5, <1>6, <1>9, <2>2, <3>1
    <2>3. QED
      BY <2>1, <2>2
  <1>11. QED
    BY <1>10 DEF more

LEMMA FlattenEmpty == FlattenSeq(<<>>) = <<>>
  BY DEF FlattenSeq

LEMMA FlattenIsSeq ==
    ASSUME NEW T, NEW seqs \in Seq(Seq(T))
    PROVE  FlattenSeq(seqs) \in Seq(T)
  <1> DEFINE n == Len(seqs)
             f == CHOOSE h : Joins(h, seqs, n)
             S == {k \in Nat : k \in 1 .. n => f[k] \in Seq(T)}
  <1>1. n \in Nat
    OBVIOUS
  <1>2. Joins(f, seqs, n)
    BY <1>1, JoinsExists
  <1>3. n # 0 => FlattenSeq(seqs) = f[n]
    BY <1>1, FlattenIs
  <1>4. n = 0 => FlattenSeq(seqs) = <<>>
    BY DEF FlattenSeq
  <1>5. \A i \in 1 .. n : seqs[i] \in Seq(T)
    OBVIOUS
  <1> HIDE DEF f, n
  <1>6. 0 \in S
    OBVIOUS
  <1>7. ASSUME NEW k \in Nat, k \in S PROVE k + 1 \in S
    <2>1. SUFFICES ASSUME k + 1 \in 1 .. n PROVE f[k + 1] \in Seq(T)
      OBVIOUS
    <2>2. f[k + 1] = IF k + 1 = 1 THEN seqs[k + 1] ELSE f[(k + 1) - 1] \o seqs[k + 1]
      BY <1>2, <2>1, JoinsAt
    <2>3. (k + 1) - 1 = k /\ (k + 1 # 1 => k \in 1 .. n)
      BY <2>1, <1>1
    <2>4. QED
      BY <1>5, <1>7, <2>1, <2>2, <2>3
  <1>8. Nat \subseteq S
    BY <1>6, <1>7, SetInduction
  <1>9. n # 0 => n \in S /\ n \in 1 .. n
    BY <1>1, <1>8
  <1>10. n # 0 => f[n] \in Seq(T)
    BY <1>9
  <1>11. <<>> \in Seq(T)
    OBVIOUS
  <1>12. QED
    BY ONLY <1>3, <1>4, <1>10, <1>11

-----------------------------------------------------------------------------
(* The keys that no DEL takes back, and what one more key does to them.    *)

Dels(keys, i, j) == {d \in i .. j : keys[d] = "del"}

\* How many DELs there are in an interval, in none, in one of one key, in the
\* two parts of one, and after one more key.
LEMMA DelsFinite ==
    ASSUME NEW keys, NEW i \in Int, NEW j \in Int
    PROVE  IsFiniteSet(Dels(keys, i, j)) /\ Erasures(keys, i, j) \in Nat
           /\ Erasures(keys, i, j) = Cardinality(Dels(keys, i, j))
  <1>1. IsFiniteSet(i .. j)
    BY FS_Interval
  <1>2. Dels(keys, i, j) \subseteq i .. j
    BY DEF Dels
  <1>3. IsFiniteSet(Dels(keys, i, j))
    BY <1>1, <1>2, FS_Subset
  <1>4. Erasures(keys, i, j) = Cardinality(Dels(keys, i, j))
    BY DEF Erasures, Dels
  <1>5. QED
    BY <1>3, <1>4, FS_CardinalityType

LEMMA ErasuresNone ==
    ASSUME NEW keys, NEW i \in Int, NEW j \in Int, j < i
    PROVE  Erasures(keys, i, j) = 0
  <1>1. Dels(keys, i, j) = {}
    BY DEF Dels
  <1>2. QED
    BY <1>1, DelsFinite, FS_EmptySet

LEMMA ErasuresOne ==
    ASSUME NEW keys, NEW i \in Int
    PROVE  Erasures(keys, i, i) = IF keys[i] = "del" THEN 1 ELSE 0
  <1>1. Dels(keys, i, i) = IF keys[i] = "del" THEN {i} ELSE {}
    BY DEF Dels
  <1>2. QED
    BY <1>1, DelsFinite, FS_EmptySet, FS_Singleton

LEMMA ErasuresSplit ==
    ASSUME NEW keys, NEW i \in Int, NEW j \in Int, NEW m \in Int, i - 1 <= m, m <= j
    PROVE  Erasures(keys, i, j) = Erasures(keys, i, m) + Erasures(keys, m + 1, j)
  <1>1. Dels(keys, i, j) = Dels(keys, i, m) \cup Dels(keys, m + 1, j)
    BY DEF Dels
  <1>2. Dels(keys, i, m) \cap Dels(keys, m + 1, j) = {}
    BY DEF Dels
  <1>3. m + 1 \in Int
    OBVIOUS
  <1>4. Cardinality(Dels(keys, i, j))
          = Cardinality(Dels(keys, i, m)) + Cardinality(Dels(keys, m + 1, j))
    BY <1>1, <1>2, <1>3, DelsFinite, FS_Union, FS_EmptySet
  <1>5. QED
    BY <1>3, <1>4, DelsFinite

LEMMA ErasuresSame ==
    ASSUME NEW T, NEW keys \in Seq(T), NEW k \in T, NEW i \in Nat \ {0}, NEW j \in 0 .. Len(keys)
    PROVE  Erasures(Append(keys, k), i, j) = Erasures(keys, i, j)
  <1>1. \A d \in i .. j : Append(keys, k)[d] = keys[d]
    OBVIOUS
  <1>2. Dels(Append(keys, k), i, j) = Dels(keys, i, j)
    BY <1>1 DEF Dels
  <1>3. QED
    BY <1>2, DelsFinite

LEMMA ErasuresAppend ==
    ASSUME NEW T, NEW keys \in Seq(T), NEW k \in T, NEW i \in 1 .. Len(keys) + 1
    PROVE  Erasures(Append(keys, k), i, Len(keys) + 1)
             = Erasures(keys, i, Len(keys)) + IF k = "del" THEN 1 ELSE 0
  <1> DEFINE m == Len(keys)
             more == Append(keys, k)
  <1>1. m \in Nat /\ more[m + 1] = k /\ i \in Int /\ i - 1 <= m /\ m <= m + 1 /\ m + 1 \in Int
    OBVIOUS
  <1> HIDE DEF m
  <1>2. Erasures(more, i, m + 1) = Erasures(more, i, m) + Erasures(more, m + 1, m + 1)
    BY <1>1, ErasuresSplit
  <1>3. Erasures(more, i, m) = Erasures(keys, i, m)
    BY ErasuresSame DEF m
  <1>4. Erasures(more, m + 1, m + 1) = IF k = "del" THEN 1 ELSE 0
    BY <1>1, ErasuresOne
  <1>5. QED
    BY <1>2, <1>3, <1>4 DEF m

\* Where the character after the i-th of a line was typed, or may yet be.
After(line, keys, key, i) ==
    IF i < Len(line) THEN key[i + 1] ELSE Len(keys) + 1

\* The i-th character of the line is the key at key[i], and those between one
\* character and the next come to nothing.
Follows(line, keys, key) ==
    /\ key \in [1 .. Len(line) -> 1 .. Len(keys)]
    /\ \A i, j \in 1 .. Len(line) : i < j => key[i] < key[j]
    /\ \A i \in 1 .. Len(line) : line[i] = keys[key[i]]
    /\ \A k \in 1 .. Len(keys) :
          Survives(keys, k) <=> \E i \in 1 .. Len(line) : key[i] = k
    /\ \A i \in 1 .. Len(line) :
          2 * Erasures(keys, key[i] + 1, After(line, keys, key, i) - 1)
             = After(line, keys, key, i) - 1 - key[i]

IsTyped(line, keys) == \E key : Follows(line, keys, key)

\* Such a line is the one that IsMeant describes.
LEMMA TypedIsMeant ==
    ASSUME NEW line, NEW keys, IsTyped(line, keys)
    PROVE  IsMeant(line, keys)
  <1>1. PICK key : Follows(line, keys, key)
    BY DEF IsTyped
  <1>2. key \in [1 .. Len(line) -> {i \in 1 .. Len(keys) : Survives(keys, i)}]
    <2>1. key \in [1 .. Len(line) -> 1 .. Len(keys)]
      BY <1>1 DEF Follows
    <2>2. \A i \in 1 .. Len(line) : Survives(keys, key[i])
      BY <1>1, <2>1 DEF Follows
    <2>3. QED
      BY <2>1, <2>2
  <1>3. QED
    BY <1>1, <1>2 DEF Follows, IsMeant

LEMMA NothingTyped == IsTyped(<<>>, <<>>)
  <1>1. Follows(<<>>, <<>>, [i \in 1 .. 0 |-> 0])
    BY DEF Follows
  <1>2. QED
    BY <1>1 DEF IsTyped

\* A key that is typed erases no earlier one, unless it is DEL.
LEMMA SurvivesAppend ==
    ASSUME NEW T, NEW keys \in Seq(T), NEW k \in T, NEW p \in 1 .. Len(keys)
    PROVE  Survives(Append(keys, k), p)
             <=> /\ Survives(keys, p)
                 /\ k = "del" => 2 * (Erasures(keys, p + 1, Len(keys)) + 1) <= Len(keys) + 1 - p
  <1> DEFINE m == Len(keys)
             more == Append(keys, k)
  <1>1. m \in Nat /\ Len(more) = m + 1 /\ more[p] = keys[p] /\ p \in 1 .. m
    OBVIOUS
  <1>2. \A j \in p + 1 .. m : Erasures(more, p + 1, j) = Erasures(keys, p + 1, j)
    <2> TAKE j \in p + 1 .. m
    <2>1. j \in 0 .. Len(keys) /\ p + 1 \in Nat \ {0}
      BY <1>1
    <2>2. QED
      BY <2>1, ErasuresSame
  <1>3. Erasures(more, p + 1, m + 1) = Erasures(keys, p + 1, m) + IF k = "del" THEN 1 ELSE 0
    <2>1. p + 1 \in 1 .. Len(keys) + 1
      BY <1>1
    <2>2. QED
      BY <2>1, ErasuresAppend
  <1>4. Erasures(keys, p + 1, m) \in Nat
    BY <1>1, DelsFinite
  <1>5. p + 1 .. m + 1 = (p + 1 .. m) \cup {m + 1}
    BY <1>1
  <1>6. Survives(keys, p) => 2 * Erasures(keys, p + 1, m) <= m - p
    <2>1. CASE p = m
      <3>1. Erasures(keys, p + 1, m) = 0
        BY <1>1, <2>1, ErasuresNone
      <3>2. QED
        BY <1>1, <2>1, <3>1
    <2>2. CASE p # m
      <3>1. m \in p + 1 .. Len(keys)
        BY <1>1, <2>2
      <3>2. QED
        BY <3>1 DEF Survives
    <2>3. QED
      BY <2>1, <2>2
  <1>7. Survives(more, p) <=> /\ keys[p] # "del"
                              /\ \A j \in p + 1 .. m : 2 * Erasures(keys, p + 1, j) <= j - p
                              /\ 2 * Erasures(more, p + 1, m + 1) <= (m + 1) - p
    BY <1>1, <1>2, <1>5 DEF Survives
  <1>8. Survives(keys, p) <=> /\ keys[p] # "del"
                              /\ \A j \in p + 1 .. m : 2 * Erasures(keys, p + 1, j) <= j - p
    BY DEF Survives
  <1> HIDE DEF m, more
  <1>9. (Survives(keys, p) /\ k # "del") => 2 * Erasures(more, p + 1, m + 1) <= (m + 1) - p
    BY <1>1, <1>3, <1>4, <1>6
  <1>10. k = "del" => (2 * Erasures(more, p + 1, m + 1) <= (m + 1) - p
                         <=> 2 * (Erasures(keys, p + 1, m) + 1) <= m + 1 - p)
    <2>1. ASSUME k = "del" PROVE Erasures(more, p + 1, m + 1) = Erasures(keys, p + 1, m) + 1
      BY <1>3, <1>4, <2>1
    <2>2. (m + 1) - p = m + 1 - p
      BY <1>1
    <2>3. QED
      BY ONLY <2>1, <2>2
  <1>11. Survives(more, p)
           <=> /\ Survives(keys, p)
               /\ k = "del" => 2 * (Erasures(keys, p + 1, m) + 1) <= m + 1 - p
    <2>1. CASE k = "del"
      BY ONLY <1>7, <1>8, <1>10, <2>1
    <2>2. CASE k # "del"
      BY ONLY <1>7, <1>8, <1>9, <2>2
    <2>3. QED
      BY <2>1, <2>2
  <1>12. QED
    BY <1>11 DEF m, more

\* A character that is typed is one more at the end of the line.
LEMMA CharIsTyped ==
    ASSUME NEW T, NEW line \in Seq(T), NEW keys \in Seq(T), NEW k \in T, k # "del",
           IsTyped(line, keys)
    PROVE  IsTyped(Append(line, k), Append(keys, k))
  <1> DEFINE n == Len(line)
             m == Len(keys)
             longer == Append(line, k)
             more == Append(keys, k)
  <1>1. PICK key : Follows(line, keys, key)
    BY DEF IsTyped
  <1> DEFINE now == [i \in 1 .. n + 1 |-> IF i <= n THEN key[i] ELSE m + 1]
  <1>2. /\ n \in Nat /\ m \in Nat /\ Len(longer) = n + 1 /\ Len(more) = m + 1
        /\ longer[n + 1] = k /\ more[m + 1] = k
        /\ \A i \in 1 .. n : longer[i] = line[i]
        /\ \A i \in 1 .. m : more[i] = keys[i]
    OBVIOUS
  <1>3. /\ key \in [1 .. n -> 1 .. m]
        /\ \A i, j \in 1 .. n : i < j => key[i] < key[j]
        /\ \A i \in 1 .. n : line[i] = keys[key[i]]
        /\ \A p \in 1 .. m : Survives(keys, p) <=> \E i \in 1 .. n : key[i] = p
        /\ \A i \in 1 .. n :
              2 * Erasures(keys, key[i] + 1, After(line, keys, key, i) - 1)
                 = After(line, keys, key, i) - 1 - key[i]
    BY <1>1 DEF Follows
  <1>4. \A p \in 1 .. m : Survives(more, p) <=> Survives(keys, p)
    BY SurvivesAppend
  <1>5. \A i \in Nat \ {0}, j \in 0 .. m : Erasures(more, i, j) = Erasures(keys, i, j)
    BY ErasuresSame
  <1>6. \A i \in 1 .. n : After(line, keys, key, i) = IF i < n THEN key[i + 1] ELSE m + 1
    BY DEF After
  <1> HIDE DEF n, m, longer, more
  <1>7. now \in [1 .. n + 1 -> 1 .. m + 1] /\ now[n + 1] = m + 1
        /\ \A i \in 1 .. n : now[i] = key[i] /\ now[i] \in 1 .. m
    BY <1>2, <1>3
  <1>8. \A i \in 1 .. n + 1 : i \in 1 .. n \/ i = n + 1
    BY <1>2
  <1>9. \A i \in 1 .. n + 1 :
           After(longer, more, now, i) = IF i < n + 1 THEN now[i + 1] ELSE m + 2
    BY <1>2 DEF After
  <1> HIDE DEF now
  <1>10. \A i, j \in 1 .. n + 1 : i < j => now[i] < now[j]
    <2>1. TAKE i, j \in 1 .. n + 1
    <2>2. HAVE i < j
    <2>3. i \in 1 .. n
      BY <1>2, <2>2
    <2>4. CASE j \in 1 .. n
      BY <1>3, <1>7, <2>2, <2>3, <2>4
    <2>5. CASE j = n + 1
      BY <1>2, <1>7, <2>3, <2>5
    <2>6. QED
      BY <1>8, <2>4, <2>5
  <1>11. \A i \in 1 .. n + 1 : longer[i] = more[now[i]]
    <2> TAKE i \in 1 .. n + 1
    <2>1. CASE i \in 1 .. n
      <3>1. now[i] = key[i] /\ now[i] \in 1 .. m /\ longer[i] = line[i]
        BY ONLY <1>2, <1>7, <2>1
      <3>2. line[i] = keys[key[i]] /\ more[now[i]] = keys[now[i]]
        BY ONLY <1>2, <1>3, <2>1, <3>1
      <3>3. QED
        BY ONLY <3>1, <3>2
    <2>2. CASE i = n + 1
      BY ONLY <1>2, <1>7, <2>2
    <2>3. QED
      BY <1>8, <2>1, <2>2
  <1>12. \A p \in 1 .. m + 1 : Survives(more, p) <=> \E i \in 1 .. n + 1 : now[i] = p
    <2> TAKE p \in 1 .. m + 1
    <2>1. CASE p \in 1 .. m
      <3>1. Survives(more, p) <=> \E i \in 1 .. n : now[i] = p
        BY <1>3, <1>4, <1>7, <2>1
      <3>2. now[n + 1] # p
        BY <1>2, <1>7, <2>1
      <3>3. \A i \in 1 .. n : i \in 1 .. n + 1
        BY <1>2
      <3>4. QED
        BY ONLY <3>1, <3>2, <3>3, <1>8
    <2>2. CASE p = m + 1
      <3>1. Survives(more, p)
        BY <1>2, <2>2 DEF Survives
      <3>2. n + 1 \in 1 .. n + 1
        BY <1>2
      <3>3. QED
        BY <1>7, <2>2, <3>1, <3>2
    <2>3. QED
      BY <1>2, <2>1, <2>2
  <1>13. \A i \in 1 .. n + 1 :
              2 * Erasures(more, now[i] + 1, After(longer, more, now, i) - 1)
                 = After(longer, more, now, i) - 1 - now[i]
    <2> TAKE i \in 1 .. n + 1
    <2>1. CASE i \in 1 .. n
      <3>1. After(longer, more, now, i) = After(line, keys, key, i)
        <4>1. i < n + 1 /\ (i < n => i + 1 \in 1 .. n)
          BY <1>2, <2>1
        <4>2. CASE i < n
          BY <1>6, <1>7, <1>9, <2>1, <4>1, <4>2
        <4>3. CASE ~(i < n)
          <5>1. i = n
            BY <1>2, <2>1, <4>3
          <5>2. QED
            BY <1>2, <1>6, <1>7, <1>9, <2>1, <4>1, <5>1
        <4>4. QED
          BY <4>2, <4>3
      <3>2. After(line, keys, key, i) \in 1 .. m + 1
        <4>1. i < n => i + 1 \in 1 .. n
          BY <1>2, <2>1
        <4>2. i < n => key[i + 1] \in 1 .. m
          BY <1>3, <4>1
        <4>3. QED
          BY <1>2, <1>6, <2>1, <4>2
      <3>3. key[i] + 1 \in Nat \ {0} /\ After(line, keys, key, i) - 1 \in 0 .. m
        BY <1>2, <1>3, <2>1, <3>2
      <3>4. Erasures(more, key[i] + 1, After(line, keys, key, i) - 1)
              = Erasures(keys, key[i] + 1, After(line, keys, key, i) - 1)
        BY <1>5, <3>3
      <3>5. now[i] = key[i]
        BY <1>7, <2>1
      <3>6. QED
        BY <1>3, <2>1, <3>1, <3>4, <3>5
    <2>2. CASE i = n + 1
      <3>1. After(longer, more, now, i) = m + 2 /\ now[i] = m + 1
        BY <1>2, <1>7, <1>9, <2>2
      <3>2. Erasures(more, (m + 1) + 1, (m + 2) - 1) = 0
        BY <1>2, ErasuresNone
      <3>3. QED
        BY <1>2, <3>1, <3>2
    <2>3. QED
      BY <1>8, <2>1, <2>2
  <1>14. Follows(longer, more, now)
    BY <1>2, <1>7, <1>10, <1>11, <1>12, <1>13 DEF Follows
  <1>15. QED
    BY <1>14 DEF IsTyped, longer, more

\* DEL takes the last character from the line, or nothing from an empty one; with
\* it the keys after the character before the last come to nothing again.
LEMMA DelIsTyped ==
    ASSUME NEW T, NEW line \in Seq(T), NEW keys \in Seq(T), "del" \in T,
           IsTyped(line, keys)
    PROVE  IsTyped(WithoutLast(line), Append(keys, "del"))
  <1> DEFINE n == Len(line)
             m == Len(keys)
             more == Append(keys, "del")
  <1>1. PICK key : Follows(line, keys, key)
    BY DEF IsTyped
  <1>2. /\ n \in Nat /\ m \in Nat /\ Len(more) = m + 1 /\ more[m + 1] = "del"
        /\ \A i \in 1 .. m : more[i] = keys[i]
    OBVIOUS
  <1>3. /\ key \in [1 .. n -> 1 .. m]
        /\ \A i, j \in 1 .. n : i < j => key[i] < key[j]
        /\ \A i \in 1 .. n : line[i] = keys[key[i]]
        /\ \A p \in 1 .. m : Survives(keys, p) <=> \E i \in 1 .. n : key[i] = p
        /\ \A i \in 1 .. n :
              2 * Erasures(keys, key[i] + 1, After(line, keys, key, i) - 1)
                 = After(line, keys, key, i) - 1 - key[i]
    BY <1>1 DEF Follows
  <1>4. \A p \in 1 .. m :
           Survives(more, p) <=> /\ Survives(keys, p)
                                 /\ 2 * (Erasures(keys, p + 1, m) + 1) <= m + 1 - p
    BY SurvivesAppend
  <1>5. \A i \in Nat \ {0}, j \in 0 .. m : Erasures(more, i, j) = Erasures(keys, i, j)
    BY ErasuresSame
  <1>6. \A i \in 1 .. n : After(line, keys, key, i) = IF i < n THEN key[i + 1] ELSE m + 1
    BY DEF After
  <1>7. ~Survives(more, m + 1)
    BY <1>2 DEF Survives
  <1> HIDE DEF m, more
  <1>8. CASE line = <<>>
    <2>1. \A p \in 1 .. m + 1 : ~Survives(more, p)
      <3>1. \A p \in 1 .. m : ~Survives(more, p)
        BY <1>3, <1>4, <1>8
      <3>2. \A p \in 1 .. m + 1 : p \in 1 .. m \/ p = m + 1
        BY <1>2
      <3>3. QED
        BY <1>7, <3>1, <3>2
    <2>2. Follows(<<>>, more, [i \in 1 .. 0 |-> 0])
      BY <1>2, <2>1 DEF Follows
    <2>3. WithoutLast(line) = <<>>
      BY <1>8 DEF WithoutLast
    <2>4. QED
      BY <2>2, <2>3 DEF IsTyped, more
  <1>9. CASE line # <<>>
    <2> DEFINE q == key[n]
               now == [i \in 1 .. n - 1 |-> key[i]]
               less == WithoutLast(line)
    <2>1. /\ n # 0 /\ n \in 1 .. n /\ Len(less) = n - 1
          /\ \A i \in 1 .. n - 1 : less[i] = line[i]
      <3>1. n # 0 /\ n \in 1 .. n
        BY <1>9
      <3>2. less = SubSeq(line, 1, n - 1)
        BY <1>9 DEF WithoutLast, Front
      <3>3. n - 1 \in 0 .. Len(line)
        BY <3>1
      <3>4. /\ Len(SubSeq(line, 1, n - 1)) = n - 1
            /\ \A i \in 1 .. n - 1 : SubSeq(line, 1, n - 1)[i] = line[i]
        <4>1. \A i \in 1 .. n - 1 : line[i] \in T
          BY <3>1
        <4>2. 1 \in Int /\ n - 1 \in Int /\ n \in Nat
          OBVIOUS
        <4> HIDE DEF n, less
        <4>3. /\ Len(SubSeq(line, 1, n - 1)) = IF 1 <= n - 1 THEN n - 1 - 1 + 1 ELSE 0
              /\ \A i \in 1 .. n - 1 - 1 + 1 : SubSeq(line, 1, n - 1)[i] = line[1 + i - 1]
          BY ONLY <4>1, <4>2, SubSeqProperties
        <4>4. QED
          BY ONLY <3>1, <4>2, <4>3
      <3>5. QED
        BY ONLY <3>1, <3>2, <3>4
    <2> HIDE DEF n, less
    <2>2. q \in 1 .. m /\ After(line, keys, key, n) = m + 1
      BY <1>2, <1>3, <1>6, <2>1
    <2>3. 2 * Erasures(keys, q + 1, m) = m - q
      <3>1. (m + 1) - 1 = m
        BY <1>2
      <3>2. 2 * Erasures(keys, q + 1, (m + 1) - 1) = (m + 1) - 1 - q
        BY <1>3, <2>1, <2>2
      <3>3. QED
        BY <3>1, <3>2
    <2>4. Survives(keys, q) /\ keys[q] # "del"
      BY <1>3, <2>1, <2>2 DEF Survives
    <2> HIDE DEF q
    <2>5. ~Survives(more, q)
      <3>1. Erasures(keys, q + 1, m) \in Nat
        BY <1>2, <2>2, DelsFinite
      <3>2. ~(2 * (Erasures(keys, q + 1, m) + 1) <= m + 1 - q)
        BY <1>2, <2>2, <2>3, <3>1
      <3>3. QED
        BY <1>4, <2>2, <3>2
    <2>6. /\ now \in [1 .. n - 1 -> 1 .. m] /\ \A i \in 1 .. n - 1 : now[i] = key[i]
          /\ 1 .. n - 1 \subseteq 1 .. n
      BY <1>2, <1>3, <2>1
    <2>7. \A i \in 1 .. n - 1 : key[i] \in 1 .. q - 1
      <3> TAKE i \in 1 .. n - 1
      <3>1. key[i] < key[n] /\ key[i] \in 1 .. m
        BY <1>2, <1>3, <2>1
      <3>2. QED
        BY <2>2, <3>1 DEF q
    \* What was erased behind the i-th character, with the last one.
    <2>8. ASSUME NEW i \in 1 .. n - 1
          PROVE  /\ Erasures(keys, key[i] + 1, m)
                       = Erasures(keys, key[i] + 1, q - 1) + Erasures(keys, q + 1, m)
                 /\ Erasures(keys, key[i] + 1, q - 1) \in Nat
                 /\ Erasures(keys, q + 1, m) \in Nat
      <3>1. key[i] \in 1 .. q - 1 /\ q \in 1 .. m
        BY <2>2, <2>7
      <3>2. Erasures(keys, key[i] + 1, m)
              = Erasures(keys, key[i] + 1, q - 1) + Erasures(keys, (q - 1) + 1, m)
        <4>1. /\ key[i] + 1 \in Int /\ q - 1 \in Int /\ m \in Int
              /\ (key[i] + 1) - 1 <= q - 1 /\ q - 1 <= m
          BY <1>2, <3>1
        <4>2. QED
          BY <4>1, ErasuresSplit
      <3>3. Erasures(keys, q, m) = Erasures(keys, q, q) + Erasures(keys, q + 1, m)
        <4>1. q \in Int /\ m \in Int /\ q - 1 <= q /\ q <= m
          BY <1>2, <3>1
        <4>2. QED
          BY <4>1, ErasuresSplit
      <3>4. Erasures(keys, q, q) = 0 /\ (q - 1) + 1 = q
        BY <2>4, <3>1, ErasuresOne
      <3>5. Erasures(keys, key[i] + 1, q - 1) \in Nat /\ Erasures(keys, q + 1, m) \in Nat
        BY <1>2, <3>1, DelsFinite
      <3>6. QED
        BY <3>2, <3>3, <3>4, <3>5
    <2>9. ASSUME NEW i \in 1 .. n - 1 PROVE Survives(more, key[i])
      <3>1. key[i] \in 1 .. q - 1 /\ q \in 1 .. m /\ i \in 1 .. n
        BY <2>2, <2>6, <2>7
      <3>2. Survives(keys, key[i])
        BY <1>3, <3>1
      <3>3. 2 * Erasures(keys, key[i] + 1, q - 1) <= q - 1 - key[i]
        <4>1. CASE key[i] = q - 1
          <5>1. Erasures(keys, key[i] + 1, q - 1) = 0
            BY <3>1, <4>1, ErasuresNone
          <5>2. QED
            BY <3>1, <4>1, <5>1
        <4>2. CASE key[i] # q - 1
          <5>1. q - 1 \in key[i] + 1 .. m
            BY <1>2, <3>1, <4>2
          <5>2. QED
            BY <3>2, <5>1 DEF Survives, m
        <4>3. QED
          BY <4>1, <4>2
      <3>4. 2 * (Erasures(keys, key[i] + 1, m) + 1) <= m + 1 - key[i]
        <4> DEFINE a == Erasures(keys, key[i] + 1, m)
                   b == Erasures(keys, key[i] + 1, q - 1)
                   c == Erasures(keys, q + 1, m)
                   p == key[i]
        <4>1. /\ a = b + c /\ b \in Nat /\ c \in Nat /\ 2 * c = m - q
              /\ 2 * b <= q - 1 - p /\ p \in Nat /\ q \in Nat /\ m \in Nat
          BY <1>2, <2>3, <2>8, <3>1, <3>3
        <4> HIDE DEF a, b, c, p
        <4>2. 2 * (a + 1) <= m + 1 - p
          BY ONLY <4>1
        <4>3. QED
          BY <4>2 DEF a, p
      <3>5. key[i] \in 1 .. m
        BY <1>3, <3>1
      <3>6. QED
        BY <1>4, <3>2, <3>4, <3>5
    <2>10. \A p \in 1 .. m + 1 : Survives(more, p) <=> \E i \in 1 .. n - 1 : now[i] = p
      <3> TAKE p \in 1 .. m + 1
      <3>1. ASSUME Survives(more, p) PROVE \E i \in 1 .. n - 1 : now[i] = p
        <4>1. p \in 1 .. m
          BY <1>2, <1>7, <3>1
        <4>2. PICK i \in 1 .. n : key[i] = p
          BY <1>3, <1>4, <3>1, <4>1
        <4>3. i # n
          BY <2>5, <3>1, <4>2 DEF q
        <4>4. i \in 1 .. n - 1
          BY <1>2, <4>3
        <4>5. QED
          BY <2>6, <4>2, <4>4
      <3>2. QED
        BY <2>6, <2>9, <3>1
    <2>11. \A i \in 1 .. n - 1 :
              After(less, more, now, i) = IF i < n - 1 THEN now[i + 1] ELSE m + 2
      BY <1>2, <2>1 DEF After
    <2>12. ASSUME NEW i \in 1 .. n - 1
           PROVE  2 * Erasures(more, now[i] + 1, After(less, more, now, i) - 1)
                     = After(less, more, now, i) - 1 - now[i]
      <3>1. key[i] \in 1 .. q - 1 /\ q \in 1 .. m /\ i \in 1 .. n /\ now[i] = key[i] /\ i < n
        BY <1>2, <2>1, <2>2, <2>6, <2>7
      <3>2. 2 * Erasures(keys, key[i] + 1, key[i + 1] - 1) = key[i + 1] - 1 - key[i]
        BY <1>3, <1>6, <3>1
      <3>3. CASE i < n - 1
        <4>1. i + 1 \in 1 .. n - 1
          BY <1>2, <3>1, <3>3
        <4>2. now[i + 1] = key[i + 1] /\ key[i + 1] \in 1 .. q - 1
          BY <2>6, <2>7, <4>1
        <4>3. key[i] + 1 \in Nat \ {0} /\ key[i + 1] - 1 \in 0 .. m
          BY <1>2, <3>1, <4>2
        <4>4. Erasures(more, key[i] + 1, key[i + 1] - 1)
                = Erasures(keys, key[i] + 1, key[i + 1] - 1)
          BY <1>5, <4>3
        <4>5. QED
          BY <2>11, <3>1, <3>2, <3>3, <4>2, <4>4
      <3>4. CASE ~(i < n - 1)
        <4>1. i + 1 = n
          BY <1>2, <2>1, <3>1, <3>4
        <4>2. 2 * Erasures(keys, key[i] + 1, q - 1) = q - 1 - key[i]
          BY <3>2, <4>1 DEF q
        <4>3. Erasures(more, key[i] + 1, m + 1) = Erasures(keys, key[i] + 1, m) + 1
          <5>1. key[i] + 1 \in 1 .. Len(keys) + 1
            BY <1>2, <3>1 DEF m
          <5>2. QED
            BY <5>1, ErasuresAppend DEF m, more
        <4>4. 2 * Erasures(more, key[i] + 1, m + 1) = m + 1 - key[i]
          <5> DEFINE a == Erasures(keys, key[i] + 1, m)
                     b == Erasures(keys, key[i] + 1, q - 1)
                     c == Erasures(keys, q + 1, m)
                     d == Erasures(more, key[i] + 1, m + 1)
                     p == key[i]
          <5>1. /\ a = b + c /\ b \in Nat /\ c \in Nat /\ 2 * c = m - q /\ d = a + 1
                /\ 2 * b = q - 1 - p /\ p \in Nat /\ q \in Nat /\ m \in Nat
            BY <1>2, <2>3, <2>8, <3>1, <4>2, <4>3
          <5> HIDE DEF a, b, c, d, p
          <5>2. 2 * d = m + 1 - p
            BY ONLY <5>1
          <5>3. QED
            BY <5>2 DEF d, p
        <4>5. After(less, more, now, i) = m + 2 /\ (m + 2) - 1 = m + 1
          BY <1>2, <2>11, <3>4
        <4>6. now[i] = key[i] /\ After(less, more, now, i) = m + 2
          BY <3>1, <4>5
        <4>7. 2 * Erasures(more, key[i] + 1, (m + 2) - 1) = (m + 2) - 1 - key[i]
          <5>1. (m + 2) - 1 = m + 1 /\ m + 1 - key[i] = (m + 1) - key[i]
            BY <1>2, <3>1
          <5>2. QED
            BY ONLY <4>4, <5>1, Zenon
        <4>8. QED
          BY ONLY <4>6, <4>7
      <3>5. QED
        BY <3>3, <3>4
    <2>13. Follows(less, more, now)
      <3>1. now \in [1 .. n - 1 -> 1 .. m + 1]
        BY <1>2, <2>6
      <3>2. \A i, j \in 1 .. n - 1 : i < j => now[i] < now[j]
        BY <1>3, <2>6
      <3>3. \A i \in 1 .. n - 1 : less[i] = more[now[i]]
        BY <1>2, <1>3, <2>1, <2>6
      <3> HIDE DEF now
      <3>4. QED
        BY <1>2, <2>1, <2>10, <2>12, <3>1, <3>2, <3>3 DEF Follows
    <2>14. QED
      BY <2>13 DEF IsTyped, less, more
  <1>10. QED
    BY <1>8, <1>9

-----------------------------------------------------------------------------
(* What the terminal shows of a line.                                      *)

\* What a character looks like, of a password if quiet.
Shape(k, quiet) ==
    IF k = "ctrl" THEN <<"^", "X">> ELSE IF quiet THEN <<>> ELSE <<k>>

Shapes(line, quiet) == [i \in DOMAIN line |-> Shape(line[i], quiet)]

Image(line, quiet) == FlattenSeq(Shapes(line, quiet))

Cell == Keys \cup {"^", "X"}

LEMMA ShapeIsSeq ==
    ASSUME NEW k \in Keys, NEW quiet \in BOOLEAN
    PROVE  Shape(k, quiet) \in Seq(Cell)
  <1>1. "^" \in Cell /\ "X" \in Cell /\ k \in Cell
    BY DEF Cell
  <1>2. <<"^", "X">> \in Seq(Cell) /\ <<>> \in Seq(Cell) /\ <<k>> \in Seq(Cell)
    BY <1>1
  <1>3. QED
    BY <1>2 DEF Shape

LEMMA ShapesIsSeq ==
    ASSUME NEW line \in Seq(Keys), NEW quiet \in BOOLEAN
    PROVE  Shapes(line, quiet) \in Seq(Seq(Cell)) /\ Image(line, quiet) \in Seq(Cell)
  <1>1. \A i \in 1 .. Len(line) : Shape(line[i], quiet) \in Seq(Cell)
    <2> TAKE i \in 1 .. Len(line)
    <2>1. line[i] \in Keys
      OBVIOUS
    <2>2. QED
      BY <2>1, ShapeIsSeq
  <1>2. Shapes(line, quiet) \in Seq(Seq(Cell))
    <2>1. Len(line) \in Nat /\ DOMAIN line = 1 .. Len(line)
      OBVIOUS
    <2>2. Shapes(line, quiet) \in [1 .. Len(line) -> Seq(Cell)]
      BY <1>1, <2>1 DEF Shapes
    <2>3. QED
      BY <2>1, <2>2
  <1>3. QED
    BY <1>2, FlattenIsSeq DEF Image

LEMMA ImageEmpty == \A quiet : Image(<<>>, quiet) = <<>>
  <1> TAKE quiet
  <1>1. Shapes(<<>>, quiet) = <<>>
    BY DEF Shapes
  <1>2. QED
    BY <1>1, FlattenEmpty DEF Image

\* One more character is one more shape at the end.
LEMMA ImageAppend ==
    ASSUME NEW line \in Seq(Keys), NEW k \in Keys, NEW quiet \in BOOLEAN
    PROVE  Image(Append(line, k), quiet) = Image(line, quiet) \o Shape(k, quiet)
  <1> DEFINE longer == Append(line, k)
             n == Len(line)
  <1>1. /\ n \in Nat /\ DOMAIN line = 1 .. n /\ DOMAIN longer = 1 .. n + 1
        /\ longer[n + 1] = k /\ \A i \in 1 .. n : longer[i] = line[i]
        /\ longer \in Seq(Keys)
    OBVIOUS
  <1>2. /\ Shapes(line, quiet) \in Seq(Seq(Cell)) /\ Shape(k, quiet) \in Seq(Cell)
        /\ Shapes(longer, quiet) \in Seq(Seq(Cell))
    BY <1>1, ShapesIsSeq, ShapeIsSeq
  <1> HIDE DEF longer, n
  <1>3. /\ DOMAIN Shapes(longer, quiet) = 1 .. n + 1
        /\ Shapes(longer, quiet)[n + 1] = Shape(k, quiet)
        /\ \A i \in 1 .. n : Shapes(longer, quiet)[i] = Shape(line[i], quiet)
    BY <1>1 DEF Shapes
  <1>4. /\ DOMAIN Shapes(line, quiet) = 1 .. n
        /\ \A i \in 1 .. n : Shapes(line, quiet)[i] = Shape(line[i], quiet)
    BY <1>1 DEF Shapes
  <1> DEFINE s == Shapes(line, quiet)
             t == Shapes(longer, quiet)
             k1 == Shape(k, quiet)
  <1>5. s \in Seq(Seq(Cell)) /\ t \in Seq(Seq(Cell)) /\ k1 \in Seq(Cell)
    BY <1>2
  <1>6. /\ Len(t) = n + 1 /\ Len(s) = n /\ t[n + 1] = k1
        /\ \A i \in 1 .. n : t[i] = s[i]
    <2>1. DOMAIN t = 1 .. n + 1 /\ DOMAIN s = 1 .. n /\ t[n + 1] = k1
      BY <1>3, <1>4
    <2>2. \A i \in 1 .. n : t[i] = s[i]
      BY <1>3, <1>4
    <2> HIDE DEF s, t, k1
    <2>3. Len(t) = n + 1 /\ Len(s) = n
      <3>1. DOMAIN t = 1 .. Len(t) /\ Len(t) \in Nat /\ DOMAIN s = 1 .. Len(s) /\ Len(s) \in Nat
        BY <1>5
      <3>2. QED
        BY <1>1, <2>1, <3>1
    <2>4. QED
      BY <2>1, <2>2, <2>3
  <1> HIDE DEF s, t, k1
  <1>7. t = Append(s, k1)
    <2>1. /\ Append(s, k1) \in Seq(Seq(Cell)) /\ Len(Append(s, k1)) = n + 1
          /\ \A i \in 1 .. n : Append(s, k1)[i] = s[i]
          /\ Append(s, k1)[n + 1] = k1
      BY <1>5, <1>6, AppendProperties
    <2>2. \A i \in 1 .. Len(t) : t[i] = Append(s, k1)[i]
      BY <1>1, <1>6, <2>1
    <2>3. QED
      BY <1>5, <1>6, <2>1, <2>2, SeqEqual
  <1>8. FlattenSeq(t) = FlattenSeq(s) \o k1
    BY <1>5, <1>7, FlattenAppend
  <1>9. QED
    BY <1>8 DEF s, t, k1, longer, Image

\* Erasing the cells of the last character leaves those of the others.
LEMMA ImageErase ==
    ASSUME NEW line \in Seq(Keys), line # <<>>, NEW quiet \in BOOLEAN,
           NEW image, image = Image(line, quiet),
           NEW n, n = Len(Shape(Last(line), quiet))
    PROVE  Image(WithoutLast(line), quiet)
             = SubSeq(image, 1, IF n < Len(image) THEN Len(image) - n ELSE 0)
  <1>1. PICK less \in Seq(Keys), k \in Keys : line = Append(less, k)
    BY SequenceEmptyOrAppend
  <1>2. Last(line) = k
    BY <1>1 DEF Last
  <1>3. WithoutLast(line) = less
    <2>1. WithoutLast(line) = SubSeq(line, 1, Len(less))
      BY <1>1 DEF WithoutLast, Front
    <2>2. QED
      BY <1>1, <2>1, SeqEqual
  <1> DEFINE s == Image(less, quiet)
             t == Shape(k, quiet)
  <1>4. s \in Seq(Cell) /\ t \in Seq(Cell) /\ image = s \o t /\ n = Len(t)
    BY <1>1, <1>2, ImageAppend, ShapeIsSeq, ShapesIsSeq
  <1> HIDE DEF s, t
  <1>5. Len(image) = Len(s) + n /\ Len(s) \in Nat /\ n \in Nat
    BY <1>4, ConcatProperties
  <1>6. SubSeq(image, 1, Len(s)) = s
    <2>1. CASE s = <<>>
      BY <2>1
    <2>2. CASE s # <<>>
      <3>1. Len(s) \in 1 .. Len(s) /\ 1 \in 1 .. Len(s)
        BY <1>4, <1>5, <2>2
      <3>2. QED
        BY <1>4, <3>1, SubSeqOfConcat1, SubSeqFull
    <2>3. QED
      BY <2>1, <2>2
  <1>7. (IF n < Len(image) THEN Len(image) - n ELSE 0) = Len(s)
    BY <1>5
  <1>8. QED
    BY <1>3, <1>6, <1>7 DEF s

-----------------------------------------------------------------------------
(* The line that is typed and the row that shows it.                       *)

KeysOK == chunk \in Seq(Keys) /\ typed \in Seq(Keys) /\ input \in Seq(Keys)

\* The line so far is one that the keys so far make, and so is the line that
\* is written; where no line is read none is begun.
LineOK ==
    /\ Reading => buffer \in Seq(Keys) /\ IsTyped(buffer, typed)
    /\ tty = "write" =>
          \E line \in Seq(Keys) : buffer = line \o <<"cr", "lf">> /\ IsTyped(line, typed)
    /\ tty \in {"none", "openIn", "openOut"} =>
          buffer = <<>> /\ typed = <<>> /\ row = <<>>

RowOK == Reading /\ ~spoilt => row = Image(buffer, NoEcho)

LineInv == KeysOK /\ LineOK /\ RowOK

LEMMA RowIsImage == ScreenShowsLine <=> RowOK
  <1>1. \A k : Echoed(k) = Shape(k, NoEcho)
    BY DEF Echoed, Shape
  <1>2. [i \in DOMAIN buffer |-> Echoed(buffer[i])] = Shapes(buffer, NoEcho)
    BY <1>1 DEF Shapes
  <1>3. QED
    BY <1>2 DEF ScreenShowsLine, RowOK, Image

\* A line that begins is empty, wherever the client is.
LEMMA FreshLineInv ==
    ASSUME FreshLine, tty' # "write", input' \in Seq(Keys)
    PROVE  LineInv'
  <1>1. KeysOK'
    BY DEF KeysOK, FreshLine
  <1>2. LineOK'
    <2>1. buffer' = <<>> /\ typed' = <<>> /\ row' = <<>> /\ <<>> \in Seq(Keys)
      BY DEF FreshLine
    <2>2. QED
      BY <2>1, NothingTyped DEF LineOK
  <1>3. RowOK'
    BY ImageEmpty DEF FreshLine, RowOK
  <1>4. QED
    BY <1>1, <1>2, <1>3 DEF LineInv

LEMMA SameLineInv ==
    ASSUME LineInv, UNCHANGED <<tty, chunk, buffer, row, typed, spoilt>>,
           input' \in Seq(Keys)
    PROVE  LineInv'
  BY DEF LineInv, KeysOK, LineOK, RowOK, Reading, NoEcho

LEMMA InitLineInv == Init => LineInv
  <1>1. SUFFICES ASSUME Init PROVE LineInv
    OBVIOUS
  <1>2. /\ tty = "none" /\ chunk = <<>> /\ typed = <<>> /\ input = <<>>
        /\ buffer = <<>> /\ row = <<>> /\ <<>> \in Seq(Keys)
    BY <1>1 DEF Init, TtyInit
  <1>3. QED
    BY <1>2 DEF LineInv, KeysOK, LineOK, RowOK, Reading

LEMMA OpenPipeInv ==
    ASSUME LineInv, NEW from \in {"openIn", "openOut"}, NEW to \in {"openOut", "login"},
           OpenPipe(from, to), input' = input
    PROVE  LineInv'
  <1>1. /\ buffer' = <<>> /\ typed' = <<>> /\ row' = <<>> /\ chunk' = chunk
        /\ tty' \in {"openOut", "login"} /\ <<>> \in Seq(Keys)
    BY DEF OpenPipe, lineVars, LineInv, LineOK
  <1>2. KeysOK'
    BY <1>1 DEF LineInv, KeysOK
  <1>3. LineOK'
    BY <1>1, NothingTyped DEF LineOK
  <1>4. RowOK'
    BY <1>1, ImageEmpty DEF RowOK
  <1>5. QED
    BY <1>2, <1>3, <1>4 DEF LineInv

LEMMA TakeKeyInv ==
    ASSUME LineInv, NEW shown \in BOOLEAN, TakeKey(shown), input' = input
    PROVE  LineInv'
  <1> DEFINE k == Head(chunk)
  <1>1. /\ chunk \in Seq(Keys) /\ chunk # <<>> /\ typed \in Seq(Keys) /\ input \in Seq(Keys)
        /\ buffer \in Seq(Keys) /\ IsTyped(buffer, typed) /\ Reading
        /\ chunk' = Tail(chunk) /\ typed' = Append(typed, k) /\ tty' = tty
        /\ spoilt' = (spoilt \/ ~shown)
    BY DEF TakeKey, LineInv, KeysOK, LineOK
  <1>2. k \in Keys /\ chunk' \in Seq(Keys)
    BY <1>1, HeadTailProperties
  <1>3. KeysOK'
    BY <1>1, <1>2 DEF KeysOK
  <1>4. NoEcho \in BOOLEAN /\ NoEcho' = NoEcho /\ Reading' = Reading /\ "del" \in Keys
    BY <1>1 DEF NoEcho, Reading, Keys
  <1>5. ~spoilt /\ Reading => row = Image(buffer, NoEcho)
    BY DEF LineInv, RowOK
  <1>6. \/ /\ k = "del"
           /\ buffer' = WithoutLast(buffer)
           /\ row' = IF buffer = <<>> \/ ~shown THEN row
                     ELSE EraseCells(Cells(Last(buffer)))
        \/ /\ k # "del"
           /\ buffer' = Append(buffer, k)
           /\ row' = IF shown THEN row \o Echoed(k) ELSE row
    BY DEF TakeKey
  <1> HIDE DEF k
  <1>7. buffer' \in Seq(Keys) /\ IsTyped(buffer', typed')
    <2>1. CASE k = "del"
      <3>1. WithoutLast(buffer) \in Seq(Keys)
        BY <1>1 DEF WithoutLast, Front
      <3>2. IsTyped(WithoutLast(buffer), Append(typed, "del"))
        BY <1>1, <1>4, DelIsTyped
      <3>3. buffer' = WithoutLast(buffer) /\ typed' = Append(typed, "del")
        BY <1>1, <1>6, <2>1
      <3>4. QED
        BY <3>1, <3>2, <3>3
    <2>2. CASE k # "del"
      <3>1. IsTyped(Append(buffer, k), Append(typed, k)) /\ Append(buffer, k) \in Seq(Keys)
        BY <1>1, <1>2, <2>2, CharIsTyped
      <3>2. QED
        BY <1>1, <1>6, <2>2, <3>1
    <2>3. QED
      BY <2>1, <2>2
  <1>8. LineOK'
    BY <1>1, <1>7 DEF LineOK, Reading
  <1>9. ASSUME ~spoilt, shown PROVE row' = Image(buffer', NoEcho)
    <2>1. row = Image(buffer, NoEcho)
      BY <1>1, <1>5, <1>9
    <2>2. CASE k = "del" /\ buffer = <<>>
      <3>1. buffer' = buffer /\ row' = row
        BY <1>6, <2>2 DEF WithoutLast
      <3>2. QED
        BY <2>1, <3>1
    <2>3. CASE k = "del" /\ buffer # <<>>
      <3>1. Last(buffer) \in Keys
        BY <1>1, <2>3 DEF Last
      <3>2. Cells(Last(buffer)) = Len(Shape(Last(buffer), NoEcho))
        BY DEF Cells, Shape
      <3>3. row' = EraseCells(Cells(Last(buffer))) /\ buffer' = WithoutLast(buffer)
        BY <1>6, <1>9, <2>3
      <3>4. Image(WithoutLast(buffer), NoEcho) = EraseCells(Cells(Last(buffer)))
        <4> DEFINE n == Cells(Last(buffer))
        <4>1. n = Len(Shape(Last(buffer), NoEcho))
          BY <3>2
        <4>2. EraseCells(n) = SubSeq(row, 1, IF n < Len(row) THEN Len(row) - n ELSE 0)
          BY DEF EraseCells
        <4> HIDE DEF n
        <4>3. Image(WithoutLast(buffer), NoEcho)
                = SubSeq(row, 1, IF n < Len(row) THEN Len(row) - n ELSE 0)
          BY <1>1, <1>4, <2>1, <2>3, <4>1, ImageErase
        <4>4. QED
          BY <4>2, <4>3 DEF n
      <3>5. QED
        BY <3>3, <3>4
    <2>4. CASE k # "del"
      <3>1. row' = row \o Shape(k, NoEcho) /\ buffer' = Append(buffer, k)
        BY <1>6, <1>9, <2>4 DEF Echoed, Shape
      <3>2. QED
        BY <1>1, <1>2, <1>4, <2>1, <3>1, ImageAppend
    <2>5. QED
      BY <2>2, <2>3, <2>4
  <1>10. RowOK'
    BY <1>1, <1>4, <1>9 DEF RowOK
  <1>11. QED
    BY <1>3, <1>8, <1>10 DEF LineInv

LEMMA EndLineInv ==
    ASSUME LineInv, EndLine, input' = input
    PROVE  LineInv'
  <1> DEFINE k == Head(chunk)
             line == Append(buffer, k)
  <1>1. /\ chunk \in Seq(Keys) /\ chunk # <<>> /\ input' \in Seq(Keys)
        /\ typed \in Seq(Keys) /\ buffer \in Seq(Keys) /\ IsTyped(buffer, typed)
    BY DEF EndLine, LineInv, KeysOK, LineOK
  <1>2. k \in Keys
    BY <1>1, HeadTailProperties
  <1>3. Last(line) = k
    BY <1>1, <1>2 DEF Last
  <1>4. CASE FreshLine /\ tty' # "write"
    BY <1>1, <1>4, FreshLineInv
  <1>5. CASE /\ Last(line) = "cr" /\ tty' = "write" /\ buffer' = Append(line, "lf")
             /\ chunk' = <<>> /\ typed' = typed
    <2>1. buffer' = buffer \o <<"cr", "lf">>
      BY <1>1, <1>3, <1>5
    <2>2. KeysOK'
      BY <1>1, <1>5 DEF KeysOK
    <2>3. LineOK'
      <3>1. \E l \in Seq(Keys) : buffer' = l \o <<"cr", "lf">> /\ IsTyped(l, typed')
        BY <1>1, <1>5, <2>1
      <3>2. QED
        BY <1>5, <3>1 DEF LineOK, Reading
    <2>4. RowOK'
      BY <1>5 DEF RowOK, Reading
    <2>5. QED
      BY <2>2, <2>3, <2>4 DEF LineInv
  <1>6. QED
    BY <1>4, <1>5 DEF EndLine, Login, Password, Command, Exit

LEMMA OutputInv ==
    ASSUME LineInv, NEW shown, Output(shown), input' = input
    PROVE  LineInv'
  <1>1. /\ KeysOK' /\ tty' = tty /\ tty \in {"shell", "write"}
        /\ buffer' = buffer /\ typed' = typed
    BY DEF Output, LineInv, KeysOK
  <1>2. LineOK'
    BY <1>1 DEF LineInv, LineOK, Reading
  <1>3. spoilt' \/ (row' = row /\ spoilt' = spoilt)
    BY DEF Output
  <1>4. RowOK'
    BY <1>1, <1>3 DEF LineInv, RowOK, Reading, NoEcho
  <1>5. QED
    BY <1>1, <1>2, <1>4 DEF LineInv

LEMMA ReadInv == ASSUME LineInv, Read PROVE LineInv'
  <1>1. input \in Seq(Keys) /\ <<>> \in Seq(Keys)
    BY DEF LineInv, KeysOK
  <1>2. CASE ReadChunk(input) /\ input' = <<>>
    BY <1>1, <1>2 DEF ReadChunk, LineInv, KeysOK, LineOK, RowOK, Reading, NoEcho
  <1>3. CASE ReadFails /\ input' = input
    BY <1>1, <1>3, FreshLineInv DEF ReadFails, Exit
  <1>4. QED
    BY <1>2, <1>3 DEF Read

LEMMA StepLineInv == LineInv /\ [Next]_vars => LineInv'
  <1>1. SUFFICES ASSUME LineInv, [Next]_vars PROVE LineInv'
    OBVIOUS
  <1>2. input \in Seq(Keys) /\ <<>> \in Seq(Keys)
    BY <1>1 DEF LineInv, KeysOK
  <1>3. CASE \/ UNCHANGED vars \/ ServiceStep \/ Attach \/ RemoveStep \/ ServerEnds
             \/ DeviceGoesOn \/ \E k \in Keys : DeviceWrites(k)
             \/ \E i \in Pipes : PipeStep(i) \/ PutString(i)
    <2>1. UNCHANGED ttyVars
      BY <1>3 DEF vars, ServiceStep, Attach, RemoveStep, ServerEnds, DeviceGoesOn,
                  DeviceWrites, PipeStep, PutString, PipeGoes, BeginRemove,
                  Collect, BeginWait, Join, JoinMonitor, Report, End, RemoveGoes
    <2>2. \/ input' = input \/ input' = <<>>
          \/ \E k \in Keys : input' = Append(input, k)
      BY <1>3 DEF vars, pipeVars, ServiceStep, Attach, RemoveStep, ServerEnds,
                  DeviceGoesOn, DeviceWrites, PipeStep, PutString, PipeGoes,
                  BeginRemove, Collect, BeginWait, Join, JoinMonitor, Report, End,
                  RemoveGoes
    <2>3. input' \in Seq(Keys)
      <3>1. \A k \in Keys : Append(input, k) \in Seq(Keys)
        BY <1>2
      <3>2. QED
        BY <1>2, <2>2, <3>1
    <2>4. QED
      BY <1>1, <2>1, <2>3, SameLineInv DEF ttyVars, lineVars
  <1>4. CASE StartProcess \/ WaitProcess
    <2>1. input' = input
      BY <1>4 DEF StartProcess, WaitProcess, pipeVars
    <2>2. \/ Begin
          \/ UNCHANGED ttyVars
          \/ Exit
      BY <1>4 DEF StartProcess, WaitProcess
    <2>3. CASE Begin
      BY <1>1, <1>2, <2>1, <2>3
         DEF Begin, lineVars, LineInv, KeysOK, LineOK, RowOK, Reading
    <2>4. CASE UNCHANGED ttyVars
      BY <1>1, <1>2, <2>1, <2>4, SameLineInv DEF ttyVars, lineVars
    <2>5. CASE Exit
      BY <1>2, <2>1, <2>5, FreshLineInv DEF Exit
    <2>6. QED
      BY <2>2, <2>3, <2>4, <2>5
  <1>5. CASE TtyStep
    <2>1. CASE Open("in", "openIn", "openOut") \/ Open("out", "openOut", "login")
      <3>1. input' = input
        BY <2>1 DEF Open
      <3>2. Exit \/ OpenPipe("openIn", "openOut") \/ OpenPipe("openOut", "login")
        BY <2>1 DEF Open
      <3>3. QED
        BY <1>1, <1>2, <3>1, <3>2, FreshLineInv, OpenPipeInv DEF Exit
    <2>2. CASE Read
      BY <1>1, <2>2, ReadInv
    <2>3. CASE TtyIn /\ input' = input
      <3>1. CASE TakeKey(Shown)
        <4>1. Shown \in BOOLEAN
          BY DEF Shown
        <4>2. QED
          BY <1>1, <2>3, <3>1, <4>1, TakeKeyInv
      <3>2. CASE EndLine
        BY <1>1, <2>3, <3>2, EndLineInv
      <3>3. CASE WriteLine
        BY <1>2, <2>3, <3>3, FreshLineInv DEF WriteLine
      <3>4. QED
        BY <2>3, <3>1, <3>2, <3>3 DEF TtyIn
    <2>4. CASE ChildGone /\ input' = input
      BY <1>2, <2>4, FreshLineInv DEF ChildGone, Exit
    <2>5. QED
      BY <1>5, <2>1, <2>2, <2>3, <2>4 DEF TtyStep
  <1>6. CASE ChildStep
    <2>1. input' = input
      BY <1>6 DEF ChildStep, pipeVars
    <2>2. CASE ChildReads \/ ChildExits
      BY <1>1, <1>2, <2>1, <2>2, SameLineInv DEF ChildReads, ChildExits, lineVars
    <2>3. CASE Output(Shown)
      BY <1>1, <2>1, <2>3, OutputInv
    <2>4. CASE OutputFails
      BY <1>2, <2>1, <2>4, FreshLineInv DEF OutputFails, Exit
    <2>5. QED
      BY <1>6, <2>2, <2>3, <2>4 DEF ChildStep, TtyOut
  <1>7. QED
    BY <1>1, <1>3, <1>4, <1>5, <1>6 DEF Next

\* The invariant above holds in every reachable state.
THEOREM LineInductive == Spec => []LineInv
  BY InitLineInv, StepLineInv, PTL DEF Spec

\* GetLine keeps the row of the terminal in step with its buffer, character by
\* character and however many cells each of them takes, for lines of any length:
\* as long as nothing else was written there and every echo was shown, DEL takes
\* back the cells of the character it erases and no others.
THEOREM ScreenIsInStep == Spec => []ScreenShowsLine
  <1>1. LineInv => ScreenShowsLine
    BY RowIsImage DEF LineInv
  <1>2. QED
    BY <1>1, LineInductive, PTL

\* The line the child is given is made of the keys that no DEL took back, in the
\* order they were typed, and of nothing else: for every sequence of keys, any
\* LineSize, and whichever way they were cut into chunks.
THEOREM LinesAreMeant == Spec => []LinesArriveAsTyped
  <1>1. LineInv => LinesArriveAsTyped
    <2>1. SUFFICES ASSUME LineInv, tty = "write"
                   PROVE  LET line == SubSeq(buffer, 1, Len(buffer) - 2)
                          IN buffer = line \o <<"cr", "lf">> /\ IsMeant(line, typed)
      BY DEF LinesArriveAsTyped
    <2>2. PICK line \in Seq(Keys) : buffer = line \o <<"cr", "lf">> /\ IsTyped(line, typed)
      BY <2>1 DEF LineInv, LineOK
    <2>3. SubSeq(buffer, 1, Len(buffer) - 2) = line
      <3>1. Len(buffer) - 2 = Len(line)
        BY <2>2
      <3>2. QED
        BY <2>2, <3>1
    <2>4. QED
      BY <2>2, <2>3, TypedIsMeant
  <1>2. QED
    BY <1>1, LineInductive, PTL

=============================================================================
