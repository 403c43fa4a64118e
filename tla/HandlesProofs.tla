---------------------------- MODULE HandlesProofs ----------------------------
(***************************************************************************)
(* The handles of the device, for any number of file objects: who finds a  *)
(* handle and is not overtaken finds it live; only the overtaken make the  *)
(* driver use freed memory; until then a stream is destroyed with its      *)
(* handle and once; and FdoDestroy finds only the handles that were linked *)
(* late.                                                                   *)
(***************************************************************************)
EXTENDS Handles, TLAPS

\* What each position of FdoCreateHandle and FdoDispatchCleanup tells about
\* the handle, and what the handle's place tells about its stream.
HandleOK(f) ==
    /\ create[f] # "idle" <=> handle[f] = "private"
    /\ create[f] # "idle" <=> file[f] = "opening"
    /\ cleanup[f] # "idle" <=> file[f] = "closing"
    /\ cleanup[f] = "destroy" <=> handle[f] = "unlinked"
    /\ file[f] = "unopened" => handle[f] = "none"
    /\ create[f] = "stream" => stream[f] = "null"
    /\ create[f] = "insert" => stream[f] = "live"
    /\ create[f] = "assert" => stream[f] \in {"null", "dangling"}
    /\ handle[f] = "none" => stream[f] = "null"
    /\ handle[f] \in {"none", "private"} => destroys[f] = 0

\* One handle at a time is in the hands of FdoDestroyAllHandles, and if its
\* list is empty when it pops one, somebody was overtaken.
SweepOK ==
    /\ \A f \in Files : handle[f] = "popped" => power = "destroy"
    /\ \A f, g \in Files : handle[f] = "popped" /\ handle[g] = "popped" => f = g
    /\ power = "pop" => Doomed # {} \/ overtaken # {}

\* Out of D0 what is on the list is late.
LateOK ==
    /\ power = "new" => \A f \in Files : file[f] = "unopened"
    /\ removal = "skipped" => power \in {"assert", "deleted"}
    /\ power # "D0" /\ removal # "skipped" => Listed \subseteq late

IInv ==
    /\ TypeOK /\ StreamFollowsHandle /\ OnlyTheOvertakenBreak
    /\ \A f \in Files : HandleOK(f)
    /\ SweepOK
    /\ LateOK

LEMMA InitIInv == Init => IInv
  <1> SUFFICES ASSUME Init PROVE IInv
    OBVIOUS
  <1>1. TypeOK
    <2>1. /\ file \in [Files -> FileState] /\ create \in [Files -> CreateState]
          /\ cleanup \in [Files -> CleanupState]
      BY DEF Init, FileState, CreateState, CleanupState
    <2>2. /\ irp \in [Files -> IrpState] /\ handle \in [Files -> HandleState]
          /\ stream \in [Files -> StreamState]
      BY DEF Init, IrpState, HandleState, StreamState
    <2>3. destroys \in [Files -> 0 .. 1]
      BY DEF Init
    <2>4. /\ power \in PowerState /\ removal \in RemovalState
          /\ late \subseteq Files /\ overtaken \subseteq Files
          /\ broken \in BOOLEAN
      BY DEF Init, PowerState, RemovalState
    <2>5. QED
      BY <2>1, <2>2, <2>3, <2>4 DEF TypeOK
  <1>2. StreamFollowsHandle /\ OnlyTheOvertakenBreak
    BY DEF Init, StreamFollowsHandle, OnlyTheOvertakenBreak, FoundByIo,
           FoundByCleanup
  <1>3. SweepOK /\ LateOK /\ \A f \in Files : HandleOK(f)
    BY DEF Init, HandleOK, SweepOK, LateOK, Listed
  <1>4. QED
    BY <1>1, <1>2, <1>3 DEF IInv

LEMMA StepIInv == IInv /\ [Next]_vars => IInv'
  <1> SUFFICES ASSUME IInv, [Next]_vars PROVE IInv'
    OBVIOUS
  <1> USE DEF IInv, TypeOK, StreamFollowsHandle, OnlyTheOvertakenBreak,
              HandleOK, SweepOK, LateOK, FoundByIo, FoundByCleanup, Listed,
              Doomed, FileState, CreateState, CleanupState, IrpState,
              HandleState, StreamState, PowerState, RemovalState
  <1>1. ASSUME NEW f \in Files, AllocateHandle(f) PROVE IInv'
    BY <1>1 DEF AllocateHandle, Deleted
  <1>2. ASSUME NEW f \in Files, CreateStream(f) PROVE IInv'
    BY <1>2 DEF CreateStream
  <1>3. ASSUME NEW f \in Files, InsertHandle(f) PROVE IInv'
    BY <1>3 DEF InsertHandle
  <1>4. ASSUME NEW f \in Files, FreeFailedHandle(f) PROVE IInv'
    BY <1>4 DEF FreeFailedHandle
  <1>5. ASSUME NEW f \in Files, FindForIo(f) \/ CompleteIo(f) PROVE IInv'
    BY <1>5 DEF FindForIo, CompleteIo
  <1>6. ASSUME NEW f \in Files, QueueIo(f) PROVE IInv'
    <2>1. CASE handle[f] = "freed"
      <3>1. f \in overtaken
        BY <1>6, <2>1 DEF QueueIo
      <3>2. overtaken' # {}
        BY <1>6, <3>1 DEF QueueIo
      <3>3. /\ broken' = TRUE
            /\ UNCHANGED <<file, create, cleanup, irp, handle, stream, destroys,
                           power, removal, late, overtaken>>
        BY <1>6, <2>1 DEF QueueIo
      <3>4. QED
        BY <3>2, <3>3
    <2>2. CASE handle[f] # "freed"
      BY <1>6, <2>2 DEF QueueIo
    <2>3. QED
      BY <2>1, <2>2
  <1>7. ASSUME NEW f \in Files, FindForCleanup(f) PROVE IInv'
    BY <1>7 DEF FindForCleanup
  <1>8. ASSUME NEW f \in Files, UnlinkHandle(f) PROVE IInv'
    <2>1. CASE handle[f] \in {"listed", "doomed"} /\ UNCHANGED broken
      BY <1>8, <2>1 DEF UnlinkHandle
    <2>2. CASE handle[f] # "listed" /\ broken' = TRUE
      <3>1. f \in overtaken
        BY <1>8, <2>2 DEF UnlinkHandle
      <3>2. CASE UNCHANGED <<cleanup, handle, overtaken>>
        <4>1. UNCHANGED <<file, create, cleanup, irp, handle, stream, destroys,
                          power, removal, late, overtaken>>
          BY <1>8, <3>2 DEF UnlinkHandle
        <4>2. overtaken' # {}
          BY <3>1, <4>1
        <4>3. QED
          BY <2>2, <4>1, <4>2
      <3>3. CASE handle[f] = "doomed" /\ UNCHANGED broken
        BY <2>1, <3>3
      <3>4. QED
        BY <1>8, <2>2, <3>2, <3>3 DEF UnlinkHandle
    <2>3. QED
      BY <1>8, <2>1, <2>2 DEF UnlinkHandle
  <1>9. ASSUME NEW f \in Files, CleanupDestroys(f) PROVE IInv'
    BY <1>9 DEF CleanupDestroys, DrainStream, FreeHandle
  <1>10. ASSUME NEW f \in Files, Close(f) PROVE IInv'
    BY <1>10 DEF Close
  <1>11. CASE PowerUp
    BY <1>11 DEF PowerUp
  <1>12. CASE PowerDown
    BY <1>12 DEF PowerDown
  <1>13. CASE TestDoomed
    BY <1>13 DEF TestDoomed
  <1>14. CASE PopDoomed
    <2>1. CASE Doomed = {} /\ broken' = TRUE /\ UNCHANGED <<handle, power>>
      <3>1. overtaken' # {}
        BY <1>14, <2>1 DEF PopDoomed
      <3>2. UNCHANGED <<file, create, cleanup, irp, handle, stream, destroys,
                        power, removal, late, overtaken>>
        BY <1>14, <2>1 DEF PopDoomed
      <3>3. QED
        BY <2>1, <3>1, <3>2
    <2>2. ASSUME NEW f \in Doomed,
                 handle' = [handle EXCEPT ![f] = "popped"],
                 power' = "destroy", UNCHANGED broken
          PROVE  IInv'
      BY <1>14, <2>2 DEF PopDoomed
    <2>3. QED
      BY <1>14, <2>1, <2>2 DEF PopDoomed
  <1>15. CASE DestroyPopped
    BY <1>15 DEF DestroyPopped, DrainStream, FreeHandle
  <1>16. CASE RemoveWithoutPowerDown \/ Delete
    BY <1>16 DEF RemoveWithoutPowerDown, Delete
  <1>17. CASE UNCHANGED vars
    BY <1>17 DEF vars
  <1>18. QED
    BY <1>1, <1>2, <1>3, <1>4, <1>5, <1>6, <1>7, <1>8, <1>9, <1>10, <1>11,
       <1>12, <1>13, <1>14, <1>15, <1>16, <1>17
    DEF Next, Step, IoStep, DispatchStep, PowerStep

\* The invariant above holds in every reachable state.
THEOREM HandlesInductive == Spec => []IInv
  BY InitIInv, StepIInv, PTL DEF Spec

\* Every variable has its type.
THEOREM HandlesTyping == Spec => []TypeOK
  <1>1. IInv => TypeOK
    BY DEF IInv
  <1>2. QED
    BY <1>1, HandlesInductive, PTL

\* Until freed memory is used, CLEANUP and FdoDestroyAllHandles never both
\* destroy a stream, and no stream outlives its handle.
THEOREM StreamsDestroyedOnce == Spec => []StreamFollowsHandle
  <1>1. IInv => StreamFollowsHandle
    BY DEF IInv
  <1>2. QED
    BY <1>1, HandlesInductive, PTL

\* What a dispatch routine has found it finds on the list, and nothing uses
\* freed memory, as long as nobody is overtaken.
THEOREM FoundHandlesAreLive == Spec => []OnlyTheOvertakenBreak
  <1>1. IInv => OnlyTheOvertakenBreak
    BY DEF IInv
  <1>2. QED
    BY <1>1, HandlesInductive, PTL

\* FdoDestroy finds on the list only what a CREATE linked out of D0, if the
\* removal did not skip the power-down.
THEOREM DeleteFindsLateHandles == Spec => []OnlyLateHandlesLeft
  <1>1. IInv => OnlyLateHandlesLeft
    BY DEF IInv, LateOK, OnlyLateHandlesLeft
  <1>2. QED
    BY <1>1, HandlesInductive, PTL

=============================================================================
