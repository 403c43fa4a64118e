----------------------------- MODULE PowerProofs -----------------------------
(***************************************************************************)
(* The power threads, for every set of system states, every bound on the   *)
(* dispatch routines and whether or not the device is removed while IRPs   *)
(* are about: no slot is overwritten, no IRP is slept over, and when the   *)
(* system thread goes on the device is where it wants it, or could not be  *)
(* brought up.                                                             *)
(*                                                                         *)
(* A device IRP nobody asked for can still be in the driver when a system  *)
(* IRP arrives; the invariant follows the request from the moment the      *)
(* system thread makes it, through the slot and the device thread, to the  *)
(* answer.                                                                 *)
(***************************************************************************)
EXTENDS Power, TLAPS

Serving == {"process", "ask", "await", "finish"}

DeviceIrps == Irps({PowerDeviceD0, PowerDeviceD3})

\* Every variable has its type, and a thread holds an IRP while it serves
\* one, and at no other time.
Typed ==
    /\ po \in [Kinds -> {"idle", "sent"}]
    /\ slot \in [Kinds -> DeviceIrps \cup Irps(SystemStates) \cup {NoIrp}]
    /\ held \in [Kinds -> DeviceIrps \cup Irps(SystemStates) \cup {NoIrp}]
    /\ slot["device"] \in DeviceIrps \cup {NoIrp}
    /\ held["device"] \in DeviceIrps \cup {NoIrp}
    /\ slot["system"] \in Irps(SystemStates) \cup {NoIrp}
    /\ held["system"] \in Irps(SystemStates) \cup {NoIrp}
    /\ waking \in [Kinds -> 0 .. MaxDispatchers]
    /\ event \in [Kinds -> BOOLEAN] /\ alerted \in [Kinds -> BOOLEAN]
    /\ pc \in [Kinds -> PC]
    /\ \A k \in Kinds : pc[k] \in Serving <=> held[k] # NoIrp
    /\ pc["device"] \notin {"ask", "await"}
    /\ request \in {"none", "asked", "sent", "done"}
    /\ system \in SystemStates
    /\ power \in {PowerDeviceD0, PowerDeviceD3}
    /\ failed \in BOOLEAN
    /\ fdo \in FdoPC

\* The device IRP that the system thread wants for the IRP it serves.
Wanted == [minor |-> held["system"].minor,
           to |-> DeviceState[held["system"].to]]

\* Where a request is, the device IRP that answers it is.
RequestOK ==
    /\ request # "none" <=> pc["system"] = "await"
    /\ request = "sent" => /\ po["device"] = "sent"
                           /\ slot["device"] \in {Wanted, NoIrp}
                           /\ held["device"] \in {Wanted, NoIrp}
    /\ request = "done" => po["device"] = "idle"

\* The device is where the system thread wants it, or it could not be
\* brought up, or is being removed.
Answered ==
    \/ power = Wanted.to
    \/ Wanted.to = PowerDeviceD0 /\ (failed \/ fdo # "live")

\* What was asked for has been tried once the device thread is through with
\* it, which on the way down is as good as done.
AnswerOK ==
    held["system"].minor = "set" =>
        /\ request = "sent" /\ pc["device"] = "finish" => Answered
        /\ request = "done" => Answered
        /\ pc["system"] = "finish" /\ held["system"].to > system
              => power = Wanted.to /\ po["device"] = "idle"

\* On its way up the system is in its new state before the device is asked.
UpwardsOK ==
    pc["system"] \in {"ask", "await"} /\ held["system"].minor = "set"
        => held["system"].to >= system

\* The device of a system that does not work is in D3, and only the system
\* thread sends it IRPs.
AsleepOK ==
    system # PowerSystemWorking =>
        /\ power = PowerDeviceD3
        /\ po["device"] = "sent" => request = "sent"

IInv ==
    /\ Typed /\ SlotAssertion /\ NoIrpSleptOver
    /\ RequestOK /\ AnswerOK /\ UpwardsOK /\ AsleepOK

LEMMA NoIrpIsNone ==
    NoIrp \notin DeviceIrps /\ NoIrp \notin Irps(SystemStates)
  BY DEF NoIrp, DeviceIrps, Irps

LEMMA InitIInv == Init => IInv
  <1> SUFFICES ASSUME Init PROVE IInv
    OBVIOUS
  <1> USE DEF Init, Kinds
  <1>1. Typed
    <2>1. MaxDispatchers \in Nat \ {0} /\ PowerSystemWorking \in SystemStates
      BY StatesAssumption, PowerAssumption
    <2>2. /\ waking \in [Kinds -> 0 .. MaxDispatchers]
          /\ pc \in [Kinds -> PC] /\ fdo \in FdoPC
      BY <2>1 DEF PC, FdoPC
    <2>3. \A k \in Kinds : pc[k] \notin Serving /\ held[k] = NoIrp
      BY DEF Serving
    <2>4. pc["device"] \notin {"ask", "await"}
      OBVIOUS
    <2>5. QED
      BY <2>1, <2>2, <2>3, <2>4 DEF Typed
  <1>2. SlotAssertion /\ NoIrpSleptOver
    BY DEF SlotAssertion, NoIrpSleptOver
  <1>3. RequestOK /\ AsleepOK
    BY DEF RequestOK, AsleepOK
  <1>4. AnswerOK /\ UpwardsOK
    BY DEF AnswerOK, UpwardsOK, NoIrp
  <1>5. QED
    BY <1>1, <1>2, <1>3, <1>4 DEF IInv

(* The dispatch routines. *)

LEMMA Dispatched ==
  ASSUME IInv, NEW k \in Kinds, NEW i, i # NoIrp, Dispatch(k, i)
  PROVE  /\ slot[k] = NoIrp /\ held[k] = NoIrp /\ pc[k] \notin Serving
         /\ po[k] = "idle"
         /\ po' = [po EXCEPT ![k] = "sent"]
         /\ slot' = [slot EXCEPT ![k] = i]
         /\ waking' \in [Kinds -> 0 .. MaxDispatchers]
         /\ waking'[k] > 0
         /\ \A j \in Kinds : waking[j] > 0 => waking'[j] > 0
  <1>1. waking[k] + 1 \in 1 .. MaxDispatchers
    BY PowerAssumption DEF IInv, Typed, Dispatch
  <1>2. waking' = [waking EXCEPT ![k] = waking[k] + 1]
    BY DEF Dispatch
  <1>3. QED
    BY <1>1, <1>2 DEF IInv, Typed, SlotAssertion, Dispatch

LEMMA SystemDispatched ==
  ASSUME IInv, NEW i \in Irps(SystemStates), Dispatch("system", i),
         UNCHANGED <<held, request, threadVars, system, deviceVars, fdo>>
  PROVE IInv'
  <1> USE Dispatched, NoIrpIsNone DEF Kinds, threadVars, deviceVars
  <1>1. "system" \in Kinds /\ i # NoIrp
    OBVIOUS
  <1>2. Typed'
    BY <1>1 DEF IInv, Typed
  <1>3. SlotAssertion'
    BY <1>1 DEF IInv, Typed, SlotAssertion
  <1>4. NoIrpSleptOver'
    BY <1>1 DEF IInv, Typed, NoIrpSleptOver
  <1>5. RequestOK'
    BY <1>1 DEF IInv, Typed, RequestOK, Wanted
  <1>6. AnswerOK'
    BY <1>1 DEF IInv, Typed, AnswerOK, Answered, Wanted
  <1>7. UpwardsOK'
    BY DEF IInv, UpwardsOK
  <1>8. AsleepOK'
    BY <1>1 DEF IInv, Typed, AsleepOK
  <1>9. QED
    BY <1>2, <1>3, <1>4, <1>5, <1>6, <1>7, <1>8 DEF IInv

LEMMA StatesAreNumbers == SystemStates \subseteq Nat
  BY StatesAssumption DEF PowerSystemWorking, PowerSystemHibernate

LEMMA WantedIsDeviceIrp ==
  ASSUME IInv, held["system"] # NoIrp PROVE Wanted \in DeviceIrps
  BY DeviceStateAssumption DEF IInv, Typed, Wanted, DeviceIrps, Irps

LEMMA DownIsToD3 ==
  ASSUME IInv, held["system"] # NoIrp, held["system"].to > system
  PROVE  Wanted.to = PowerDeviceD3
  <1>1. held["system"].to \in SystemStates /\ system \in SystemStates
    BY DEF IInv, Typed, Irps
  <1>2. held["system"].to # PowerSystemWorking
    BY <1>1, StatesAssumption DEF PowerSystemWorking
  <1>3. QED
    BY <1>1, <1>2, DeviceStateAssumption DEF Wanted

LEMMA DeviceDispatched ==
  ASSUME IInv, NEW i \in DeviceIrps, Dispatch("device", i),
         UNCHANGED <<held, threadVars, system, deviceVars, fdo>>,
         \/ request = "asked" /\ i = Wanted /\ request' = "sent"
         \/ /\ po["system"] = "idle" /\ system = PowerSystemWorking
            /\ request' = request
  PROVE IInv'
  <1> USE Dispatched, NoIrpIsNone DEF Kinds, threadVars, deviceVars
  <1>1. "device" \in Kinds /\ i # NoIrp
    OBVIOUS
  <1>2. Typed'
    BY <1>1 DEF IInv, Typed
  <1>3. SlotAssertion'
    BY <1>1 DEF IInv, Typed, SlotAssertion
  <1>4. NoIrpSleptOver'
    BY <1>1 DEF IInv, Typed, NoIrpSleptOver
  <1>5. po["system"] = "idle" => request = "none"
    BY DEF IInv, Typed, SlotAssertion, RequestOK, Serving
  <1>6. RequestOK'
    BY <1>1, <1>5 DEF IInv, Typed, RequestOK, Wanted
  <1>7. AnswerOK'
    BY <1>1, <1>5 DEF IInv, Typed, AnswerOK, Answered, RequestOK, Wanted, SlotAssertion,
                 Serving
  <1>8. UpwardsOK' /\ AsleepOK'
    BY <1>1 DEF IInv, Typed, UpwardsOK, AsleepOK
  <1>9. QED
    BY <1>2, <1>3, <1>4, <1>6, <1>7, <1>8 DEF IInv

LEMMA DispatchIInv ==
  ASSUME IInv, DispatchSystem \/ DispatchRequested \/ DispatchDevice
  PROVE  IInv'
  <1>1. CASE DispatchSystem
    BY <1>1, SystemDispatched DEF DispatchSystem
  <1>2. CASE DispatchRequested
    <2>1. held["system"] # NoIrp
      BY <1>2 DEF IInv, Typed, RequestOK, DispatchRequested, Serving, Kinds
    <2>2. QED
      BY <1>2, <2>1, DeviceDispatched, WantedIsDeviceIrp
      DEF DispatchRequested, Wanted
  <1>3. CASE DispatchDevice
    BY <1>3, DeviceDispatched DEF DispatchDevice, DeviceIrps
  <1>4. QED
    BY <1>1, <1>2, <1>3

(* The threads. *)

LEMMA ThreadIInv ==
  ASSUME IInv, NEW k \in Kinds, ThreadStep(k) PROVE IInv'
  <1> USE NoIrpIsNone
      DEF Typed, Kinds, PC, FdoPC, Serving, Goto, At, irpVars, deviceVars
  <1>1. CASE CheckSlot(k)
    <2> USE <1>1 DEF IInv, CheckSlot
    <2>1. Typed'
      BY StatesAssumption, PowerAssumption
      DEF PowerDeviceD0, PowerDeviceD3, DeviceIrps, Irps
    <2>2. SlotAssertion' /\ NoIrpSleptOver'
      BY DEF SlotAssertion, NoIrpSleptOver
    <2>3. RequestOK' /\ UpwardsOK'
      BY DEF RequestOK, UpwardsOK, SlotAssertion, Wanted
    <2>4. AnswerOK'
      BY DEF AnswerOK, Answered, RequestOK, SlotAssertion, Wanted
    <2>5. AsleepOK'
      BY DEF AsleepOK, AnswerOK, RequestOK, SlotAssertion
    <2>6. QED
      BY <2>1, <2>2, <2>3, <2>4, <2>5
  <1>2. CASE Wait(k)
    <2> USE <1>2 DEF IInv, Wait
    <2>1. Typed'
      BY StatesAssumption, PowerAssumption
      DEF PowerDeviceD0, PowerDeviceD3, DeviceIrps, Irps
    <2>2. SlotAssertion' /\ NoIrpSleptOver'
      BY DEF SlotAssertion, NoIrpSleptOver
    <2>3. RequestOK' /\ UpwardsOK'
      BY DEF RequestOK, UpwardsOK, SlotAssertion, Wanted
    <2>4. AnswerOK'
      BY DEF AnswerOK, Answered, RequestOK, SlotAssertion, Wanted
    <2>5. AsleepOK'
      BY DEF AsleepOK, AnswerOK, RequestOK, SlotAssertion
    <2>6. QED
      BY <2>1, <2>2, <2>3, <2>4, <2>5
  <1>3. CASE ClearEvent(k)
    <2> USE <1>3 DEF IInv, ClearEvent
    <2>1. Typed'
      BY StatesAssumption, PowerAssumption
      DEF PowerDeviceD0, PowerDeviceD3, DeviceIrps, Irps
    <2>2. SlotAssertion' /\ NoIrpSleptOver'
      BY DEF SlotAssertion, NoIrpSleptOver
    <2>3. RequestOK' /\ UpwardsOK'
      BY DEF RequestOK, UpwardsOK, SlotAssertion, Wanted
    <2>4. AnswerOK'
      BY DEF AnswerOK, Answered, RequestOK, SlotAssertion, Wanted
    <2>5. AsleepOK'
      BY DEF AsleepOK, AnswerOK, RequestOK, SlotAssertion
    <2>6. QED
      BY <2>1, <2>2, <2>3, <2>4, <2>5
  <1>4. CASE TestAlerted(k)
    <2> USE <1>4 DEF IInv, TestAlerted
    <2>1. Typed'
      BY StatesAssumption, PowerAssumption
      DEF PowerDeviceD0, PowerDeviceD3, DeviceIrps, Irps
    <2>2. SlotAssertion' /\ NoIrpSleptOver'
      BY DEF SlotAssertion, NoIrpSleptOver
    <2>3. RequestOK' /\ UpwardsOK'
      BY DEF RequestOK, UpwardsOK, SlotAssertion, Wanted
    <2>4. AnswerOK'
      BY DEF AnswerOK, Answered, RequestOK, SlotAssertion, Wanted
    <2>5. AsleepOK'
      BY DEF AsleepOK, AnswerOK, RequestOK, SlotAssertion
    <2>6. QED
      BY <2>1, <2>2, <2>3, <2>4, <2>5
  <1>5. CASE Take(k)
    <2> USE <1>5 DEF IInv, Take
    <2>1. Typed'
      BY StatesAssumption, PowerAssumption
      DEF PowerDeviceD0, PowerDeviceD3, DeviceIrps, Irps
    <2>2. SlotAssertion' /\ NoIrpSleptOver'
      BY DEF SlotAssertion, NoIrpSleptOver
    <2>3. RequestOK' /\ UpwardsOK'
      BY DEF RequestOK, UpwardsOK, SlotAssertion, Wanted
    <2>4. AnswerOK'
      BY DEF AnswerOK, Answered, RequestOK, SlotAssertion, Wanted
    <2>5. AsleepOK'
      BY DEF AsleepOK, AnswerOK, RequestOK, SlotAssertion
    <2>6. QED
      BY <2>1, <2>2, <2>3, <2>4, <2>5
  <1>6. QED
    BY <1>1, <1>2, <1>3, <1>4, <1>5 DEF ThreadStep

LEMMA DeviceIInv ==
  ASSUME IInv, ProcessDevice \/ FinishDevice PROVE IInv'
  <1> USE NoIrpIsNone
      DEF Typed, Kinds, PC, FdoPC, Serving, Goto, At, irpVars, deviceVars
  <1>1. CASE ProcessDevice
    <2> USE <1>1 DEF IInv, ProcessDevice
    <2> USE DEF QueryDevicePower, SetDevicePower
    <2>a. held["device"] \in DeviceIrps /\ pc' = [pc EXCEPT !["device"] = "finish"]
      OBVIOUS
    <2>1. Typed'
      <3>1. UNCHANGED <<irpVars, waking, event, alerted, system, fdo>>
        OBVIOUS
      <3>2. /\ power' \in {PowerDeviceD0, PowerDeviceD3}
            /\ failed' \in BOOLEAN
        BY <2>a DEF DeviceIrps, Irps
      <3>3. /\ pc' \in [Kinds -> PC]
            /\ \A k \in Kinds : pc'[k] \in Serving <=> pc[k] \in Serving
            /\ pc'["device"] \notin {"ask", "await"}
        OBVIOUS
      <3>4. QED
        BY ONLY <3>1, <3>2, <3>3, IInv DEF IInv, Typed, irpVars
    <2>2. SlotAssertion' /\ NoIrpSleptOver'
      BY DEF SlotAssertion, NoIrpSleptOver
    <2>3. RequestOK' /\ UpwardsOK'
      BY DEF RequestOK, UpwardsOK, SlotAssertion, Wanted
    <2>4. AnswerOK'
      <3>1. /\ po["device"] = "sent" /\ request # "done"
            /\ pc'["system"] = pc["system"] /\ pc["device"] = "process"
        BY <2>a DEF SlotAssertion, RequestOK
      <3>2. CASE request = "sent" /\ held["system"].minor = "set"
        <4>1. held["device"] = Wanted /\ pc["system"] = "await"
          BY <2>a, <3>2 DEF RequestOK
        <4>2. held["device"].minor = "set"
          BY <3>2, <4>1 DEF Wanted
        <4>3. Wanted.to \in {PowerDeviceD0, PowerDeviceD3}
          BY <2>a, <4>1 DEF DeviceIrps, Irps
        <4>4. CASE power' = held["device"].to
          BY <3>1, <4>1, <4>4 DEF AnswerOK, Answered, Wanted
        <4>5. CASE held["device"].to < power /\ failed' = TRUE
          <5>1. Wanted.to = PowerDeviceD0
            BY <4>1, <4>3, <4>5 DEF PowerDeviceD0, PowerDeviceD3
          <5>2. QED
            BY <3>1, <4>1, <4>5, <5>1 DEF AnswerOK, Answered, Wanted
        <4>6. QED
          BY <4>2, <4>4, <4>5
      <3>3. CASE request # "sent" /\ held["system"].minor = "set"
        BY <3>1, <3>3 DEF AnswerOK, Answered, Wanted
      <3>4. CASE held["system"].minor # "set"
        BY <3>4 DEF AnswerOK
      <3>5. QED
        BY <3>2, <3>3, <3>4
    <2>5. AsleepOK'
      <3>1. ASSUME system # PowerSystemWorking,
                   held["device"].minor = "set"
            PROVE  held["device"].to = PowerDeviceD3
        <4>1. /\ held["device"] = Wanted /\ pc["system"] = "await"
              /\ held["system"] # NoIrp
          BY <3>1 DEF SlotAssertion, AsleepOK, RequestOK
        <4>2. /\ held["system"].minor = "set"
              /\ held["system"] \in Irps(SystemStates)
          BY <3>1, <4>1 DEF Wanted
        <4>3. /\ held["system"].to \in SystemStates
              /\ held["system"].to >= system
          BY <4>1, <4>2 DEF UpwardsOK, Irps
        <4>4. held["system"].to # PowerSystemWorking
          BY <3>1, <4>3, StatesAssumption DEF PowerSystemWorking
        <4>5. QED
          BY <4>1, <4>3, <4>4, DeviceStateAssumption
          DEF Wanted, PowerDeviceD3, PowerDeviceD0
      <3>2. QED
        BY <3>1 DEF AsleepOK
    <2>6. QED
      BY <2>1, <2>2, <2>3, <2>4, <2>5
  <1>2. CASE FinishDevice
    <2> USE <1>2 DEF IInv, FinishDevice, Complete
    <2>1. Typed'
      BY StatesAssumption, PowerAssumption
      DEF PowerDeviceD0, PowerDeviceD3, DeviceIrps, Irps
    <2>2. SlotAssertion' /\ NoIrpSleptOver'
      BY DEF SlotAssertion, NoIrpSleptOver
    <2>3. RequestOK' /\ UpwardsOK'
      BY DEF RequestOK, UpwardsOK, SlotAssertion, Wanted
    <2>4. AnswerOK'
      BY DEF AnswerOK, Answered, RequestOK, SlotAssertion, Wanted
    <2>5. AsleepOK'
      BY DEF AsleepOK, AnswerOK, RequestOK, SlotAssertion
    <2>6. QED
      BY <2>1, <2>2, <2>3, <2>4, <2>5
  <1>3. QED
    BY <1>1, <1>2 

LEMMA SystemIInv ==
  ASSUME IInv,
         ProcessSystem \/ AskForDevice \/ AwaitDevice \/ FinishSystem
  PROVE  IInv'
  <1> USE NoIrpIsNone
      DEF Typed, Kinds, PC, FdoPC, Serving, Goto, At, irpVars, deviceVars
  <1>1. CASE ProcessSystem
    <2> USE <1>1 DEF IInv, ProcessSystem
    <2>1. Typed'
      BY StatesAssumption, PowerAssumption
      DEF PowerDeviceD0, PowerDeviceD3, DeviceIrps, Irps
    <2>2. SlotAssertion' /\ NoIrpSleptOver'
      BY DEF SlotAssertion, NoIrpSleptOver
    <2>3. RequestOK' /\ UpwardsOK'
      <3>1. held["system"] \in Irps(SystemStates)
        OBVIOUS
      <3>2. /\ held["system"].to \in Nat /\ system \in Nat
            /\ request = "none"
        BY <3>1, StatesAreNumbers DEF Irps, RequestOK
      <3>3. QED
        BY <3>2 DEF RequestOK, UpwardsOK
    <2>4. AnswerOK'
      <3>1. held["system"] \in Irps(SystemStates)
        OBVIOUS
      <3>2. /\ held["system"].to \in Nat /\ system \in Nat
            /\ request = "none"
        BY <3>1, StatesAreNumbers DEF Irps, RequestOK
      <3>3. QED
        BY <3>2 DEF AnswerOK, Answered, Wanted
    <2>5. AsleepOK'
      BY StatesAssumption, DeviceStateAssumption
      DEF AsleepOK, AnswerOK, UpwardsOK, RequestOK, SlotAssertion, Wanted,
          Irps, PowerSystemWorking, PowerSystemHibernate, PowerDeviceD0,
          PowerDeviceD3
    <2>6. QED
      BY <2>1, <2>2, <2>3, <2>4, <2>5
  <1>2. CASE AskForDevice
    <2> USE <1>2 DEF IInv, AskForDevice
    <2>1. Typed'
      BY StatesAssumption, PowerAssumption
      DEF PowerDeviceD0, PowerDeviceD3, DeviceIrps, Irps
    <2>2. SlotAssertion' /\ NoIrpSleptOver'
      BY DEF SlotAssertion, NoIrpSleptOver
    <2>3. RequestOK' /\ UpwardsOK'
      BY DEF RequestOK, UpwardsOK, SlotAssertion, Wanted
    <2>4. AnswerOK'
      BY DEF AnswerOK, Answered, RequestOK, SlotAssertion, Wanted
    <2>5. AsleepOK'
      BY DEF AsleepOK, AnswerOK, RequestOK, SlotAssertion
    <2>6. QED
      BY <2>1, <2>2, <2>3, <2>4, <2>5
  <1>3. CASE AwaitDevice
    <2> USE <1>3 DEF IInv, AwaitDevice
    <2>1. Typed'
      BY StatesAssumption, PowerAssumption
      DEF PowerDeviceD0, PowerDeviceD3, DeviceIrps, Irps
    <2>2. SlotAssertion' /\ NoIrpSleptOver'
      BY DEF SlotAssertion, NoIrpSleptOver
    <2>3. RequestOK' /\ UpwardsOK'
      BY DEF RequestOK, UpwardsOK, SlotAssertion, Wanted
    <2>4. AnswerOK'
      <3>1. /\ request = "done" /\ request' = "none" /\ po["device"] = "idle"
            /\ pc["system"] = "await" /\ held["system"] # NoIrp
        BY DEF RequestOK
      <3>2. Wanted' = Wanted /\ held' = held /\ UNCHANGED <<power, system, po>>
        BY DEF Wanted
      <3>3. PowerDeviceD0 # PowerDeviceD3
        BY DEF PowerDeviceD0, PowerDeviceD3
      <3>4. QED
        BY <3>1, <3>2, <3>3, DownIsToD3 DEF AnswerOK, Answered
    <2>5. AsleepOK'
      BY DEF AsleepOK, AnswerOK, RequestOK, SlotAssertion
    <2>6. QED
      BY <2>1, <2>2, <2>3, <2>4, <2>5
  <1>4. CASE FinishSystem
    <2> USE <1>4 DEF IInv, FinishSystem, Complete
    <2>1. Typed'
      BY StatesAssumption, PowerAssumption
      DEF PowerDeviceD0, PowerDeviceD3, DeviceIrps, Irps
    <2>2. SlotAssertion' /\ NoIrpSleptOver'
      BY DEF SlotAssertion, NoIrpSleptOver
    <2>3. RequestOK' /\ UpwardsOK'
      BY DEF RequestOK, UpwardsOK, SlotAssertion, Wanted
    <2>4. AnswerOK'
      BY DEF AnswerOK, Answered, RequestOK, SlotAssertion, Wanted
    <2>5. AsleepOK'
      BY StatesAssumption, DeviceStateAssumption
      DEF AsleepOK, AnswerOK, UpwardsOK, RequestOK, SlotAssertion, Wanted,
          Irps, PowerSystemWorking, PowerSystemHibernate, PowerDeviceD0,
          PowerDeviceD3
    <2>6. QED
      BY <2>1, <2>2, <2>3, <2>4, <2>5
  <1>5. QED
    BY <1>1, <1>2, <1>3, <1>4 

LEMMA RestIInv ==
  ASSUME IInv,
         \/ \E k \in Kinds : Wake(k)
         \/ StartDevice \/ StopDevice \/ RemoveDevice \/ AlertAndJoin
  PROVE  IInv'
  <1> USE NoIrpIsNone
      DEF Typed, Kinds, PC, FdoPC, Serving, Goto, At, irpVars, deviceVars
  <1>1. CASE \E k \in Kinds : Wake(k)
    <2> USE <1>1 DEF IInv, Wake
    <2>1. Typed'
      BY StatesAssumption, PowerAssumption
      DEF PowerDeviceD0, PowerDeviceD3, DeviceIrps, Irps
    <2>2. SlotAssertion' /\ NoIrpSleptOver'
      BY DEF SlotAssertion, NoIrpSleptOver
    <2>3. RequestOK' /\ UpwardsOK'
      BY DEF RequestOK, UpwardsOK, SlotAssertion, Wanted
    <2>4. AnswerOK'
      BY DEF AnswerOK, Answered, RequestOK, SlotAssertion, Wanted
    <2>5. AsleepOK'
      BY DEF AsleepOK, AnswerOK, RequestOK, SlotAssertion
    <2>6. QED
      BY <2>1, <2>2, <2>3, <2>4, <2>5
  <1>2. CASE StartDevice \/ StopDevice \/ RemoveDevice
    <2> USE <1>2 DEF StartDevice, StopDevice, RemoveDevice, IInv, threadVars
    <2>a. UNCHANGED <<irpVars, waking, event, alerted, pc, system, failed>>
      OBVIOUS
    <2>b. power' \in {PowerDeviceD0, PowerDeviceD3}
      OBVIOUS
    <2>c. Quiet \/ (fdo' # "live" /\ power' \in {power, PowerDeviceD3})
      OBVIOUS
    <2>d. Quiet => /\ system = PowerSystemWorking
                   /\ po["system"] = "idle" /\ pc["system"] \notin Serving
                   /\ request = "none"
      BY DEF Quiet, SlotAssertion, RequestOK
    <2>1. Typed'
      <3>1. fdo' \in FdoPC
        OBVIOUS
      <3>2. QED
        BY ONLY <2>a, <2>b, <3>1, IInv DEF IInv, Typed, irpVars
    <2>2. SlotAssertion' /\ NoIrpSleptOver'
      BY <2>a DEF SlotAssertion, NoIrpSleptOver
    <2>3. RequestOK' /\ UpwardsOK'
      BY <2>a DEF RequestOK, UpwardsOK, SlotAssertion, Wanted
    <2>4. AnswerOK'
      <3>1. CASE Quiet
        BY <2>a, <2>d, <3>1 DEF AnswerOK
      <3>2. CASE fdo' # "live" /\ power' \in {power, PowerDeviceD3}
        <4>1. held["system"] # NoIrp => Wanted.to \in {PowerDeviceD0, PowerDeviceD3}
          BY WantedIsDeviceIrp DEF DeviceIrps, Irps
        <4>2. held["system"].minor = "set" => held["system"] # NoIrp
          BY DEF NoIrp
        <4>3. Wanted' = Wanted
          BY <2>a DEF Wanted
        <4>4. QED
          BY <2>a, <3>2, <4>1, <4>2, <4>3, DownIsToD3 DEF AnswerOK, Answered
      <3>3. QED
        BY <2>c, <3>1, <3>2
    <2>5. AsleepOK'
      BY <2>a, <2>c, <2>d DEF AsleepOK
    <2>6. QED
      BY <2>1, <2>2, <2>3, <2>4, <2>5
  <1>3. CASE AlertAndJoin
    <2> USE <1>3 DEF IInv, AlertAndJoin, Alert
    <2>1. Typed'
      <3>1. UNCHANGED <<irpVars, waking, pc, system, deviceVars>>
        OBVIOUS
      <3>2. alerted' \in [Kinds -> BOOLEAN] /\ event' \in [Kinds -> BOOLEAN]
        BY ONLY <1>3, IInv DEF AlertAndJoin, Alert, IInv, Typed
      <3>3. fdo' \in FdoPC
        OBVIOUS
      <3>4. QED
        BY ONLY IInv, <3>1, <3>2, <3>3 DEF IInv, Typed, irpVars, deviceVars
    <2>2. SlotAssertion' /\ NoIrpSleptOver'
      BY DEF SlotAssertion, NoIrpSleptOver
    <2>3. RequestOK' /\ UpwardsOK'
      BY DEF RequestOK, UpwardsOK, SlotAssertion, Wanted
    <2>4. AnswerOK'
      BY DEF AnswerOK, Answered, RequestOK, SlotAssertion, Wanted
    <2>5. AsleepOK'
      BY DEF AsleepOK, AnswerOK, RequestOK, SlotAssertion
    <2>6. QED
      BY <2>1, <2>2, <2>3, <2>4, <2>5
  <1>4. QED
    BY <1>1, <1>2, <1>3

LEMMA StepIInv == IInv /\ [Next]_vars => IInv'
  <1>1. ASSUME IInv, UNCHANGED vars PROVE IInv'
    BY <1>1 DEF IInv, Typed, SlotAssertion, NoIrpSleptOver, RequestOK, Wanted,
                AnswerOK, Answered, UpwardsOK, AsleepOK, vars, irpVars,
                threadVars, deviceVars
  <1>2. QED
    BY <1>1, DispatchIInv, ThreadIInv, DeviceIInv, SystemIInv, RestIInv
    DEF Next, DeviceStep, SystemStep, Finished, Kinds

\* The invariant above holds in every reachable state.
THEOREM PowerInductive == Spec => []IInv
  BY InitIInv, StepIInv, PTL DEF Spec

\* Every variable has its type, and a thread that serves an IRP has one.
THEOREM PowerTyping == Spec => []TypeOK
  <1>1. IInv => TypeOK
    BY DEF IInv, Typed, TypeOK, DeviceIrps, Serving, Kinds
  <1>2. QED
    BY <1>1, PowerInductive, PTL

\* The slot is free whenever the power manager may send the next IRP of its
\* kind, and no IRP it waits for is lost between slot and thread.
THEOREM SlotsAreFree == Spec => []SlotAssertion
  <1>1. IInv => SlotAssertion
    BY DEF IInv
  <1>2. QED
    BY <1>1, PowerInductive, PTL

\* No thread waits, without a wake-up on the way, while its slot is full.
THEOREM SlotsAreSeen == Spec => []NoIrpSleptOver
  <1>1. IInv => NoIrpSleptOver
    BY DEF IInv
  <1>2. QED
    BY <1>1, PowerInductive, PTL

\* The system never sleeps with the device up.
THEOREM DeviceSleepsToo == Spec => []SleepsInD3
  <1>1. IInv => SleepsInD3
    BY DEF IInv, AsleepOK, SleepsInD3
  <1>2. QED
    BY <1>1, PowerInductive, PTL

\* The system thread goes on only with the device where it wants it, unless
\* that is D0 and the power-up failed or the device is being removed.
THEOREM DeviceHasAnswered == Spec => DeviceAnswersFirst
  <1> DEFINE Good == \/ power = DeviceState[held["system"].to]
                     \/ /\ DeviceState[held["system"].to] = PowerDeviceD0
                        /\ failed \/ fdo # "live"
             A == pc["system"] = "await" /\ pc'["system"] = "finish"
                     /\ held["system"].minor = "set" => Good
  <1>1. ASSUME IInv, Next, pc["system"] = "await", pc'["system"] = "finish",
               held["system"].minor = "set"
        PROVE  Good
    <2>1. CASE AwaitDevice
      BY <1>1, <2>1 DEF AwaitDevice, IInv, AnswerOK, Answered, Wanted
    <2>2. CASE SystemStep /\ ~AwaitDevice
      BY <1>1, <2>2
      DEF SystemStep, ThreadStep, CheckSlot, Wait, ClearEvent, TestAlerted,
          Take, ProcessSystem, AskForDevice, FinishSystem, At
    <2>3. CASE ~SystemStep
      <3>1. pc'["system"] = pc["system"]
        BY <1>1, <2>3
        DEF IInv, Typed, Next, DispatchSystem, DispatchRequested,
            DispatchDevice, Wake, DeviceStep, ThreadStep, CheckSlot, Wait,
            ClearEvent, TestAlerted, Take, ProcessDevice, FinishDevice,
            Complete, StartDevice, StopDevice, RemoveDevice, AlertAndJoin,
            Finished, At, Goto, vars,
            threadVars, Kinds
      <3>2. QED
        BY <1>1, <3>1
    <2>4. QED
      BY <2>1, <2>2, <2>3
  <1>2. IInv /\ [Next]_vars => [A]_vars
    BY <1>1
  <1>3. QED
    BY <1>2, PowerInductive, PTL DEF Spec, DeviceAnswersFirst

=============================================================================
