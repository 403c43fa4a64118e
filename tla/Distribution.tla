---------------------------- MODULE Distribution ----------------------------
(***************************************************************************)
(* What the driver publishes of itself in XenStore (src/src/xencons/fdo.c): *)
(* a key drivers/<n> that names vendor, product and version, written by    *)
(* FdoSetDistribution and removed by FdoClearDistribution when the device  *)
(* goes to D0 and to D3 and, after a suspend, by FdoSuspendCallbackLate.   *)
(*                                                                         *)
(* Other drivers keep such keys in the same directory, in the same way.    *)
(* No store transaction covers what a driver reads and what it then        *)
(* writes, so one step here is one request to the store.  Every request    *)
(* may fail, and every allocation.                                         *)
(***************************************************************************)
EXTENDS Naturals, Sequences, FiniteSets

CONSTANT MAXIMUM_INDEX      \* of a key; 255 in the code

ASSUME DistributionAssumption == MAXIMUM_INDEX \in Nat

Indices == 0 .. MAXIMUM_INDEX

VARIABLES
    key,        \* whose distribution each key holds: "own", "other" or "none"
    pc,         \* where the driver is; "off" in D3, "on" in D0
    rest,       \* where the callers of the running function go on, in turn
    index,      \* Index, or Distribution
    todo,       \* the names in Distributions still to be looked at
    other,      \* the index another driver has found free, or Nobody
    failed,     \* history: a request failed since the last clear began
    clash       \* history: a driver has written over another one's key

vars == <<key, pc, rest, index, todo, other, failed, clash>>

Own == {i \in Indices : key[i] = "own"}

Nobody == MAXIMUM_INDEX + 1

Init ==
    /\ key \in [Indices -> {"none", "other"}]
    /\ pc = "off" /\ rest = <<>> /\ index = 0 /\ todo = {}
    /\ other = Nobody
    /\ failed = FALSE /\ clash = FALSE

Goto(l) == pc' = l /\ UNCHANGED rest

Call(l, callers) == pc' = l /\ rest' = callers

Return == pc' = Head(rest) /\ rest' = Tail(rest) /\ index' = 0

-----------------------------------------------------------------------------
(* Mistakes the runs must notice; see "mutants" in PROJECT.json.           *)

MatchVendorOnly(i) == key[i] # "none"

SetOnly == Call("set", <<"on">>)

-----------------------------------------------------------------------------
(* FdoSetDistribution: the first index that cannot be read for want of a   *)
(* key is the driver's; any other error and a full directory end it.       *)

Found ==
    /\ pc = "set"
    /\ index \in Indices /\ key[index] = "none"
    /\ Goto("write")
    /\ UNCHANGED <<key, index, todo, other, failed, clash>>

Taken ==
    /\ pc = "set"
    /\ index \in Indices /\ key[index] # "none"
    /\ index' = index + 1
    /\ Goto("set")
    /\ UNCHANGED <<key, todo, other, failed, clash>>

SetFails ==
    /\ pc = "set"
    /\ Return
    /\ failed' = TRUE
    /\ UNCHANGED <<key, todo, other, clash>>

Printf ==
    /\ pc = "write"
    /\ Return
    /\ \/ /\ key' = [key EXCEPT ![index] = "own"]
          /\ clash' = (clash \/ key[index] = "other")
          /\ UNCHANGED failed
       \/ /\ failed' = TRUE
          /\ UNCHANGED <<key, clash>>
    /\ UNCHANGED <<todo, other>>

-----------------------------------------------------------------------------
(* FdoClearDistribution                                                    *)

\* Directory, and the copy __FdoMultiSzToUpcaseAnsi makes of it.
Directory ==
    /\ pc = "directory"
    /\ \/ /\ Goto("read")
          /\ todo' = {i \in Indices : key[i] # "none"}
          /\ failed' = FALSE
          /\ UNCHANGED index
       \/ /\ Return
          /\ failed' = TRUE
          /\ UNCHANGED todo
    /\ UNCHANGED <<key, other, clash>>

\* __FdoMatchDistribution compares vendor and product.
Match(i) == key[i] = "own"

\* One name of the directory as it was then.
Read ==
    /\ pc = "read"
    /\ \E i \in todo :
          /\ todo' = todo \ {i}
          /\ \/ /\ Match(i)
                /\ Goto("remove") /\ index' = i
                /\ UNCHANGED failed
             \/ /\ ~Match(i)
                /\ Goto("read") /\ UNCHANGED <<index, failed>>
             \/ /\ key[i] # "none"
                /\ failed' = TRUE
                /\ Goto("read") /\ UNCHANGED index
    /\ UNCHANGED <<key, other, clash>>

Remove ==
    /\ pc = "remove"
    /\ Goto("read")
    /\ \/ key' = [key EXCEPT ![index] = "none"] /\ UNCHANGED failed
       \/ UNCHANGED key /\ failed' = TRUE
    /\ UNCHANGED <<index, todo, other, clash>>

Cleared ==
    /\ pc = "read" /\ todo = {}
    /\ Return
    /\ UNCHANGED <<key, todo, other, failed, clash>>

-----------------------------------------------------------------------------
(* FdoD3ToD0, FdoD0ToD3 and FdoSuspendCallbackLate                         *)

\* If the store cannot be acquired, fail2 clears the distribution all the
\* same; without the suspend interface nothing is done.
D3ToD0 ==
    /\ pc = "off"
    /\ Call("set", <<"register">>) \/ Call("directory", <<"off">>)
    /\ UNCHANGED <<key, index, todo, other, failed, clash>>

\* If the callback cannot be registered, fail3 clears the distribution, gives
\* up the store, and falls through to fail2.
Register ==
    /\ pc = "register"
    /\ Goto("on") \/ Call("directory", <<"directory", "off">>)
    /\ UNCHANGED <<key, index, todo, other, failed, clash>>

D0ToD3 ==
    /\ pc = "on"
    /\ Call("directory", <<"off">>)
    /\ UNCHANGED <<key, index, todo, other, failed, clash>>

SuspendCallbackLate == Call("directory", <<"set", "on">>)

\* The domain resumes, with its store as it was or, after a migration, empty.
Resume ==
    /\ pc = "on"
    /\ key' \in {key, [i \in Indices |-> "none"]}
    /\ SuspendCallbackLate
    /\ UNCHANGED <<index, todo, other, failed, clash>>

-----------------------------------------------------------------------------
(* The other drivers                                                       *)

OtherFinds ==
    /\ other = Nobody
    /\ \E i \in Indices :
          /\ key[i] = "none"
          /\ \A j \in 0 .. i - 1 : key[j] # "none"
          /\ other' = i
    /\ UNCHANGED <<key, pc, rest, index, todo, failed, clash>>

OtherWrites ==
    /\ other # Nobody
    /\ key' = [key EXCEPT ![other] = "other"]
    /\ other' = Nobody
    /\ clash' = (clash \/ key[other] = "own")
    /\ UNCHANGED <<pc, rest, index, todo, failed>>

OtherRemoves ==
    /\ \E i \in Indices :
          /\ key[i] = "other"
          /\ key' = [key EXCEPT ![i] = "none"]
    /\ UNCHANGED <<pc, rest, index, todo, other, failed, clash>>

-----------------------------------------------------------------------------

Next ==
    \/ Found \/ Taken \/ SetFails \/ Printf
    \/ Directory \/ Read \/ Remove \/ Cleared
    \/ D3ToD0 \/ Register \/ D0ToD3 \/ Resume
    \/ OtherFinds \/ OtherWrites \/ OtherRemoves

Spec == Init /\ [][Next]_vars

-----------------------------------------------------------------------------
(* Properties                                                              *)

\* However power changes, suspends, migrations and the other drivers' keys
\* interleave, and whatever failed before: once a clear, and the set after it,
\* have met no failure, the driver is published exactly once in D0 and not at
\* all in D3.  Only two drivers that pick the same index can prevent it.
PublishedOnce ==
    ~failed /\ ~clash =>
        /\ pc = "on" => Cardinality(Own) = 1
        /\ pc = "off" => Own = {}

\* The driver neither removes nor replaces the key of another one, although
\* the directory it works from is out of date by the time it does: unless two
\* drivers have picked the same index, such a key goes only when its driver
\* removes it or with the store.
OthersKept ==
    [][\A i \in Indices :
          key[i] = "other" /\ key'[i] # "other" =>
              OtherRemoves \/ Resume \/ clash']_vars

=============================================================================
