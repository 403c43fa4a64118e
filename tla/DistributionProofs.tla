------------------------- MODULE DistributionProofs -------------------------
(***************************************************************************)
(* For every MAXIMUM_INDEX: what Distribution promises, from an inductive  *)
(* invariant that says where the driver's own keys can be at each point of *)
(* FdoSetDistribution and FdoClearDistribution.                            *)
(***************************************************************************)
EXTENDS Distribution, FiniteSetTheorems, TLAPS

ClearCallers == {<<"off">>, <<"directory", "off">>, <<"set", "on">>}

SetCallers == {<<"register">>, <<"on">>}

\* Every variable has its type, and whoever called the running function is
\* one of its callers.
Typing ==
    /\ key \in [Indices -> {"none", "own", "other"}]
    /\ pc \in {"off", "on", "register", "set", "write", "directory", "read",
               "remove"}
    /\ pc \in {"set", "write"} => rest \in SetCallers
    /\ pc \in {"directory", "read", "remove"} => rest \in ClearCallers
    /\ pc \in {"off", "on", "register"} => rest = <<>>
    /\ index \in Nat
    /\ pc \in {"write", "remove"} => index \in Indices
    /\ todo \in SUBSET Indices
    /\ other \in Nat /\ (other # Nobody => other \in Indices)
    /\ failed \in BOOLEAN /\ clash \in BOOLEAN

\* Where the driver's own keys can be, if no request of the clear in progress,
\* or of the last one and what followed it, has failed.
OwnKeys ==
    ~failed /\ ~clash =>
        /\ pc \in {"off", "set", "write"} => Own = {}
        /\ pc \in {"register", "on"} => \E i \in Indices : Own = {i}
        /\ pc = "read" => Own \subseteq todo
        /\ pc = "remove" => Own \subseteq todo \cup {index}

\* What is about to be removed is the driver's own.
RemovesOwn == pc = "remove" /\ ~clash => key[index] # "other"

IInv == Typing /\ OwnKeys /\ RemovesOwn

LEMMA InitIInv == Init => IInv
  BY DistributionAssumption
  DEF Init, IInv, Typing, OwnKeys, RemovesOwn, Own, Indices, Nobody

LEMMA SetReturns ==
  ASSUME rest \in SetCallers, Return
  PROVE  pc' \in {"register", "on"} /\ rest' = <<>> /\ index' = 0
  BY DEF SetCallers, Return

LEMMA ClearReturns ==
  ASSUME rest \in ClearCallers, Return
  PROVE  /\ index' = 0
         /\ \/ pc' = "off" /\ rest' = <<>>
            \/ pc' = "directory" /\ rest' = <<"off">>
            \/ pc' = "set" /\ rest' = <<"on">>
  <1>1. CASE rest = <<"off">>
    BY <1>1 DEF Return
  <1>2. CASE rest = <<"directory", "off">>
    <2>1. Head(rest) = "directory" /\ Tail(rest) = <<"off">>
      BY <1>2
    <2>2. QED
      BY <2>1 DEF Return
  <1>3. CASE rest = <<"set", "on">>
    <2>1. Head(rest) = "set" /\ Tail(rest) = <<"on">>
      BY <1>3
    <2>2. QED
      BY <2>1 DEF Return
  <1>4. QED
    BY <1>1, <1>2, <1>3 DEF ClearCallers

LEMMA StepIInv == IInv /\ [Next]_vars => IInv'
  <1> SUFFICES ASSUME IInv, [Next]_vars PROVE IInv'
    OBVIOUS
  <1> USE DistributionAssumption
      DEF IInv, Typing, OwnKeys, RemovesOwn, Own, Indices, Nobody, Goto, Call
  <1>1. CASE UNCHANGED vars
    BY <1>1 DEF vars
  <1>2. CASE Found
    BY <1>2 DEF Found
  <1>3. CASE Taken
    BY <1>3 DEF Taken
  <1>4. CASE SetFails
    <2>1. pc' \in {"register", "on"} /\ rest' = <<>> /\ index' = 0
      BY <1>4, SetReturns DEF SetFails
    <2>2. QED
      BY <1>4, <2>1 DEF SetFails
  <1>5. CASE Printf
    <2>1. pc' \in {"register", "on"} /\ rest' = <<>> /\ index' = 0
      BY <1>5, SetReturns DEF Printf
    <2>2. Typing'
      BY <1>5, <2>1 DEF Printf
    <2>3. OwnKeys'
      BY <1>5, <2>1 DEF Printf
    <2>4. RemovesOwn'
      BY <2>1
    <2>5. QED
      BY <2>2, <2>3, <2>4
  <1>6. CASE Directory
    <2>1. CASE Return
      <3>1. /\ index' = 0
            /\ \/ pc' = "off" /\ rest' = <<>>
               \/ pc' = "directory" /\ rest' = <<"off">>
               \/ pc' = "set" /\ rest' = <<"on">>
        BY <1>6, <2>1, ClearReturns DEF Directory
      <3>2. QED
        BY <1>6, <3>1 DEF Directory, ClearCallers, SetCallers
    <2>2. CASE /\ Goto("read") /\ todo' = {i \in Indices : key[i] # "none"}
               /\ failed' = FALSE /\ UNCHANGED index
      <3>1. Own' = Own /\ Own \subseteq todo'
        BY <1>6, <2>2 DEF Directory
      <3>2. Typing' /\ RemovesOwn'
        BY <1>6, <2>2 DEF Directory
      <3>3. OwnKeys'
        BY <2>2, <3>1
      <3>4. QED
        BY <3>2, <3>3
    <2>3. QED
      BY <1>6, <2>1, <2>2 DEF Directory
  <1>7. CASE Read
    BY <1>7 DEF Read, Match
  <1>8. CASE Remove
    BY <1>8 DEF Remove
  <1>9. CASE Cleared
    <2>1. /\ index' = 0
          /\ \/ pc' = "off" /\ rest' = <<>>
             \/ pc' = "directory" /\ rest' = <<"off">>
             \/ pc' = "set" /\ rest' = <<"on">>
      BY <1>9, ClearReturns DEF Cleared
    <2>2. QED
      BY <1>9, <2>1 DEF Cleared, ClearCallers, SetCallers
  <1>10. CASE D3ToD0
    BY <1>10 DEF D3ToD0, ClearCallers, SetCallers
  <1>11. CASE Register
    BY <1>11 DEF Register, ClearCallers
  <1>12. CASE D0ToD3
    BY <1>12 DEF D0ToD3, ClearCallers, SetCallers
  <1>13. CASE Resume
    BY <1>13 DEF Resume, SuspendCallbackLate, ClearCallers
  <1>14. CASE OtherFinds
    BY <1>14 DEF OtherFinds
  <1>15. CASE OtherWrites
    <2>1. Typing' /\ RemovesOwn'
      BY <1>15 DEF OtherWrites
    <2>2. clash' \/ (clash' = clash /\ Own' = Own)
      BY <1>15 DEF OtherWrites
    <2>3. OwnKeys'
      BY <1>15, <2>2 DEF OtherWrites
    <2>4. QED
      BY <2>1, <2>3
  <1>16. CASE OtherRemoves
    BY <1>16 DEF OtherRemoves
  <1>17. QED
    BY <1>1, <1>2, <1>3, <1>4, <1>5, <1>6, <1>7, <1>8, <1>9, <1>10, <1>11,
       <1>12, <1>13, <1>14, <1>15, <1>16 DEF Next

\* The invariant above holds in every reachable state.
THEOREM DistributionInductive == Spec => []IInv
  BY InitIInv, StepIInv, PTL DEF Spec

\* Published exactly once in D0 and not at all in D3, whatever the size of the
\* directory, unless a request failed or two drivers picked one index.
THEOREM PublicationCorrect == Spec => []PublishedOnce
  <1>1. IInv => PublishedOnce
    <2> SUFFICES ASSUME IInv, ~failed, ~clash
                 PROVE  /\ pc = "on" => Cardinality(Own) = 1
                        /\ pc = "off" => Own = {}
      BY DEF PublishedOnce
    <2>1. pc = "off" => Own = {}
      BY DEF IInv, OwnKeys
    <2>2. ASSUME pc = "on" PROVE Cardinality(Own) = 1
      <3>1. PICK i \in Indices : Own = {i}
        BY <2>2 DEF IInv, OwnKeys
      <3>2. QED
        BY <3>1, FS_Singleton
    <2>3. QED
      BY <2>1, <2>2
  <1>2. QED
    BY <1>1, DistributionInductive, PTL

\* No step of this driver, whatever fails in it, costs another driver its key
\* unless the two have picked the same index.
THEOREM OthersKeysKept == Spec => OthersKept
  <1> DEFINE A == \A i \in Indices :
                    key[i] = "other" /\ key'[i] # "other" =>
                        OtherRemoves \/ Resume \/ clash'
  <1>1. IInv /\ [Next]_vars => [A]_vars
    <2> SUFFICES ASSUME IInv, Next, NEW i \in Indices, key[i] = "other",
                        key'[i] # "other", ~OtherRemoves, ~Resume
                 PROVE  clash'
      BY DEF vars
    <2> USE DEF IInv, Typing
    <2>1. ~UNCHANGED key
      OBVIOUS
    <2>2. CASE Printf
      BY <2>2 DEF Printf
    <2>3. CASE Remove
      BY <2>3 DEF Remove, RemovesOwn
    <2>4. CASE OtherWrites
      BY <2>4 DEF OtherWrites, Nobody
    <2>5. QED
      BY <2>1, <2>2, <2>3, <2>4 DEF Next, Found, Taken, SetFails, Directory,
         Read, Cleared, D3ToD0, Register, D0ToD3, OtherFinds
  <1>2. QED
    BY <1>1, DistributionInductive, PTL DEF Spec, OthersKept

=============================================================================
