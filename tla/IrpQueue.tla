------------------------------ MODULE IrpQueue ------------------------------
(***************************************************************************)
(* What a stream promises to those who queue IRPs on it: an IRP that was   *)
(* accepted is completed exactly once, either served in the order of       *)
(* arrival or cancelled, and when the stream is closed none is left.       *)
(*                                                                         *)
(* An IRP whose cancellation has begun is no longer in line: it will not   *)
(* be served, and those behind it may be.                                  *)
(***************************************************************************)

CONSTANT Irps

VARIABLES
    line,       \* the IRPs waiting to be served
    ahead,      \* <<i, j>> if i and j are in line and i came before j
    doomed,     \* those whose cancellation has begun
    served,     \* those completed with success
    cancelled,  \* those completed with STATUS_CANCELLED
    closed      \* the stream is no more

vars == <<line, ahead, doomed, served, cancelled, closed>>

Accepted == line \cup doomed \cup served \cup cancelled

Init ==
    /\ line = {} /\ ahead = {}
    /\ doomed = {}
    /\ served = {}
    /\ cancelled = {}
    /\ closed = FALSE

\* It goes behind all the others.
Accept(i) ==
    /\ ~closed
    /\ i \notin Accepted
    /\ line' = line \cup {i}
    /\ ahead' = ahead \cup line \X {i}
    /\ UNCHANGED <<doomed, served, cancelled, closed>>

Leave(i) ==
    /\ i \in line
    /\ line' = line \ {i}
    /\ ahead' = {p \in ahead : i \notin {p[1], p[2]}}

\* Only who has nobody ahead is served.
Serve(i) ==
    /\ \A j \in line : <<j, i>> \notin ahead
    /\ Leave(i)
    /\ served' = served \cup {i}
    /\ UNCHANGED <<doomed, cancelled, closed>>

Doom(i) ==
    /\ Leave(i)
    /\ doomed' = doomed \cup {i}
    /\ UNCHANGED <<served, cancelled, closed>>

Cancel(i) ==
    /\ Leave(i)
    /\ cancelled' = cancelled \cup {i}
    /\ UNCHANGED <<doomed, served, closed>>

CancelDoomed(i) ==
    /\ i \in doomed
    /\ doomed' = doomed \ {i}
    /\ cancelled' = cancelled \cup {i}
    /\ UNCHANGED <<line, ahead, served, closed>>

Close ==
    /\ ~closed
    /\ line = {} /\ doomed = {}
    /\ closed' = TRUE
    /\ UNCHANGED <<line, ahead, doomed, served, cancelled>>

Next ==
    \/ \E i \in Irps :
          Accept(i) \/ Serve(i) \/ Doom(i) \/ Cancel(i) \/ CancelDoomed(i)
    \/ Close

Spec == Init /\ [][Next]_vars

=============================================================================
