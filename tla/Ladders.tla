------------------------------ MODULE Ladders -------------------------------
(***************************************************************************)
(* The error path every function of the driver has: a chain of steps, each *)
(* of which takes something and jumps to its label when it fails; the      *)
(* labels are in reverse order, fall through, and give back what the steps *)
(* before them took.  A ladder is the sequence of its rungs.               *)
(*                                                                         *)
(* "takes" is what the step holds when it has succeeded, "drops" what its  *)
(* success gives up, "undo" what the code gives back at the label the step *)
(* jumps to, before it falls through to the label of the rung below.       *)
(***************************************************************************)
EXTENDS Integers, Sequences

Rung(step, takes, undo) ==
    [step |-> step, takes |-> takes, drops |-> {}, undo |-> undo]

RungDrops(step, drops, undo) ==
    [step |-> step, takes |-> {}, drops |-> drops, undo |-> undo]

\* What all the labels from that of rung n down give back.
Unwound(ladder, n) == UNION {ladder[i].undo : i \in 1 .. n}

\* What is held when rung n has succeeded, of what was held before it.
Climbed(ladder, n, held) == (held \ ladder[n].drops) \cup ladder[n].takes

=============================================================================
