------------------------------ MODULE MCHandles ------------------------------
(* Two file objects: while one is opened, used or closed the other can be    *)
(* anywhere in its life, and the device goes down, up again or away beneath  *)
(* both.  Each is opened once.                                               *)
EXTENDS Handles

CONSTANTS f1, f2

=============================================================================
