------------------------------ MODULE MCStream ------------------------------
(* Streams with a few IRPs.  NULL and the IRPs are model values; no state    *)
(* or property tells two READs (or two WRITEs) apart, so safety runs may     *)
(* identify the states that differ only in their names.                      *)
EXTENDS Stream

CONSTANTS r1, r2, w1, w2

Interchangeable == Permutations({r1, r2}) \cup Permutations({w1, w2})

=============================================================================
