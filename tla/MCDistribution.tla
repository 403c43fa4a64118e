--------------------------- MODULE MCDistribution ---------------------------
(* Three keys: one taken, one free and one to be raced for.                  *)
EXTENDS Distribution

MCMaximumIndex == 2

=============================================================================
