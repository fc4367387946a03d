---------------------------- MODULE MCTailIngest ----------------------------
(***************************************************************************)
(* TailIngest for TLC.  Rows are interchangeable: no definition of         *)
(* TailIngest names one, and a timestamp is chosen when a row arrives.     *)
(***************************************************************************)
EXTENDS TailIngest, TLC

RowSymmetry == Permutations(Rows)
=============================================================================
