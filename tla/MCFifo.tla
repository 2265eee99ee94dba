------------------------------- MODULE MCFifo -------------------------------
(* TLC instances of Fifo. *)
EXTENDS Fifo, TLC

Symmetry == Permutations(Threads) \union Permutations(Cells)
=============================================================================
