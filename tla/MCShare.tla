------------------------------ MODULE MCShare -------------------------------
(* Share for TLC: connections are interchangeable, and what follows the first
   disorderly connection is not explored further. *)
EXTENDS Share, TLC

Symmetry == Permutations(Conns)

OrderlyOnly == orderly
=============================================================================
