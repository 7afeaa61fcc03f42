------------------------------ MODULE BuffersMC ------------------------------
(***************************************************************************)
(* Instances of Buffers for TLC.                                           *)
(***************************************************************************)
EXTENDS Buffers, TLC

CONSTANTS b1, b2

\* What Buffers asks for: strings, capacities of buffers and vectors.
MCSizes == {3, 4, 8, 16, 24, 32, 40}
MCFrameSizes == {64, 128}

\* Nothing tells the names of objects apart.
MCSymmetry == Permutations(Ids)
=============================================================================
