---------------------------- MODULE MCFileSpace ----------------------------
(***************************************************************************)
(* Instances of FileSpace for TLC.                                         *)
(***************************************************************************)
EXTENDS FileSpace, TLC

\* Names and requests are only ever compared with each other.
Symmetry == Permutations(Names) \cup Permutations(Requests)
=============================================================================
