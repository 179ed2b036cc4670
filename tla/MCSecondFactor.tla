--------------------------- MODULE MCSecondFactor ---------------------------
(* Requests, secrets and codes are only ever compared with each other.     *)
EXTENDS SecondFactor, TLC

Symmetry == Permutations(Requests) \cup Permutations(Secrets) \cup Permutations(Codes)
=============================================================================
