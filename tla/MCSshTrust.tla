----------------------------- MODULE MCSshTrust -----------------------------
(***************************************************************************)
(* Instances of SshTrust for TLC.                                          *)
(***************************************************************************)
EXTENDS SshTrust, TLC

\* Requests and keys are only ever compared with each other.
Symmetry == Permutations(Requests) \cup Permutations(Keys)
=============================================================================
