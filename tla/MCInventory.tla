---------------------------- MODULE MCInventory -----------------------------
(* One row of each kind, two requests, and a name DNS answers differently. *)
EXTENDS Inventory, TLC

CONSTANTS i1, i2, i3

MCCidrs == {{i1, i2, i3}}
MCAnswers == {{i1, i2}, {i3}}
Symmetry == Permutations(Requests)
=============================================================================
