---------------------------- MODULE MCBookMerge ------------------------------
(***************************************************************************)
(* BookMerge for TLC: the devices are interchangeable.                     *)
(***************************************************************************)
EXTENDS BookMerge, TLC

Symmetry == Permutations(Device)

=============================================================================
