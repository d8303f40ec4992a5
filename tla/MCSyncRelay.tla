---------------------------- MODULE MCSyncRelay ------------------------------
(***************************************************************************)
(* SyncRelay for TLC.  Writers and books are interchangeable, so safety    *)
(* runs may use Symmetry; the liveness runs do not.                        *)
(***************************************************************************)
EXTENDS SyncRelay, TLC

\* A bound on the failures, resets and compactions of a behaviour together.
FewTroubles == failures + resets + snapshots <= 3

Symmetry == Permutations(Writer) \cup Permutations(Book)

=============================================================================
