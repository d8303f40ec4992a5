------------------------------ MODULE SyncEntity -----------------------------
(***************************************************************************)
(* What the merge rules of the entities other than books share: the        *)
(* timestamps of their ops.                                                *)
(*                                                                         *)
(* Timestamps are numbers: HlcLog shows what the real ones guarantee.  Two *)
(* devices never take the same one, because it ends in the device prefix.  *)
(***************************************************************************)
EXTENDS Naturals

CONSTANT
  MaxHlc    \* bound on timestamps, hence on the ops emitted

ASSUME SyncEntityAssumption == MaxHlc \in Nat

Hlc == 1 .. MaxHlc

\* The ops of S that no other op of S is newer than.
Newest(S) == {o \in S : \A q \in S : q.hlc <= o.hlc}

=============================================================================
