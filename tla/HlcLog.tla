------------------------------- MODULE HlcLog -------------------------------
(***************************************************************************)
(* How the op logs of several devices hand out timestamps.                 *)
(*                                                                         *)
(* Every local write asks SyncRepository::next_local_hlc for a timestamp:  *)
(* a fresh HybridClock updated with MAX(hlc) of the local sync_ops table.  *)
(* A conflict resolution does not: apply_resolution takes the time of a    *)
(* fresh clock that has seen nothing.  Pulled ops enter sync_ops through   *)
(* insert_remote_op.  Wall clocks are arbitrary: they differ between       *)
(* devices and may be set back between two calls.                          *)
(***************************************************************************)
EXTENDS HLC, Sequences

CONSTANTS
  Device,    \* the device prefixes; numbers, because they break ties
  MaxWall,   \* bound on the wall clock
  MaxOps     \* bound on the ops emitted in a behaviour

ASSUME HlcLogAssumption ==
  /\ Device \subseteq Nat
  /\ MaxWall \in Nat
  /\ MaxOps \in Nat

VARIABLES
  op,    \* every op emitted so far: its timestamp, what its author had seen,
         \* and the code path that stamped it
  log    \* log[d]: the ops (indices into op) in d's sync_ops table

vars == <<op, log>>

Wall == 1 .. MaxWall

Hlc == [phys : Nat, ctr : Counter, dev : Device]

OpRecord == [hlc : Hlc, seen : SUBSET (1 .. MaxOps),
             via : {"local", "resolution"}]

Init ==
  /\ op = << >>
  /\ log = [d \in Device |-> {}]

\* insert_op of an op stamped h.
Insert(d, h, via) ==
  /\ Len(op) < MaxOps
  /\ op' = Append(op, [hlc |-> h, seen |-> log[d], via |-> via])
  /\ log' = [log EXCEPT ![d] = @ \cup {Len(op) + 1}]

\* i holds MAX(hlc) of d's sync_ops.
IsMax(d, i) ==
  \A j \in log[d] : op[j].hlc = op[i].hlc \/ CanonLess(op[j].hlc, op[i].hlc)

\* A faulty EmitLocal, to validate CausalOrderBelowLimits: seeded by the op
\* inserted last instead of MAX(hlc).
EmitSeededByNewest(d, wall) ==
  \/ /\ log[d] = {}
     /\ Insert(d, Stamp(NowAt(Fresh, wall), d), "local")
  \/ \E i \in log[d] :
       /\ \A j \in log[d] : j <= i
       /\ Insert(d, Stamp(UpdateAt(Fresh, op[i].hlc, wall), d), "local")

\* emit_local_op: next_local_hlc, then insert_op.
EmitLocal(d, wall) ==
  \/ /\ log[d] = {}
     /\ Insert(d, Stamp(NowAt(Fresh, wall), d), "local")
  \/ \E i \in log[d] :
       /\ IsMax(d, i)
       /\ Insert(d, Stamp(UpdateAt(Fresh, op[i].hlc, wall), d), "local")

\* The op apply_resolution emits.  It resolves a conflict with a pulled op.
EmitResolution(d, wall) ==
  /\ \E i \in log[d] : op[i].hlc.dev # d
  /\ Insert(d, Stamp(NowAt(Fresh, wall), d), "resolution")

\* insert_remote_op of an op some other device emitted.
Receive(d, i) ==
  /\ i \notin log[d]
  /\ log' = [log EXCEPT ![d] = @ \cup {i}]
  /\ UNCHANGED op

Next ==
  \E d \in Device :
    \/ \E wall \in Wall : EmitLocal(d, wall)
    \/ \E wall \in Wall : EmitResolution(d, wall)
    \/ \E i \in DOMAIN op : Receive(d, i)

Spec == Init /\ [][Next]_vars

-----------------------------------------------------------------------------

TypeOK ==
  /\ op \in Seq(OpRecord) /\ Len(op) <= MaxOps
  /\ log \in [Device -> SUBSET (1 .. MaxOps)]
  /\ \A d \in Device : log[d] \subseteq DOMAIN op
  /\ \A i \in DOMAIN op : op[i].seen \subseteq DOMAIN op

(***************************************************************************)
(* The promise of next_local_hlc ("each emitted op sorts after every       *)
(* existing one") and of HlcTimestamp ("lexicographic string comparison    *)
(* produces correct causal ordering"): a local write sorts after every op  *)
(* its author had in its log, so that a peer applying by last-writer-wins  *)
(* keeps it.                                                               *)
(***************************************************************************)
CausalOrder ==
  \A i \in DOMAIN op : op[i].via = "local" =>
    \A j \in op[i].seen : CanonLess(op[j].hlc, op[i].hlc)

(***************************************************************************)
(* What does hold, whatever the wall clocks do: the order is lost at two   *)
(* counters and nowhere else, at Pad (the first that prints wider, whose   *)
(* predecessor sorts after it) and at CounterMax (where the counter        *)
(* saturates).  A seed that is not the maximum of the whole log, such as   *)
(* the op inserted last, loses it elsewhere.                               *)
(***************************************************************************)
CausalOrderBelowLimits ==
  \A i \in DOMAIN op : op[i].via = "local" /\ op[i].hlc.ctr \notin {Pad, CounterMax} =>
    \A j \in op[i].seen : CanonLess(op[j].hlc, op[i].hlc)

(***************************************************************************)
(* HybridClock::update_at over every pair of a reached clock and a reached *)
(* remote timestamp, all four branches: the result is later than both, in  *)
(* the clock's own order, except that a remote counter of CounterMax is    *)
(* not exceeded when the remote is ahead.                                  *)
(***************************************************************************)
UpdateDominates ==
  \A i, j \in DOMAIN op : \A wall \in Wall :
    LET u == UpdateAt(op[i].hlc, op[j].hlc, wall)
    IN  /\ NumLess(op[i].hlc, u)
        /\ op[j].hlc.ctr # CounterMax => NumLess(op[j].hlc, u)

(***************************************************************************)
(* The clocks keep the order of the log: an op sorts after everything its  *)
(* author had seen, except at the two counters, and update_at never goes   *)
(* back.                                                                   *)
(***************************************************************************)
ClocksKeepOrder == CausalOrderBelowLimits /\ UpdateDominates

=============================================================================
