---------------------------- MODULE HlcLogProofs -----------------------------
(***************************************************************************)
(* Theorems about HLC and HlcLog for every radix, padding, counter width,  *)
(* set of devices and wall clock.                                          *)
(***************************************************************************)
EXTENDS HlcLog, TLAPS

-----------------------------------------------------------------------------
(* Timestamps. *)

(***************************************************************************)
(* update_at yields a timestamp: the counter fits its width in every       *)
(* branch, because the increments wrap or saturate.                        *)
(***************************************************************************)
LEMMA UpdateType ==
  ASSUME NEW c, NEW r, NEW wall \in Nat,
         c.phys \in Nat, c.ctr \in Counter, r.phys \in Nat, r.ctr \in Counter
  PROVE  /\ UpdateAt(c, r, wall).phys \in Nat
         /\ UpdateAt(c, r, wall).ctr \in Counter
BY HlcAssumption DEF UpdateAt, Bump, Larger, Counter

(***************************************************************************)
(* now_at of a fresh clock yields a timestamp: what a device with an empty *)
(* log, and a conflict resolution, stamp their ops with.                   *)
(***************************************************************************)
LEMMA NowType ==
  ASSUME NEW wall \in Nat
  PROVE  NowAt(Fresh, wall).phys \in Nat /\ NowAt(Fresh, wall).ctr \in Counter
BY HlcAssumption DEF NowAt, Fresh, Bump, Counter

(***************************************************************************)
(* update_at is later than the clock and, below the largest counter, than  *)
(* the remote timestamp, in the order of (physical time, counter).         *)
(***************************************************************************)
LEMMA UpdateIsLater ==
  ASSUME NEW c, NEW r, NEW wall \in Nat,
         c.phys \in Nat, c.ctr \in Counter, r.phys \in Nat, r.ctr \in Counter
  PROVE  LET u == UpdateAt(c, r, wall)
         IN  NumLess(c, u) /\ (r.ctr # CounterMax => NumLess(r, u))
BY HlcAssumption DEF UpdateAt, Bump, Larger, Counter, NumLess

(***************************************************************************)
(* The order of the printed counters is transitive, across widths too.     *)
(***************************************************************************)
LEMMA CounterLessTransitive ==
  ASSUME NEW a \in Nat, NEW b \in Nat, NEW c \in Nat,
         CounterLess(a, b), CounterLess(b, c)
  PROVE  CounterLess(a, c)
<1>1. Base \in Nat /\ Base > 1 /\ Pad \in Nat
  BY HlcAssumption
<1>2. \A m, n \in Nat : m < n => m * Base < n * Base
  BY <1>1
<1>3. \A m, n \in Nat : m * Base < n * Base => m < n
  BY <1>1
<1>4. a * Base \in Nat /\ b * Base \in Nat /\ c * Base \in Nat
  BY <1>1
<1> QED
  BY <1>1, <1>2, <1>3, <1>4 DEF CounterLess, Wide

(***************************************************************************)
(* The order of the canonical strings is transitive.                       *)
(***************************************************************************)
LEMMA CanonLessTransitive ==
  ASSUME Device \subseteq Nat,
         NEW a \in Hlc, NEW b \in Hlc, NEW c \in Hlc,
         CanonLess(a, b), CanonLess(b, c)
  PROVE  CanonLess(a, c)
<1>1. a.phys \in Nat /\ b.phys \in Nat /\ c.phys \in Nat
  BY DEF Hlc
<1>2. a.ctr \in Nat /\ b.ctr \in Nat /\ c.ctr \in Nat
  BY HlcAssumption DEF Hlc, Counter
<1>3. a.dev \in Nat /\ b.dev \in Nat /\ c.dev \in Nat
  BY DEF Hlc
<1>4. CounterLess(a.ctr, b.ctr) /\ CounterLess(b.ctr, c.ctr) => CounterLess(a.ctr, c.ctr)
  BY <1>2, CounterLessTransitive
<1> QED
  BY <1>1, <1>2, <1>3, <1>4 DEF CanonLess

(***************************************************************************)
(* A fresh clock that has seen the largest timestamp of a log prints a     *)
(* larger one, except at the counter where the width grows and at the one  *)
(* where the counter saturates.                                            *)
(***************************************************************************)
LEMMA SeededIsLarger ==
  ASSUME NEW m \in Hlc, NEW wall \in Wall, NEW d \in Device,
         NEW u, u = UpdateAt(Fresh, m, wall), u.ctr \notin {Pad, CounterMax}
  PROVE  CanonLess(m, Stamp(u, d))
<1>1. m.phys \in Nat /\ m.ctr \in Counter /\ wall \in Nat /\ wall > 0
  BY HlcLogAssumption DEF Hlc, Wall
<1>2. CASE wall > m.phys
  <2>1. u = [phys |-> wall, ctr |-> 0]
    BY <1>1, <1>2 DEF UpdateAt, Fresh
  <2> QED
    BY <1>2, <2>1 DEF CanonLess, Stamp
<1>3. CASE ~(wall > m.phys)
  <2>1. m.phys > 0
    BY <1>1, <1>3
  <2>2. u = [phys |-> m.phys,
             ctr  |-> IF m.ctr = CounterMax THEN CounterMax ELSE m.ctr + 1]
    BY <1>1, <1>3, <2>1 DEF UpdateAt, Fresh
  <2>3. u.phys = m.phys /\ u.ctr = m.ctr + 1 /\ m.ctr + 1 # Pad
    BY <2>2
  <2>4. CounterLess(m.ctr, u.ctr)
    BY <1>1, <2>3, HlcAssumption DEF CounterLess, Wide, Counter
  <2> QED
    BY <2>3, <2>4 DEF CanonLess, Stamp
<1> QED
  BY <1>2, <1>3

-----------------------------------------------------------------------------
(* The op logs. *)

(***************************************************************************)
(* The entries of op are op records.                                       *)
(***************************************************************************)
LEMMA Elements ==
  ASSUME TypeOK
  PROVE  /\ Len(op) \in Nat /\ DOMAIN op = 1 .. Len(op)
         /\ \A i \in DOMAIN op : op[i] \in OpRecord /\ op[i].hlc \in Hlc
<1>1. op \in Seq(OpRecord)
  BY DEF TypeOK
<1>2. Len(op) \in Nat /\ DOMAIN op = 1 .. Len(op)
  BY <1>1
<1>3. \A i \in 1 .. Len(op) : op[i] \in OpRecord
  BY <1>1
<1> QED
  BY <1>2, <1>3 DEF OpRecord

(***************************************************************************)
(* insert_op of a well-formed timestamp keeps the types.                   *)
(***************************************************************************)
LEMMA InsertType ==
  ASSUME TypeOK, NEW d \in Device, NEW h \in Hlc,
         NEW via \in {"local", "resolution"}, Insert(d, h, via)
  PROVE  /\ TypeOK'
         /\ Len(op') = Len(op) + 1
         /\ \A i \in DOMAIN op : op'[i] = op[i]
         /\ op'[Len(op) + 1] = [hlc |-> h, seen |-> log[d], via |-> via]
<1> USE HlcLogAssumption
<1> DEFINE r == [hlc |-> h, seen |-> log[d], via |-> via]
<1>1. r \in OpRecord
  BY DEF OpRecord, TypeOK
<1>2. op \in Seq(OpRecord) /\ op' = Append(op, r) /\ Len(op) \in Nat /\ Len(op) < MaxOps
  BY DEF TypeOK, Insert
<1>3. op' \in Seq(OpRecord) /\ Len(op') = Len(op) + 1
  BY <1>1, <1>2
<1>4. \A i \in DOMAIN op : op'[i] = op[i]
  BY <1>1, <1>2
<1>5. op'[Len(op) + 1] = r
  BY <1>1, <1>2
<1>6. DOMAIN op = 1 .. Len(op) /\ DOMAIN op' = 1 .. Len(op) + 1
  BY <1>2, <1>3
<1>7. log' = [log EXCEPT ![d] = @ \cup {Len(op) + 1}]
  BY DEF Insert
<1>8. log' \in [Device -> SUBSET (1 .. MaxOps)]
  BY <1>2, <1>7 DEF TypeOK
<1>9. \A e \in Device : log'[e] \subseteq DOMAIN op'
  BY <1>6, <1>7 DEF TypeOK
<1>10. \A i \in DOMAIN op' : op'[i].seen \subseteq DOMAIN op'
  <2>1. \A i \in DOMAIN op : op'[i].seen \subseteq DOMAIN op
    BY <1>4 DEF TypeOK
  <2>2. op'[Len(op) + 1].seen \subseteq DOMAIN op
    BY <1>5 DEF TypeOK
  <2> QED
    BY <2>1, <2>2, <1>2, <1>6
<1>11. Len(op') <= MaxOps
  BY <1>2, <1>3
<1> QED
  BY <1>3, <1>4, <1>5, <1>8, <1>9, <1>10, <1>11 DEF TypeOK

(***************************************************************************)
(* Every stamp of a local write or a resolution is well formed.            *)
(***************************************************************************)
LEMMA StampType ==
  ASSUME TypeOK, NEW d \in Device, NEW wall \in Wall
  PROVE  /\ Stamp(NowAt(Fresh, wall), d) \in Hlc
         /\ \A i \in DOMAIN op : Stamp(UpdateAt(Fresh, op[i].hlc, wall), d) \in Hlc
<1>1. wall \in Nat /\ Fresh.phys \in Nat /\ Fresh.ctr \in Counter
  BY HlcLogAssumption, HlcAssumption DEF Wall, Fresh, Counter
<1>2. Stamp(NowAt(Fresh, wall), d) \in Hlc
  BY <1>1, NowType DEF Stamp, Hlc
<1>3. ASSUME NEW i \in DOMAIN op
      PROVE  Stamp(UpdateAt(Fresh, op[i].hlc, wall), d) \in Hlc
  <2>1. op[i].hlc \in Hlc
    BY <1>3, Elements
  <2>2. op[i].hlc.phys \in Nat /\ op[i].hlc.ctr \in Counter
    BY <2>1 DEF Hlc
  <2> QED
    BY <1>1, <2>2, UpdateType DEF Stamp, Hlc
<1> QED
  BY <1>2, <1>3

(***************************************************************************)
(* Ops below the two limits sort after what their authors had seen, and    *)
(* the types that this is stated with are kept.                            *)
(***************************************************************************)
LEMMA LogStep ==
  TypeOK /\ CausalOrderBelowLimits /\ [Next]_vars
    => TypeOK' /\ CausalOrderBelowLimits'
<1> SUFFICES ASSUME TypeOK, CausalOrderBelowLimits, [Next]_vars
             PROVE  TypeOK' /\ CausalOrderBelowLimits'
  OBVIOUS
\* An op enters with a stamp that keeps the order.
<1>a. ASSUME NEW d \in Device, NEW h \in Hlc, NEW via \in {"local", "resolution"},
             Insert(d, h, via),
             via = "local" /\ h.ctr \notin {Pad, CounterMax}
               => \A j \in log[d] : CanonLess(op[j].hlc, h)
      PROVE  TypeOK' /\ CausalOrderBelowLimits'
  <2> DEFINE n == Len(op) + 1
  <2>1. /\ TypeOK' /\ Len(op') = n
        /\ \A i \in DOMAIN op : op'[i] = op[i]
        /\ op'[n] = [hlc |-> h, seen |-> log[d], via |-> via]
    BY <1>a, InsertType
  <2>2. DOMAIN op = 1 .. Len(op) /\ DOMAIN op' = 1 .. n /\ Len(op) \in Nat
    BY <2>1 DEF TypeOK
  <2>3. ASSUME NEW i \in DOMAIN op', op'[i].via = "local",
               op'[i].hlc.ctr \notin {Pad, CounterMax}, NEW j \in op'[i].seen
        PROVE  CanonLess(op'[j].hlc, op'[i].hlc)
    <3>1. CASE i = n
      BY <1>a, <2>1, <2>3, <3>1 DEF TypeOK
    <3>2. CASE i # n
      <4>1. i \in DOMAIN op /\ op'[i] = op[i]
        BY <2>1, <2>2, <3>2
      <4>2. j \in DOMAIN op /\ op'[j] = op[j]
        BY <2>1, <2>3, <4>1 DEF TypeOK
      <4> QED
        BY <2>3, <4>1, <4>2 DEF CausalOrderBelowLimits
    <3> QED
      BY <3>1, <3>2
  <2> QED
    BY <2>1, <2>3 DEF CausalOrderBelowLimits
<1>1. ASSUME NEW d \in Device, NEW wall \in Wall, EmitLocal(d, wall)
      PROVE  TypeOK' /\ CausalOrderBelowLimits'
  <2>1. CASE log[d] = {} /\ Insert(d, Stamp(NowAt(Fresh, wall), d), "local")
    BY <2>1, StampType, <1>a
  <2>2. ASSUME NEW i \in log[d], IsMax(d, i),
               Insert(d, Stamp(UpdateAt(Fresh, op[i].hlc, wall), d), "local")
        PROVE  TypeOK' /\ CausalOrderBelowLimits'
    <3> DEFINE u == UpdateAt(Fresh, op[i].hlc, wall)
    <3>1. i \in DOMAIN op /\ Stamp(u, d) \in Hlc
      BY StampType DEF TypeOK
    <3>2. \A j \in DOMAIN op : op[j].hlc \in Hlc
      BY Elements
    <3>3. ASSUME Stamp(u, d).ctr \notin {Pad, CounterMax}, NEW j \in log[d]
          PROVE  CanonLess(op[j].hlc, Stamp(u, d))
      <4>1. j \in DOMAIN op
        BY DEF TypeOK
      <4>2. u.ctr \notin {Pad, CounterMax}
        BY <3>3 DEF Stamp
      <4>3. CanonLess(op[i].hlc, Stamp(u, d))
        BY <3>1, <3>2, <4>2, SeededIsLarger
      <4>4. op[j].hlc = op[i].hlc \/ CanonLess(op[j].hlc, op[i].hlc)
        BY <2>2 DEF IsMax
      <4> QED
        BY <3>1, <3>2, <4>1, <4>3, <4>4, CanonLessTransitive, HlcLogAssumption
    <3> QED
      BY <2>2, <3>1, <3>3, <1>a
  <2> QED
    BY <1>1, <2>1, <2>2 DEF EmitLocal
<1>2. ASSUME NEW d \in Device, NEW wall \in Wall, EmitResolution(d, wall)
      PROVE  TypeOK' /\ CausalOrderBelowLimits'
  BY <1>2, StampType, <1>a DEF EmitResolution
<1>3. ASSUME NEW d \in Device, NEW i \in DOMAIN op, Receive(d, i)
      PROVE  TypeOK' /\ CausalOrderBelowLimits'
  <2>1. op' = op /\ log' = [log EXCEPT ![d] = @ \cup {i}]
    BY <1>3 DEF Receive
  <2>2. i \in 1 .. MaxOps
    BY Elements, HlcLogAssumption DEF TypeOK
  <2>3. TypeOK'
    BY <2>1, <2>2 DEF TypeOK
  <2> QED
    BY <2>1, <2>3 DEF CausalOrderBelowLimits
<1>4. CASE UNCHANGED vars
  BY <1>4 DEF vars, TypeOK, CausalOrderBelowLimits
<1> QED
  BY <1>1, <1>2, <1>3, <1>4 DEF Next

(***************************************************************************)
(* The log keeps its types: in particular every counter handed out fits    *)
(* u16 whatever the clocks do.                                             *)
(***************************************************************************)
THEOREM TypeCorrect == Spec => []TypeOK
<1>1. Init => TypeOK /\ CausalOrderBelowLimits
  BY HlcLogAssumption DEF Init, TypeOK, CausalOrderBelowLimits
<1> QED
  BY <1>1, LogStep, PTL DEF Spec

(***************************************************************************)
(* A local write sorts after every op its author had in its log, unless    *)
(* its counter is one of the two limits.                                   *)
(***************************************************************************)
THEOREM CausalOrdering == Spec => []CausalOrderBelowLimits
<1>1. Init => TypeOK /\ CausalOrderBelowLimits
  BY HlcLogAssumption DEF Init, TypeOK, CausalOrderBelowLimits
<1> QED
  BY <1>1, LogStep, PTL DEF Spec

(***************************************************************************)
(* update_at never goes back, on any two timestamps of a log.              *)
(***************************************************************************)
THEOREM UpdateDominance == Spec => []UpdateDominates
<1>1. TypeOK => UpdateDominates
  <2> SUFFICES ASSUME TypeOK, NEW i \in DOMAIN op, NEW j \in DOMAIN op, NEW wall \in Wall
               PROVE  LET u == UpdateAt(op[i].hlc, op[j].hlc, wall)
                      IN  /\ NumLess(op[i].hlc, u)
                          /\ op[j].hlc.ctr # CounterMax => NumLess(op[j].hlc, u)
    BY DEF UpdateDominates
  <2>1. /\ op[i].hlc.phys \in Nat /\ op[i].hlc.ctr \in Counter
        /\ op[j].hlc.phys \in Nat /\ op[j].hlc.ctr \in Counter
    BY Elements DEF Hlc
  <2>2. wall \in Nat
    BY HlcLogAssumption DEF Wall
  <2> QED
    BY <2>1, <2>2, UpdateIsLater
<1> QED
  BY <1>1, TypeCorrect, PTL

(***************************************************************************)
(* The two together: the order of the log is kept, whatever the wall clocks*)
(* show and whichever paths stamp the ops.                                 *)
(***************************************************************************)
THEOREM ClockOrder == Spec => []ClocksKeepOrder
<1>1. CausalOrderBelowLimits /\ UpdateDominates => ClocksKeepOrder
  BY DEF ClocksKeepOrder
<1> QED
  BY <1>1, CausalOrdering, UpdateDominance, PTL

=============================================================================
