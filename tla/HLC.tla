-------------------------------- MODULE HLC ---------------------------------
(***************************************************************************)
(* Hybrid logical clock timestamps: HybridClock and HlcTimestamp of        *)
(* toku-core/src/sync.rs, as pure operators.                               *)
(*                                                                         *)
(* A timestamp is a physical time in milliseconds, a u16 counter and the   *)
(* first twelve hex digits of the device id.  The code never compares the  *)
(* three numbers: it compares the canonical strings, both in Rust (Ord)    *)
(* and in SQL (MAX(hlc), ORDER BY hlc, hlc > ?).  CanonLess is that string *)
(* order.  The counter is printed with a minimum width of four digits and  *)
(* no maximum, so a counter of Pad or more prints one digit more, and the  *)
(* comparison is then decided by the leading digits, or by '-' sorting     *)
(* below every digit.                                                      *)
(***************************************************************************)
EXTENDS Naturals

CONSTANTS
  Base,        \* the radix the counter is printed in: 10 in the code
  Pad,         \* the first counter wider than the padding: 10^4 in the code
  CounterMax   \* the largest counter: u16::MAX in the code

\* Two widths suffice: 65535 has one digit more than the padding.
ASSUME HlcAssumption ==
  /\ Base \in Nat /\ Base > 1
  /\ Pad \in Nat /\ Pad > 0
  /\ CounterMax \in Nat /\ Pad <= CounterMax /\ CounterMax < Base * Pad

Counter == 0 .. CounterMax

\* HlcTimestamp, without the device prefix (Stamp adds it).
Clock == [phys : Nat, ctr : Counter]

\* The state of HybridClock::new: the epoch, counter zero.
Fresh == [phys |-> 0, ctr |-> 0]

Larger(m, n) == IF m < n THEN n ELSE m

\* A counter increment in the release build: u16 addition wraps to zero and
\* the `counter == 0` test then advances the physical time.
Bump(p, n) ==
  IF n > CounterMax THEN [phys |-> p + 1, ctr |-> 0] ELSE [phys |-> p, ctr |-> n]

\* HybridClock::now_at.
NowAt(c, wall) ==
  IF wall > c.phys THEN [phys |-> wall, ctr |-> 0] ELSE Bump(c.phys, c.ctr + 1)

\* A faulty UpdateAt, to validate UpdateDominates: at equal physical times the
\* remote counter is ignored.
UpdateIgnoresRemote(c, r, wall) ==
  IF wall > c.phys /\ wall > r.phys
    THEN [phys |-> wall, ctr |-> 0]
  ELSE IF r.phys > c.phys
    THEN [phys |-> r.phys,
          ctr  |-> IF r.ctr = CounterMax THEN CounterMax ELSE r.ctr + 1]
  ELSE Bump(c.phys, c.ctr + 1)

\* HybridClock::update_at.  The second branch saturates: at CounterMax the
\* counter stays where it is, and the overflow test after it never holds.
UpdateAt(c, r, wall) ==
  IF wall > c.phys /\ wall > r.phys
    THEN [phys |-> wall, ctr |-> 0]
  ELSE IF r.phys > c.phys
    THEN [phys |-> r.phys,
          ctr  |-> IF r.ctr = CounterMax THEN CounterMax ELSE r.ctr + 1]
  ELSE IF c.phys > r.phys
    THEN Bump(c.phys, c.ctr + 1)
  ELSE Bump(c.phys, Larger(c.ctr, r.ctr) + 1)

Wide(n) == n >= Pad

\* `{:04}` followed by '-', compared as strings.  A narrow m is compared with
\* the leading digits n \div Base of a wide n, and sorts first on a tie;
\* m <= n \div Base is written m * Base <= n.
CounterLess(m, n) ==
  \/ Wide(m) = Wide(n) /\ m < n
  \/ ~Wide(m) /\ Wide(n) /\ m * Base <= n
  \/ Wide(m) /\ ~Wide(n) /\ m < n * Base

\* impl Ord for HlcTimestamp: the order of the canonical strings.
CanonLess(a, b) ==
  \/ a.phys < b.phys
  \/ a.phys = b.phys /\ CounterLess(a.ctr, b.ctr)
  \/ a.phys = b.phys /\ a.ctr = b.ctr /\ a.dev < b.dev

\* The order the clock itself works in: physical time, then the counter as a
\* number.
NumLess(a, b) ==
  \/ a.phys < b.phys
  \/ a.phys = b.phys /\ a.ctr < b.ctr

Stamp(c, d) == [phys |-> c.phys, ctr |-> c.ctr, dev |-> d]

=============================================================================
