----------------------------- MODULE OpDelivery ------------------------------
(***************************************************************************)
(* What the relay promises about ops, without requests, pages, cursors or  *)
(* crashes: an op is emitted by one device, stored, acknowledged to its    *)
(* author only once it is stored, and delivered to other devices only from *)
(* what was stored.  A device never forgets an op, and an acknowledgement  *)
(* is never taken back.                                                    *)
(***************************************************************************)
CONSTANTS Device, Op, Author(_)

VARIABLES
  known,    \* known[d]: the ops d has in its log
  stored,   \* the ops that have ever been stored
  acked     \* acked[d]: the ops of d it knows to be stored

vars == <<known, stored, acked>>

Init ==
  /\ known = [d \in Device |-> {}]
  /\ stored = {}
  /\ acked = [d \in Device |-> {}]

Emit(d, o) ==
  /\ Author(o) = d
  /\ \A e \in Device : o \notin known[e]
  /\ known' = [known EXCEPT ![d] = @ \cup {o}]
  /\ UNCHANGED <<stored, acked>>

\* A device stores its own ops.
Store(d, S) ==
  /\ S \subseteq {o \in known[d] : Author(o) = d}
  /\ stored' = stored \cup S
  /\ UNCHANGED <<known, acked>>

Acknowledge(d, S) ==
  /\ S \subseteq {o \in known[d] \cap stored : Author(o) = d}
  /\ acked' = [acked EXCEPT ![d] = @ \cup S]
  /\ UNCHANGED <<known, stored>>

Deliver(d, o) ==
  /\ o \in stored /\ Author(o) # d
  /\ known' = [known EXCEPT ![d] = @ \cup {o}]
  /\ UNCHANGED <<stored, acked>>

Next ==
  \E d \in Device :
    \/ \E o \in Op : Emit(d, o) \/ Deliver(d, o)
    \/ \E S \in SUBSET known[d] : Store(d, S) \/ Acknowledge(d, S)

Spec == Init /\ [][Next]_vars

=============================================================================
