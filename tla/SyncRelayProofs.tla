-------------------------- MODULE SyncRelayProofs ----------------------------
(***************************************************************************)
(* Theorems about SyncRelay for any number of devices, books, ops, chunk   *)
(* and page sizes, failures, resets and compactions.                       *)
(***************************************************************************)
EXTENDS SyncRelay, TLAPS

-----------------------------------------------------------------------------
(* Type correctness. *)

(***************************************************************************)
(* What Firsts, Lowest and Highest select from a set of ops belongs to it. *)
(***************************************************************************)
LEMMA Selections ==
  ASSUME NEW S, NEW n
  PROVE  /\ \A P \in Firsts(S, n) : P \subseteq S
         /\ Lowest(S) \subseteq S
         /\ Highest(S) \subseteq S
BY DEF Firsts, Lowest, Highest

(***************************************************************************)
(* Every step of every command keeps the types.                            *)
(***************************************************************************)
LEMMA TypeStep == TypeOK /\ [Next]_vars => TypeOK'
<1> SUFFICES ASSUME TypeOK, [Next]_vars PROVE TypeOK'
  OBVIOUS
<1> USE SyncRelayAssumption
<1>1. ASSUME NEW d \in Device, NEW o \in Op, LocalWrite(d, o) PROVE TypeOK'
  BY <1>1 DEF TypeOK, LocalWrite, Op, pushVars, pullVars, serverVars, counters
<1>2. ASSUME NEW d \in Device, PushBegin(d) PROVE TypeOK'
  BY <1>2 DEF TypeOK, PushBegin, clientVars, pullVars, serverVars, counters
<1>3. ASSUME NEW d \in Device, PushChunk(d) PROVE TypeOK'
  <2>1. PICK C \in Firsts(left[d], ChunkSize) :
          /\ left' = [left EXCEPT ![d] = @ \ C]
          /\ server' = server \cup C
          /\ late' = [e \in Device |->
                        late[e] \cup {o \in Foreign(C \ server, e) :
                                        o \notin log[e] /\ o.hlc <= Horizon(e)}]
    BY <1>3 DEF PushChunk
  <2>2. C \subseteq Op
    BY <2>1, Selections DEF TypeOK
  <2> QED
    BY <1>3, <2>1, <2>2 DEF TypeOK, PushChunk, Foreign, clientVars, pullVars, counters
<1>4. ASSUME NEW d \in Device, PushMark(d) PROVE TypeOK'
  BY <1>4 DEF TypeOK, PushMark, pullVars, serverVars, counters
<1>5. ASSUME NEW d \in Device, PushFails(d) PROVE TypeOK'
  BY <1>5 DEF TypeOK, PushFails, clientVars, pullVars, serverVars
<1>6. ASSUME NEW d \in Device, PullRequest(d) PROVE TypeOK'
  <2>1. PICK P \in Firsts({o \in Foreign(server, d) : o.hlc > cursor[d]}, PageSize) :
          /\ page' = [page EXCEPT ![d] = P]
          /\ \E last \in Highest(P) : goal' = [goal EXCEPT ![d] = last.hlc]
    BY <1>6 DEF PullRequest
  <2>2. P \subseteq Op
    BY <2>1, Selections DEF TypeOK, Foreign
  <2>3. PICK last \in Op : goal' = [goal EXCEPT ![d] = last.hlc]
    BY <2>1, <2>2, Selections
  <2>4. last.hlc \in 1 .. MaxHlc
    BY DEF Op
  <2> QED
    BY <1>6, <2>1, <2>2, <2>3, <2>4
    DEF TypeOK, PullRequest, clientVars, pushVars, serverVars, counters
<1>7. ASSUME NEW d \in Device, PullStage(d) PROVE TypeOK'
  <2>1. PICK o \in page[d] :
          /\ log' = [log EXCEPT ![d] = @ \cup {o}]
          /\ late' = [late EXCEPT ![d] = @ \ {o}]
    BY <1>7, Selections DEF PullStage
  <2> QED
    BY <1>7, <2>1 DEF TypeOK, PullStage, pushVars, counters
<1>8. ASSUME NEW d \in Device, PullApply(d) PROVE TypeOK'
  <2>1. PICK o \in Lowest(page[d]) :
          \/ /\ effects' = [effects EXCEPT ![d] = @ \cup {o}]
             /\ page' = [page EXCEPT ![d] = @ \ {o}]
             /\ UNCHANGED goal
          \/ /\ page' = [page EXCEPT ![d] = @ \ {o}]
             /\ UNCHANGED <<effects, goal>>
          \/ /\ page' = [page EXCEPT ![d] = {}]
             /\ goal' = [goal EXCEPT ![d] = 0]
             /\ UNCHANGED effects
    BY <1>8 DEF PullApply
  <2>2. o \in page[d] /\ o \in Op
    BY <2>1 DEF TypeOK, Lowest
  <2>3. /\ UNCHANGED <<log, unpushed, cursor, pushVars, restore, export, serverVars,
                        counters>>
        /\ staged' = [staged EXCEPT ![d] = FALSE]
    BY <1>8, Zenon DEF PullApply
  <2>4. effects' \in [Device -> SUBSET Op]
    BY <2>1, <2>2 DEF TypeOK
  <2>5. page' \in [Device -> SUBSET Op]
    BY <2>1 DEF TypeOK
  <2>7. goal' \in [Device -> 0 .. MaxHlc]
    BY <2>1 DEF TypeOK
  <2>6. ASSUME NEW e \in Device
        PROVE  /\ page'[e] # {} => goal'[e] # 0
               /\ staged'[e] => page'[e] # {}
    <3>1. CASE e = d
      BY <2>1, <2>3, <3>1 DEF TypeOK
    <3>2. CASE e # d
      BY <2>1, <2>3, <3>2 DEF TypeOK
    <3> QED
      BY <3>1, <3>2
  <2> QED
    BY <2>3, <2>4, <2>5, <2>6, <2>7 DEF TypeOK, pushVars, serverVars, counters
<1>9. ASSUME NEW d \in Device, PullSaveCursor(d) PROVE TypeOK'
  BY <1>9 DEF TypeOK, PullSaveCursor, pushVars, serverVars, counters
<1>10. ASSUME NEW d \in Device, PullFails(d) PROVE TypeOK'
  BY <1>10 DEF TypeOK, PullFails, clientVars, pushVars, serverVars
<1>11. ASSUME NEW d \in Device, BootstrapReset(d) PROVE TypeOK'
  BY <1>11 DEF TypeOK, BootstrapReset, pushVars, pullVars
<1>12. ASSUME NEW d \in Device, BootstrapDownload(d) PROVE TypeOK'
  BY <1>12 DEF TypeOK, BootstrapDownload, clientVars, pushVars, serverVars, counters
<1>13. ASSUME NEW d \in Device, BootstrapApply(d) PROVE TypeOK'
  BY <1>13 DEF TypeOK, BootstrapApply, pushVars, serverVars, counters
<1>14. ASSUME NEW d \in Device, NEW h \in 1 .. MaxHlc, CompactExport(d, h) PROVE TypeOK'
  BY <1>14 DEF TypeOK, CompactExport, clientVars, pushVars, pullVars, serverVars
<1>15. ASSUME NEW d \in Device, CompactUpload(d) PROVE TypeOK'
  BY <1>15 DEF TypeOK, CompactUpload, NoExport, clientVars, pushVars, pullVars, counters
<1>16. CASE UNCHANGED vars
  BY <1>16 DEF TypeOK, vars
<1> QED
  BY <1>1, <1>2, <1>3, <1>4, <1>5, <1>6, <1>7, <1>8, <1>9, <1>10, <1>11, <1>12,
     <1>13, <1>14, <1>15, <1>16 DEF Next, Progress

(***************************************************************************)
(* The variables of SyncRelay keep their types, a push reads only staged   *)
(* ops of its own device, and a page in progress has a cursor to save.     *)
(***************************************************************************)
THEOREM TypeCorrect == Spec => []TypeOK
<1>1. Init => TypeOK
  BY SyncRelayAssumption DEF Init, TypeOK, NoExport
<1> QED
  BY <1>1, TypeStep, PTL DEF Spec

-----------------------------------------------------------------------------
(* Delivery up to the cursor, and acknowledgement. *)

\* A timestamp names one op, and the relay holds only ops of its devices.
UniqueHlc ==
  \A o, q \in Emitted : o.hlc = q.hlc => o = q

StoredIsEmitted ==
  \A o \in server \cup pruned : o \in log[o.dev]

\* A page holds ops of other devices that were stored when it was read.
PageIsStored ==
  \A d \in Device : page[d] \subseteq Foreign(server \cup pruned, d)

\* Once the first op of the page is staged, it is in the log.
StagedIsLogged ==
  \A d \in Device : staged[d] => Lowest(page[d]) \subseteq log[d]

\* What DeliveredUpToCursor says of the cursor, for the end of the page that is
\* being applied: the rest of the page is still to come.
PageCoversGap ==
  \A d \in Device : goal[d] # 0 =>
    /\ cursor[d] < goal[d]
    /\ \A o \in Foreign(server, d) :
         o.hlc <= goal[d] => o \in log[d] \cup late[d] \cup page[d]

\* The chunks a push has uploaded are stored.
UploadedIsStored ==
  \A d \in Device : batch[d] \ left[d] \subseteq server \cup pruned

IInv ==
  /\ TypeOK
  /\ UniqueHlc
  /\ StoredIsEmitted
  /\ PageIsStored
  /\ StagedIsLogged
  /\ PageCoversGap
  /\ UploadedIsStored
  /\ DeliveredUpToCursor
  /\ AckedIsStored

(***************************************************************************)
(* A write is past the author's log and no one else holds its timestamp, so*)
(* timestamps stay unique and what is stored stays in its author's log.    *)
(***************************************************************************)
LEMMA LogStep ==
  TypeOK /\ UniqueHlc /\ StoredIsEmitted /\ PageIsStored /\ [Next]_vars
    => UniqueHlc' /\ StoredIsEmitted'
<1> SUFFICES ASSUME TypeOK, UniqueHlc, StoredIsEmitted, PageIsStored, [Next]_vars
             PROVE  UniqueHlc' /\ StoredIsEmitted'
  OBVIOUS
<1>1. ASSUME NEW d \in Device, NEW o \in Op, LocalWrite(d, o)
      PROVE  UniqueHlc' /\ StoredIsEmitted'
  <2>1. Emitted' \subseteq Emitted \cup {o}
    BY <1>1 DEF LocalWrite, Emitted, TypeOK
  <2>2. \A q \in Emitted : q.hlc # o.hlc
    BY <1>1 DEF LocalWrite
  <2>3. UniqueHlc'
    BY <2>1, <2>2 DEF UniqueHlc
  <2>4. StoredIsEmitted'
    BY <1>1 DEF LocalWrite, StoredIsEmitted, TypeOK, serverVars, Op
  <2> QED
    BY <2>3, <2>4
<1>2. ASSUME NEW d \in Device, PushChunk(d)
      PROVE  UniqueHlc' /\ StoredIsEmitted'
  <2>1. PICK C \in SUBSET left[d] : server' = server \cup C
    BY <1>2 DEF PushChunk, Firsts
  <2>2. log' = log /\ pruned' = pruned
    BY <1>2 DEF PushChunk, clientVars
  <2>3. \A o \in C : o.dev = d /\ o \in log[d]
    BY <2>1 DEF TypeOK
  <2> QED
    BY <2>1, <2>2, <2>3 DEF UniqueHlc, Emitted, StoredIsEmitted
<1>3. ASSUME NEW d \in Device, PullStage(d)
      PROVE  UniqueHlc' /\ StoredIsEmitted'
  <2>1. PICK o \in page[d] : log' = [log EXCEPT ![d] = @ \cup {o}]
    BY <1>3 DEF PullStage, Lowest
  <2>2. o \in log[o.dev] /\ o.dev \in Device
    BY <2>1 DEF PageIsStored, Foreign, StoredIsEmitted, TypeOK, Op
  <2>3. Emitted' = Emitted
    BY <2>1, <2>2 DEF Emitted, TypeOK
  <2>4. server' = server /\ pruned' = pruned
    BY <1>3 DEF PullStage
  <2> QED
    BY <2>1, <2>2, <2>3, <2>4 DEF UniqueHlc, StoredIsEmitted, TypeOK, Op
<1>4. ASSUME NEW d \in Device, CompactUpload(d)
      PROVE  UniqueHlc' /\ StoredIsEmitted'
  <2>1. server' \cup pruned' \subseteq server \cup pruned /\ log' = log
    BY <1>4 DEF CompactUpload, clientVars
  <2> QED
    BY <2>1 DEF UniqueHlc, Emitted, StoredIsEmitted
<1>5. CASE UNCHANGED <<log, server, pruned>>
  BY <1>5 DEF UniqueHlc, Emitted, StoredIsEmitted
<1> QED
  BY <1>1, <1>2, <1>3, <1>4, <1>5
  DEF Next, Progress, PushBegin, PushMark, PushFails, PullRequest, PullApply,
      PullSaveCursor, PullFails, BootstrapReset, BootstrapDownload, BootstrapApply,
      CompactExport, clientVars, serverVars, vars

(***************************************************************************)
(* A page is read from the table and only shrinks, and the op staged first *)
(* is its only op with the lowest timestamp.                               *)
(***************************************************************************)
LEMMA PageStep ==
  /\ TypeOK /\ UniqueHlc /\ StoredIsEmitted /\ PageIsStored /\ StagedIsLogged
  /\ [Next]_vars
  => PageIsStored' /\ StagedIsLogged'
<1> SUFFICES ASSUME TypeOK, UniqueHlc, StoredIsEmitted, PageIsStored,
                    StagedIsLogged, [Next]_vars
             PROVE  PageIsStored' /\ StagedIsLogged'
  OBVIOUS
<1>1. ASSUME NEW d \in Device, NEW o \in Op, LocalWrite(d, o)
      PROVE  PageIsStored' /\ StagedIsLogged'
  BY <1>1 DEF LocalWrite, PageIsStored, StagedIsLogged, TypeOK, pullVars, serverVars,
              Foreign, Lowest
<1>2. ASSUME NEW d \in Device, PushChunk(d)
      PROVE  PageIsStored' /\ StagedIsLogged'
  <2>1. server \subseteq server' /\ UNCHANGED <<log, page, staged, pruned>>
    BY <1>2 DEF PushChunk, clientVars, pullVars
  <2> QED
    BY <2>1 DEF PageIsStored, StagedIsLogged, Foreign, Lowest
<1>3. ASSUME NEW d \in Device, PullRequest(d)
      PROVE  PageIsStored' /\ StagedIsLogged'
  <2>1. PICK P \in SUBSET Foreign(server, d) : page' = [page EXCEPT ![d] = P]
    BY <1>3 DEF PullRequest, Firsts
  <2>2. UNCHANGED <<log, staged, server, pruned>> /\ goal[d] = 0
    BY <1>3 DEF PullRequest, clientVars, serverVars
  <2>3. ~staged[d]
    BY <2>2 DEF TypeOK
  <2>4. PageIsStored'
    BY <2>1, <2>2 DEF PageIsStored, Foreign, TypeOK
  <2>5. \A e \in Device : e # d => page'[e] = page[e]
    BY <2>1 DEF TypeOK
  <2> QED
    BY <2>2, <2>3, <2>4, <2>5 DEF StagedIsLogged, Lowest
<1>4. ASSUME NEW d \in Device, PullStage(d)
      PROVE  PageIsStored' /\ StagedIsLogged'
  <2>1. PICK o \in Lowest(page[d]) : log' = [log EXCEPT ![d] = @ \cup {o}]
    BY <1>4 DEF PullStage
  <2>2. UNCHANGED <<page, server, pruned>> /\ staged' = [staged EXCEPT ![d] = TRUE]
    BY <1>4 DEF PullStage
  <2>3. page[d] \subseteq Emitted
    BY DEF PageIsStored, Foreign, StoredIsEmitted, Emitted, TypeOK, Op
  <2>4. Lowest(page[d]) = {o}
    <3> SUFFICES ASSUME NEW q \in Lowest(page[d]) PROVE q = o
      BY <2>1
    <3>1. o \in page[d] /\ q \in page[d] /\ o.hlc <= q.hlc /\ q.hlc <= o.hlc
      BY <2>1 DEF Lowest
    <3>2. o.hlc \in Nat /\ q.hlc \in Nat
      BY <3>1 DEF TypeOK, Op
    <3>3. o.hlc = q.hlc
      BY <3>1, <3>2
    <3> QED
      BY <3>1, <3>3, <2>3 DEF UniqueHlc
  <2>5. \A e \in Device : log[e] \subseteq log'[e]
    BY <2>1 DEF TypeOK
  <2>6. o \in log'[d]
    BY <2>1 DEF TypeOK
  <2>7. \A e \in Device : e # d => staged'[e] = staged[e]
    BY <2>2 DEF TypeOK
  <2> QED
    BY <2>2, <2>4, <2>5, <2>6, <2>7 DEF PageIsStored, StagedIsLogged, Lowest
<1>5. ASSUME NEW d \in Device, PullApply(d)
      PROVE  PageIsStored' /\ StagedIsLogged'
  <2>1. UNCHANGED <<log, server, pruned>> /\ staged' = [staged EXCEPT ![d] = FALSE]
    BY <1>5 DEF PullApply, serverVars
  <2>2. PICK P \in SUBSET page[d] : page' = [page EXCEPT ![d] = P]
    BY <1>5 DEF PullApply
  <2>3. \A e \in Device : page'[e] \subseteq page[e] /\ (e # d => page'[e] = page[e])
    BY <2>2 DEF TypeOK
  <2>4. ~staged'[d] /\ \A e \in Device : e # d => staged'[e] = staged[e]
    BY <2>1 DEF TypeOK
  <2> QED
    BY <2>1, <2>3, <2>4 DEF PageIsStored, StagedIsLogged, Lowest, Foreign
<1>6. ASSUME NEW d \in Device, PullFails(d)
      PROVE  PageIsStored' /\ StagedIsLogged'
  BY <1>6 DEF PullFails, PageIsStored, StagedIsLogged, Lowest, Foreign, TypeOK,
              clientVars, serverVars
<1>7. ASSUME NEW d \in Device, CompactUpload(d)
      PROVE  PageIsStored' /\ StagedIsLogged'
  <2>1. server' \cup pruned' = server \cup pruned /\ UNCHANGED <<log, page, staged>>
    BY <1>7 DEF CompactUpload, clientVars, pullVars
  <2> QED
    BY <2>1 DEF PageIsStored, StagedIsLogged, Lowest, Foreign
<1>8. CASE UNCHANGED <<log, page, staged, server, pruned>>
  BY <1>8 DEF PageIsStored, StagedIsLogged, Lowest, Foreign
<1> QED
  BY <1>1, <1>2, <1>3, <1>4, <1>5, <1>6, <1>7, <1>8
  DEF Next, Progress, PushBegin, PushMark, PushFails,
      PullSaveCursor, BootstrapReset, BootstrapDownload, BootstrapApply,
      CompactExport, clientVars, pullVars, serverVars, vars

\* A chunk is the first of what is left, and who has pulled past it misses it.
LEMMA PushChunkWrites ==
  ASSUME NEW d \in Device, PushChunk(d)
  PROVE  \E C \in SUBSET left[d] :
          /\ server' = server \cup C
          /\ late' = [e \in Device |->
                        late[e] \cup {o \in Foreign(C \ server, e) :
                                        o \notin log[e] /\ o.hlc <= Horizon(e)}]
<1>1. PICK C \in Firsts(left[d], ChunkSize) :
          /\ server' = server \cup C
          /\ late' = [e \in Device |->
                        late[e] \cup {o \in Foreign(C \ server, e) :
                                        o \notin log[e] /\ o.hlc <= Horizon(e)}]
  BY DEF PushChunk
<1>2. C \in SUBSET left[d]
  BY DEF Firsts
<1> QED
  BY <1>1, <1>2

(***************************************************************************)
(* No step loses track of an op behind a cursor: a page read covers all    *)
(* ops between the cursor and its end, a chunk pushed behind that end is   *)
(* late, and the page shrinks only by ops that are in the log.             *)
(***************************************************************************)
LEMMA CursorStep ==
  IInv /\ [Next]_vars => PageCoversGap' /\ DeliveredUpToCursor'
<1> SUFFICES ASSUME IInv, [Next]_vars
             PROVE  PageCoversGap' /\ DeliveredUpToCursor'
  OBVIOUS
<1> USE DEF IInv
\* Steps that keep cursor, goal and page, and take nothing from log or late,
\* while the server gains nothing.
<1>a. ASSUME UNCHANGED <<cursor, goal, page, late>>,
             \A e \in Device : log[e] \subseteq log'[e],
             server' \subseteq server
      PROVE  PageCoversGap' /\ DeliveredUpToCursor'
  BY <1>a DEF PageCoversGap, DeliveredUpToCursor, Foreign
<1>1. ASSUME NEW d \in Device, NEW o \in Op, LocalWrite(d, o)
      PROVE  PageCoversGap' /\ DeliveredUpToCursor'
  <2>1. \A e \in Device : log[e] \subseteq log'[e]
    BY <1>1 DEF LocalWrite, TypeOK
  <2> QED
    BY <1>1, <2>1, <1>a DEF LocalWrite, pullVars, serverVars
<1>2. ASSUME NEW d \in Device, PushChunk(d)
      PROVE  PageCoversGap' /\ DeliveredUpToCursor'
  <2>1. PICK C \in SUBSET left[d] :
          /\ server' = server \cup C
          /\ late' = [e \in Device |->
                        late[e] \cup {o \in Foreign(C \ server, e) :
                                        o \notin log[e] /\ o.hlc <= Horizon(e)}]
    BY <1>2, PushChunkWrites
  <2>2. UNCHANGED <<log, cursor, page, goal>>
    BY <1>2 DEF PushChunk, clientVars, pullVars
  <2>3. \A e \in Device : late[e] \subseteq late'[e]
    BY <2>1
  <2>4. ASSUME NEW e \in Device, NEW o \in Foreign(server', e) \ server,
               o.hlc <= cursor[e] \/ o.hlc <= goal[e]
        PROVE  o \in log[e] \cup late'[e]
    <3>1. o \in Foreign(C \ server, e)
      BY <2>1, <2>4 DEF Foreign
    <3>2. o \in Op /\ o.hlc \in Nat /\ cursor[e] \in Nat /\ goal[e] \in Nat
      BY <2>1, <3>1 DEF Foreign, TypeOK, Op
    <3>3. o.hlc <= Horizon(e)
      BY <2>4, <3>2 DEF Horizon
    <3> QED
      BY <2>1, <3>1, <3>3
  <2> QED
    BY <2>2, <2>3, <2>4 DEF PageCoversGap, DeliveredUpToCursor, Foreign
<1>3. ASSUME NEW d \in Device, PullRequest(d)
      PROVE  PageCoversGap' /\ DeliveredUpToCursor'
  <2> DEFINE ahead == {o \in Foreign(server, d) : o.hlc > cursor[d]}
  <2>1. PICK P \in Firsts(ahead, PageSize) :
          /\ page' = [page EXCEPT ![d] = P]
          /\ \E last \in Highest(P) : goal' = [goal EXCEPT ![d] = last.hlc]
    BY <1>3 DEF PullRequest
  <2>2. PICK last \in Highest(P) : goal' = [goal EXCEPT ![d] = last.hlc]
    BY <2>1
  <2>3. UNCHANGED <<log, cursor, server, late>>
    BY <1>3 DEF PullRequest, clientVars, serverVars
  <2>4. last \in P /\ P \subseteq ahead /\ \A q \in ahead \ P : last.hlc < q.hlc
    BY <2>1, <2>2 DEF Firsts, Highest
  <2>5. cursor[d] < last.hlc
    BY <2>4 DEF TypeOK, Op, Foreign
  <2>6. ASSUME NEW o \in Foreign(server, d), o.hlc <= last.hlc
        PROVE  o \in log[d] \cup late[d] \cup P
    <3>1. o \in Op /\ o.hlc \in Nat /\ cursor[d] \in Nat /\ last.hlc \in Nat
      BY <2>4 DEF Foreign, TypeOK, Op
    <3>2. CASE o.hlc <= cursor[d]
      BY <3>2 DEF DeliveredUpToCursor
    <3>3. CASE o \in ahead
      BY <3>1, <3>3, <2>4, <2>6
    <3> QED
      BY <3>1, <3>2, <3>3
  <2>7. page'[d] = P /\ goal'[d] = last.hlc
    BY <2>1, <2>2 DEF TypeOK
  <2>8. \A e \in Device : e # d => page'[e] = page[e] /\ goal'[e] = goal[e]
    BY <2>1, <2>2 DEF TypeOK
  <2>9. PageCoversGap'
    BY <2>3, <2>5, <2>6, <2>7, <2>8 DEF PageCoversGap
  <2> QED
    BY <2>3, <2>9 DEF DeliveredUpToCursor
<1>4. ASSUME NEW d \in Device, PullStage(d)
      PROVE  PageCoversGap' /\ DeliveredUpToCursor'
  <2>1. PICK o \in page[d] : /\ log' = [log EXCEPT ![d] = @ \cup {o}]
                             /\ late' = [late EXCEPT ![d] = @ \ {o}]
    BY <1>4 DEF PullStage, Lowest
  <2>2. UNCHANGED <<cursor, page, goal, server>>
    BY <1>4 DEF PullStage
  <2>3. \A e \in Device : log[e] \cup late[e] \subseteq log'[e] \cup late'[e]
    BY <2>1 DEF TypeOK
  <2> QED
    BY <2>2, <2>3 DEF PageCoversGap, DeliveredUpToCursor
<1>5. ASSUME NEW d \in Device, PullApply(d)
      PROVE  PageCoversGap' /\ DeliveredUpToCursor'
  <2>1. UNCHANGED <<log, cursor, server, late>> /\ staged[d]
    BY <1>5 DEF PullApply, serverVars
  <2>2. PICK o \in Lowest(page[d]) :
          \/ page' = [page EXCEPT ![d] = @ \ {o}] /\ goal' = goal
          \/ page' = [page EXCEPT ![d] = {}] /\ goal' = [goal EXCEPT ![d] = 0]
    BY <1>5 DEF PullApply
  <2>3. o \in log[d]
    BY <2>1, <2>2 DEF StagedIsLogged
  <2>4. CASE page' = [page EXCEPT ![d] = @ \ {o}] /\ goal' = goal
    <3>1. \A e \in Device : page[e] \subseteq page'[e] \cup log[e]
      BY <2>3, <2>4 DEF TypeOK
    <3> QED
      BY <2>1, <2>4, <3>1 DEF PageCoversGap, DeliveredUpToCursor
  <2>5. CASE page' = [page EXCEPT ![d] = {}] /\ goal' = [goal EXCEPT ![d] = 0]
    <3>1. goal'[d] = 0
      BY <2>5 DEF TypeOK
    <3>2. \A e \in Device : e # d => page'[e] = page[e] /\ goal'[e] = goal[e]
      BY <2>5 DEF TypeOK
    <3> QED
      BY <2>1, <3>1, <3>2 DEF PageCoversGap, DeliveredUpToCursor
  <2> QED
    BY <2>2, <2>4, <2>5
<1>6. ASSUME NEW d \in Device, PullSaveCursor(d)
      PROVE  PageCoversGap' /\ DeliveredUpToCursor'
  <2>1. UNCHANGED <<log, page, server, late>> /\ goal[d] # 0 /\ page[d] = {}
    BY <1>6 DEF PullSaveCursor, serverVars
  <2>2. cursor'[d] = goal[d] /\ goal'[d] = 0
    BY <1>6 DEF PullSaveCursor, TypeOK
  <2>3. \A e \in Device : e # d => cursor'[e] = cursor[e] /\ goal'[e] = goal[e]
    BY <1>6 DEF PullSaveCursor, TypeOK
  <2> QED
    BY <2>1, <2>2, <2>3 DEF PageCoversGap, DeliveredUpToCursor
<1>7. ASSUME NEW d \in Device, PullFails(d)
      PROVE  PageCoversGap' /\ DeliveredUpToCursor'
  <2>1. UNCHANGED <<log, cursor, server, late>>
    BY <1>7 DEF PullFails, clientVars, serverVars
  <2>2. goal'[d] = 0 /\ \A e \in Device : e # d => page'[e] = page[e] /\ goal'[e] = goal[e]
    BY <1>7 DEF PullFails, TypeOK
  <2> QED
    BY <2>1, <2>2 DEF PageCoversGap, DeliveredUpToCursor
<1>8. ASSUME NEW d \in Device, BootstrapReset(d)
      PROVE  PageCoversGap' /\ DeliveredUpToCursor'
  <2>1. UNCHANGED <<log, page, goal, server>> /\ goal[d] = 0
    BY <1>8 DEF BootstrapReset, pullVars
  <2>2. cursor'[d] = 0
    BY <1>8 DEF BootstrapReset, TypeOK
  <2>3. \A e \in Device : e # d => cursor'[e] = cursor[e] /\ late'[e] = late[e]
    BY <1>8 DEF BootstrapReset, TypeOK
  <2>4. \A o \in server : ~(o.hlc <= 0)
    BY DEF TypeOK, Op
  <2> QED
    BY <2>1, <2>2, <2>3, <2>4 DEF PageCoversGap, DeliveredUpToCursor, Foreign
<1>9. ASSUME NEW d \in Device, CompactUpload(d)
      PROVE  PageCoversGap' /\ DeliveredUpToCursor'
  <2>1. server' \subseteq server /\ UNCHANGED <<log, late, cursor, page, goal>>
    BY <1>9 DEF CompactUpload, clientVars, pullVars
  <2> QED
    BY <2>1, <1>a
<1>10. CASE UNCHANGED <<log, late, cursor, page, goal, server>>
  BY <1>10, <1>a
<1> QED
  BY <1>1, <1>2, <1>3, <1>4, <1>5, <1>6, <1>7, <1>8, <1>9, <1>10
  DEF Next, Progress, PushBegin, PushMark, PushFails, BootstrapDownload, BootstrapApply,
      CompactExport, clientVars, pullVars, serverVars, vars

(***************************************************************************)
(* A push marks only ops it has read and uploaded.                         *)
(***************************************************************************)
LEMMA AckStep ==
  IInv /\ [Next]_vars => UploadedIsStored' /\ AckedIsStored'
<1> SUFFICES ASSUME IInv, [Next]_vars
             PROVE  UploadedIsStored' /\ AckedIsStored'
  OBVIOUS
<1> USE DEF IInv
<1>1. ASSUME NEW d \in Device, NEW o \in Op, LocalWrite(d, o)
      PROVE  UploadedIsStored' /\ AckedIsStored'
  <2>1. UNCHANGED <<batch, left, server, pruned>>
    BY <1>1 DEF LocalWrite, pushVars, serverVars
  <2>2. \A e \in Device : unpushed[e] \subseteq unpushed'[e]
    BY <1>1 DEF LocalWrite, TypeOK
  <2>3. \A e \in Device : \A q \in log'[e] : q \in log[e] \cup unpushed'[e]
    BY <1>1 DEF LocalWrite, TypeOK
  <2> QED
    BY <2>1, <2>2, <2>3 DEF UploadedIsStored, AckedIsStored
<1>2. ASSUME NEW d \in Device, PushBegin(d)
      PROVE  UploadedIsStored' /\ AckedIsStored'
  <2>1. UNCHANGED <<log, unpushed, server, pruned>>
    BY <1>2 DEF PushBegin, clientVars, serverVars
  <2>2. batch'[d] = left'[d]
    BY <1>2 DEF PushBegin, TypeOK
  <2>3. \A e \in Device : e # d => batch'[e] = batch[e] /\ left'[e] = left[e]
    BY <1>2 DEF PushBegin, TypeOK
  <2> QED
    BY <2>1, <2>2, <2>3 DEF UploadedIsStored, AckedIsStored
<1>3. ASSUME NEW d \in Device, PushChunk(d)
      PROVE  UploadedIsStored' /\ AckedIsStored'
  <2>1. PICK C \in SUBSET left[d] :
          server' = server \cup C /\ left' = [left EXCEPT ![d] = @ \ C]
    BY <1>3 DEF PushChunk, Firsts
  <2>2. UNCHANGED <<log, unpushed, batch, pruned>>
    BY <1>3 DEF PushChunk, clientVars
  <2>3. \A e \in Device : left[e] \subseteq left'[e] \cup C
    BY <2>1 DEF TypeOK
  <2> QED
    BY <2>1, <2>2, <2>3 DEF UploadedIsStored, AckedIsStored
<1>4. ASSUME NEW d \in Device, PushMark(d)
      PROVE  UploadedIsStored' /\ AckedIsStored'
  <2>1. UNCHANGED <<log, left, server, pruned>> /\ left[d] = {}
    BY <1>4 DEF PushMark, serverVars
  <2>2. unpushed'[d] = unpushed[d] \ batch[d] /\ batch'[d] = {}
    BY <1>4 DEF PushMark, TypeOK
  <2>3. \A e \in Device : e # d => unpushed'[e] = unpushed[e] /\ batch'[e] = batch[e]
    BY <1>4 DEF PushMark, TypeOK
  <2>4. batch[d] \subseteq server \cup pruned
    BY <2>1 DEF UploadedIsStored
  <2> QED
    BY <2>1, <2>2, <2>3, <2>4 DEF UploadedIsStored, AckedIsStored
<1>5. ASSUME NEW d \in Device, PushFails(d)
      PROVE  UploadedIsStored' /\ AckedIsStored'
  <2>1. UNCHANGED <<log, unpushed, server, pruned>>
    BY <1>5 DEF PushFails, clientVars, serverVars
  <2>2. batch'[d] = {} /\ \A e \in Device : e # d => batch'[e] = batch[e] /\ left'[e] = left[e]
    BY <1>5 DEF PushFails, TypeOK
  <2> QED
    BY <2>1, <2>2 DEF UploadedIsStored, AckedIsStored
<1>6. ASSUME NEW d \in Device, PullStage(d)
      PROVE  UploadedIsStored' /\ AckedIsStored'
  <2>1. PICK o \in page[d] : log' = [log EXCEPT ![d] = @ \cup {o}]
    BY <1>6 DEF PullStage, Lowest
  <2>2. UNCHANGED <<unpushed, batch, left, server, pruned>> /\ o.dev # d
    BY <1>6 DEF PullStage, pushVars, PageIsStored, Foreign
  <2>3. \A e \in Device : \A q \in log'[e] : q.dev = e => q \in log[e]
    BY <2>1, <2>2 DEF TypeOK
  <2> QED
    BY <2>2, <2>3 DEF UploadedIsStored, AckedIsStored
<1>7. ASSUME NEW d \in Device, CompactUpload(d)
      PROVE  UploadedIsStored' /\ AckedIsStored'
  <2>1. server' \cup pruned' = server \cup pruned /\ UNCHANGED <<log, unpushed, batch, left>>
    BY <1>7 DEF CompactUpload, clientVars, pushVars
  <2> QED
    BY <2>1 DEF UploadedIsStored, AckedIsStored
<1>8. CASE UNCHANGED <<log, unpushed, batch, left, server, pruned>>
  BY <1>8 DEF UploadedIsStored, AckedIsStored
<1> QED
  BY <1>1, <1>2, <1>3, <1>4, <1>5, <1>6, <1>7, <1>8
  DEF Next, Progress, PullRequest, PullApply, PullSaveCursor, PullFails, BootstrapReset,
      BootstrapDownload, BootstrapApply, CompactExport, clientVars, pushVars, serverVars,
      vars

(***************************************************************************)
(* The inductive invariant.                                                *)
(***************************************************************************)
THEOREM Invariant == Spec => []IInv
<1>1. Init => IInv
  BY SyncRelayAssumption
  DEF Init, IInv, TypeOK, NoExport, UniqueHlc, Emitted, StoredIsEmitted, PageIsStored,
      StagedIsLogged, PageCoversGap, UploadedIsStored, DeliveredUpToCursor, AckedIsStored,
      Foreign
<1>2. IInv /\ [Next]_vars => IInv'
  <2>1. IInv /\ [Next]_vars => TypeOK'
    BY TypeStep DEF IInv
  <2>2. IInv /\ [Next]_vars => UniqueHlc' /\ StoredIsEmitted'
    BY LogStep DEF IInv
  <2>3. IInv /\ [Next]_vars => PageIsStored' /\ StagedIsLogged'
    BY PageStep DEF IInv
  <2> QED
    BY <2>1, <2>2, <2>3, CursorStep, AckStep DEF IInv
<1> QED
  BY <1>1, <1>2, PTL DEF Spec

(***************************************************************************)
(* An op the server holds at or before a device's pull cursor has reached  *)
(* the device or arrived behind its cursor, whatever the page size, the    *)
(* interleaving and the failures.                                          *)
(***************************************************************************)
THEOREM DeliveryUpToCursor == Spec => []DeliveredUpToCursor
<1>1. IInv => DeliveredUpToCursor
  BY DEF IInv
<1> QED
  BY <1>1, Invariant, PTL

(***************************************************************************)
(* An op its author no longer holds as unpushed has been stored.           *)
(***************************************************************************)
THEOREM AcknowledgedIsStored == Spec => []AckedIsStored
<1>1. IInv => AckedIsStored
  BY DEF IInv
<1> QED
  BY <1>1, Invariant, PTL

-----------------------------------------------------------------------------
(* The relay implements OpDelivery. *)

Acked == [d \in Device |-> {o \in log[d] : o.dev = d} \ unpushed[d]]
Stored == server \cup pruned

(***************************************************************************)
(* A step that changes neither the logs, nor what has been stored, nor     *)
(* what is marked is no step of OpDelivery.                                *)
(***************************************************************************)
LEMMA Stutter ==
  ASSUME UNCHANGED <<log, unpushed>>, Stored' = Stored
  PROVE  UNCHANGED Delivery!vars
BY DEF Delivery!vars, Stored

(***************************************************************************)
(* A write emits, a chunk stores, the mark acknowledges, staging delivers. *)
(***************************************************************************)
LEMMA DeliveryStep == IInv /\ IInv' /\ [Next]_vars => [Delivery!Next]_(Delivery!vars)
<1> SUFFICES ASSUME IInv, IInv', [Next]_vars
             PROVE  [Delivery!Next]_(Delivery!vars)
  OBVIOUS
<1> USE DEF IInv
<1>1. ASSUME NEW d \in Device, NEW o \in Op, LocalWrite(d, o)
      PROVE  Delivery!Next
  <2>1. /\ log' = [log EXCEPT ![d] = @ \cup {o}]
        /\ unpushed' = [unpushed EXCEPT ![d] = @ \cup {o}]
        /\ UNCHANGED <<server, pruned>>
        /\ o.dev = d
    BY <1>1 DEF LocalWrite, serverVars
  <2>2. o.hlc \in Nat /\ \A e \in Device : o \notin log[e]
    BY <1>1 DEF LocalWrite, Emitted, Op
  <2>3. Acked' = Acked
    <3>1. ASSUME NEW e \in Device
          PROVE  {q \in log'[e] : q.dev = e} \ unpushed'[e]
                   = {q \in log[e] : q.dev = e} \ unpushed[e]
      <4>1. CASE e = d
        <5>1. log'[d] = log[d] \cup {o} /\ unpushed'[d] = unpushed[d] \cup {o}
          BY <2>1 DEF TypeOK
        <5> QED
          BY <4>1, <5>1, <2>2
      <4>2. CASE e # d
        BY <2>1, <4>2 DEF TypeOK
      <4> QED
        BY <4>1, <4>2
    <3> QED
      BY <3>1 DEF Acked
  <2>4. Delivery!Emit(d, o)
    BY <2>1, <2>2, <2>3 DEF Delivery!Emit, Acked, Author
  <2> QED
    BY <2>4 DEF Delivery!Next
<1>2. ASSUME NEW d \in Device, PushChunk(d)
      PROVE  Delivery!Next
  <2>1. PICK C \in SUBSET left[d] : server' = server \cup C
    BY <1>2 DEF PushChunk, Firsts
  <2>2. UNCHANGED <<log, unpushed, pruned>>
    BY <1>2 DEF PushChunk, clientVars
  <2>3. C \subseteq {o \in log[d] : Author(o) = d}
    BY <2>1 DEF TypeOK, Author
  <2>4. Delivery!Store(d, C)
    BY <2>1, <2>2, <2>3 DEF Delivery!Store
  <2> QED
    BY <2>3, <2>4 DEF Delivery!Next
<1>3. ASSUME NEW d \in Device, PushMark(d)
      PROVE  Delivery!Next
  <2>1. UNCHANGED <<log, server, pruned>> /\ left[d] = {}
        /\ unpushed' = [unpushed EXCEPT ![d] = @ \ batch[d]]
    BY <1>3 DEF PushMark, serverVars
  <2>2. batch[d] \subseteq {o \in log[d] \cap (server \cup pruned) : Author(o) = d}
    BY <2>1 DEF UploadedIsStored, TypeOK, Author
  <2>3. Acked' = [Acked EXCEPT ![d] = @ \cup batch[d]]
    <3>1. ASSUME NEW e \in Device
          PROVE  {q \in log'[e] : q.dev = e} \ unpushed'[e]
                   = IF e = d THEN Acked[d] \cup batch[d] ELSE Acked[e]
      <4>1. CASE e = d
        <5>1. unpushed'[d] = unpushed[d] \ batch[d]
          BY <2>1 DEF TypeOK
        <5> QED
          BY <2>1, <2>2, <4>1, <5>1 DEF Acked, Author
      <4>2. CASE e # d
        <5>1. unpushed'[e] = unpushed[e]
          BY <2>1, <4>2 DEF TypeOK
        <5> QED
          BY <2>1, <4>2, <5>1 DEF Acked
      <4> QED
        BY <4>1, <4>2
    <3> QED
      BY <3>1 DEF Acked
  <2>4. PICK S \in SUBSET log[d] : S = batch[d]
    BY DEF TypeOK
  <2>5. Delivery!Acknowledge(d, S)
    BY <2>1, <2>2, <2>3, <2>4 DEF Delivery!Acknowledge, Acked
  <2> QED
    BY <2>5 DEF Delivery!Next
<1>4. ASSUME NEW d \in Device, PullStage(d)
      PROVE  Delivery!Next
  <2>1. PICK o \in page[d] : log' = [log EXCEPT ![d] = @ \cup {o}]
    BY <1>4 DEF PullStage, Lowest
  <2>2. UNCHANGED <<unpushed, server, pruned>>
    BY <1>4 DEF PullStage
  <2>3. o \in server \cup pruned /\ o.dev # d /\ o \in Op
    BY <2>1 DEF PageIsStored, Foreign, TypeOK
  <2>4. Acked' = Acked
    <3>1. ASSUME NEW e \in Device
          PROVE  {q \in log'[e] : q.dev = e} = {q \in log[e] : q.dev = e}
      <4>1. CASE e = d
        <5>1. log'[d] = log[d] \cup {o}
          BY <2>1 DEF TypeOK
        <5> QED
          BY <4>1, <5>1, <2>3
      <4>2. CASE e # d
        BY <2>1, <4>2 DEF TypeOK
      <4> QED
        BY <4>1, <4>2
    <3> QED
      BY <2>2, <3>1 DEF Acked
  <2>5. Delivery!Deliver(d, o)
    BY <2>1, <2>2, <2>3, <2>4 DEF Delivery!Deliver, Acked, Author
  <2> QED
    BY <2>3, <2>5 DEF Delivery!Next
<1>5. ASSUME NEW d \in Device, CompactUpload(d)
      PROVE  UNCHANGED Delivery!vars
  <2>1. Stored' = Stored /\ UNCHANGED <<log, unpushed>>
    BY <1>5 DEF CompactUpload, clientVars, Stored
  <2> QED
    BY <2>1, Stutter
<1>6. CASE UNCHANGED <<log, unpushed, server, pruned>>
  BY <1>6, Stutter DEF Stored
<1> QED
  BY <1>1, <1>2, <1>3, <1>4, <1>5, <1>6
  DEF Next, Progress, PushBegin, PushFails, PullRequest, PullApply, PullSaveCursor,
      PullFails, BootstrapReset, BootstrapDownload, BootstrapApply, CompactExport,
      clientVars, serverVars, vars

(***************************************************************************)
(* The relay implements OpDelivery: requests, chunks, pages, cursors,      *)
(* crashes and compactions are invisible to what it promises about ops.    *)
(***************************************************************************)
THEOREM Refinement == Spec => ImplementsDelivery
<1>1. Init => Delivery!Init
  BY DEF Init, Delivery!Init
<1>2. IInv /\ IInv' /\ [Next]_vars => [Delivery!Next]_(Delivery!vars)
  BY DeliveryStep
<1> QED
  BY <1>1, <1>2, Invariant, PTL DEF Spec, ImplementsDelivery, Delivery!Spec

-----------------------------------------------------------------------------
(* Effects up to the cursor, while nothing has been compacted. *)

\* Nothing has been compacted, so there is nothing to restore from.
NothingToRestore ==
  /\ pruned = {} /\ snapshot = {}
  /\ \A d \in Device : export[d] = NoExport /\ restore[d] = {}

\* A library shows its own ops and others that are on the server.
EffectsHaveReasons ==
  \A d \in Device :
    /\ effects[d] \subseteq log[d] /\ late[d] \subseteq server
    /\ \A o \in log[d] : IF o.dev = d THEN o \in effects[d] ELSE o \in server

\* A book is created once, before anything else is said of it, and on the
\* server once another device knows of it.
CreationIsFirst ==
  /\ \A c, e \in Emitted : c.kind = "create" /\ e.kind = "create" /\ c.book = e.book => c = e
  /\ \A o \in Emitted : o.kind = "create" \/
       \E c \in Emitted : /\ c.kind = "create" /\ c.book = o.book /\ c.hlc < o.hlc
                          /\ c.dev = o.dev \/ c \in server

\* A push uploads a device's ops in the order it wrote them.
UploadedInOrder ==
  /\ \A o \in server : \A q \in log[o.dev] : q.dev = o.dev /\ q.hlc < o.hlc => q \in server
  /\ \A d \in Device : \A o \in batch[d] : \A q \in unpushed[d] \ batch[d] : o.hlc < q.hlc

\* o shows in d's library, or it is known why it does not.
Shows(o, d) ==
  \/ o \in effects[d]
  \/ \E c \in late[d] : c.book = o.book /\ (c = o \/ c.kind = "create")

ShownUpToCursor ==
  \A d \in Device : \A o \in Foreign(server, d) : o.hlc <= cursor[d] => Shows(o, d)

\* What of the page has been dealt with comes before what is left of it.
GapIsShown ==
  \A d \in Device :
    /\ \A p \in page[d] : cursor[d] < p.hlc /\ p.hlc <= goal[d]
    /\ \A o \in Foreign(server, d) :
         cursor[d] < o.hlc /\ o.hlc <= goal[d] /\ o \notin page[d] =>
           \/ o \in late[d]
           \/ Shows(o, d) /\ \A p \in page[d] : o.hlc < p.hlc

ShownInv ==
  /\ NothingToRestore /\ EffectsHaveReasons /\ CreationIsFirst
  /\ UploadedInOrder /\ ShownUpToCursor /\ GapIsShown

EffectInv == snapshots = 0 => ShownInv

-----------------------------------------------------------------------------

\* The steps there are while nothing has been compacted.
Early(d) ==
  \/ \E o \in Op : LocalWrite(d, o)
  \/ PushBegin(d) \/ PushChunk(d) \/ PushMark(d) \/ PushFails(d)
  \/ PullRequest(d) \/ PullStage(d) \/ PullApply(d) \/ PullSaveCursor(d) \/ PullFails(d)
  \/ BootstrapReset(d)

(***************************************************************************)
(* Without a compaction there is neither an upload nor a restore.          *)
(***************************************************************************)
LEMMA EarlyStep ==
  ASSUME TypeOK, EffectInv, [Next]_vars, snapshots' = 0
  PROVE  /\ ShownInv
         /\ UNCHANGED vars \/ \E d \in Device : Early(d)
         /\ NothingToRestore'
<1> USE SyncRelayAssumption
<1>1. snapshots = 0
  <2>1. ASSUME NEW d \in Device, NEW h \in 1 .. MaxHlc, CompactExport(d, h) PROVE FALSE
    BY <2>1 DEF CompactExport, TypeOK
  <2>2. ASSUME NEW d \in Device,
               \/ Early(d)
               \/ BootstrapDownload(d) \/ BootstrapApply(d) \/ CompactUpload(d)
        PROVE  snapshots' = snapshots
    BY <2>2 DEF Early, LocalWrite, PushBegin, PushChunk, PushMark, PushFails, PullRequest,
       PullStage, PullApply, PullSaveCursor, PullFails, BootstrapReset, BootstrapDownload,
       BootstrapApply, CompactUpload, counters
  <2> QED
    BY <2>1, <2>2 DEF Next, Progress, Early, vars
<1>2. ShownInv
  BY <1>1 DEF EffectInv
<1>3. UNCHANGED vars \/ \E d \in Device : Early(d)
  <2>1. ASSUME NEW d \in Device,
               \/ \E h \in 1 .. MaxHlc : CompactExport(d, h)
               \/ BootstrapDownload(d) \/ BootstrapApply(d) \/ CompactUpload(d)
        PROVE  FALSE
    BY <1>1, <1>2, <2>1 DEF CompactExport, BootstrapDownload, BootstrapApply, CompactUpload,
       ShownInv, NothingToRestore, TypeOK
  <2> QED
    BY <2>1 DEF Next, Progress, Early
<1>4. NothingToRestore'
  <2>1. ASSUME NEW d \in Device, Early(d)
        PROVE  /\ UNCHANGED <<pruned, snapshot, export>>
               /\ \A e \in Device : restore'[e] = restore[e] \/ restore'[e] = {}
    BY <2>1 DEF Early, LocalWrite, PushBegin, PushChunk, PushMark, PushFails, PullRequest,
       PullStage, PullApply, PullSaveCursor, PullFails, BootstrapReset, pullVars, serverVars,
       TypeOK
  <2> QED
    BY <1>2, <1>3, <2>1 DEF ShownInv, NothingToRestore, vars
<1> QED
  BY <1>2, <1>3, <1>4

(***************************************************************************)
(* What a library shows has been staged, and what was staged from others,  *)
(* or came late, is on the server.                                         *)
(***************************************************************************)
LEMMA ReasonStep ==
  ASSUME IInv, ShownInv, NEW d \in Device, Early(d)
  PROVE  EffectsHaveReasons'
<1> USE DEF IInv, ShownInv, TypeOK
<1>1. ASSUME NEW o \in Op, LocalWrite(d, o) PROVE EffectsHaveReasons'
  BY <1>1 DEF LocalWrite, EffectsHaveReasons, serverVars
<1>2. CASE PushChunk(d)
  <2>1. PICK C \in SUBSET left[d] :
          /\ server' = server \cup C
          /\ late' = [e \in Device |->
                        late[e] \cup {o \in Foreign(C \ server, e) :
                                        o \notin log[e] /\ o.hlc <= Horizon(e)}]
    BY <1>2, PushChunkWrites
  <2>2. UNCHANGED <<log, effects>>
    BY <1>2 DEF PushChunk, clientVars
  <2> QED
    BY <2>1, <2>2 DEF EffectsHaveReasons, Foreign
<1>3. CASE PullStage(d)
  <2>1. PICK o \in page[d] :
          /\ log' = [log EXCEPT ![d] = @ \cup {o}]
          /\ late' = [late EXCEPT ![d] = @ \ {o}]
    BY <1>3 DEF PullStage, Lowest
  <2>2. o \in server /\ o.dev # d
    BY <2>1 DEF PageIsStored, Foreign, NothingToRestore
  <2>3. UNCHANGED <<server, effects>>
    BY <1>3 DEF PullStage
  <2> QED
    BY <2>1, <2>2, <2>3 DEF EffectsHaveReasons
<1>4. CASE PullApply(d)
  <2>1. PICK o \in Lowest(page[d]) :
          effects' = [effects EXCEPT ![d] = @ \cup {o}] \/ effects' = effects
    BY <1>4 DEF PullApply
  <2>2. o \in log[d]
    BY <1>4, <2>1 DEF PullApply, StagedIsLogged
  <2>3. UNCHANGED <<server, log, late>>
    BY <1>4 DEF PullApply, serverVars
  <2> QED
    BY <2>1, <2>2, <2>3 DEF EffectsHaveReasons
<1>5. CASE BootstrapReset(d)
  BY <1>5 DEF BootstrapReset, EffectsHaveReasons
<1>6. CASE UNCHANGED <<server, log, late, effects>>
  BY <1>6 DEF EffectsHaveReasons
<1> QED
  BY <1>1, <1>2, <1>3, <1>4, <1>5, <1>6
  DEF Early, PushBegin, PushMark, PushFails, PullRequest, PullSaveCursor, PullFails,
      clientVars, serverVars

(***************************************************************************)
(* A device writes about a book only after the op that made it known, and  *)
(* that one's creation.                                                    *)
(***************************************************************************)
LEMMA CreationStep ==
  ASSUME IInv, ShownInv, NEW d \in Device, Early(d)
  PROVE  CreationIsFirst'
<1> USE DEF IInv, ShownInv, TypeOK
<1>1. ASSUME NEW o \in Op, LocalWrite(d, o) PROVE CreationIsFirst'
  <2>1. Emitted' = Emitted \cup {o} /\ server' = server /\ o.dev = d
    BY <1>1 DEF LocalWrite, Emitted, serverVars
  <2>2. \A c, e \in Emitted' :
          c.kind = "create" /\ e.kind = "create" /\ c.book = e.book => c = e
    BY <1>1, <2>1 DEF LocalWrite, CreationIsFirst
  <2>3. o.kind = "create" \/
         \E c \in Emitted : /\ c.kind = "create" /\ c.book = o.book /\ c.hlc < o.hlc
                            /\ c.dev = o.dev \/ c \in server
    <3> SUFFICES ASSUME o.kind # "create"
                 PROVE  \E c \in Emitted : /\ c.kind = "create" /\ c.book = o.book
                                           /\ c.hlc < o.hlc /\ (c.dev = o.dev \/ c \in server)
      OBVIOUS
    <3>1. PICK q \in log[d] : q.book = o.book /\ q.hlc < o.hlc
      BY <1>1 DEF LocalWrite, Known, EffectsHaveReasons
    <3>2. q \in Emitted /\ q \in Op /\ (q.dev = d \/ q \in server)
      BY DEF Emitted, EffectsHaveReasons
    <3>3. CASE q.kind = "create"
      BY <2>1, <3>1, <3>2, <3>3
    <3>4. CASE q.kind # "create"
      <4>1. PICK c \in Emitted : /\ c.kind = "create" /\ c.book = q.book /\ c.hlc < q.hlc
                                 /\ c.dev = q.dev \/ c \in server
        BY <3>2, <3>4 DEF CreationIsFirst
      <4>2. c \in Op
        BY DEF Emitted
      <4>3. c.hlc < o.hlc
        BY <3>1, <3>2, <4>1, <4>2 DEF Op
      <4>4. c.dev = d \/ c \in server
        <5>1. CASE q.dev = d
          BY <4>1, <5>1
        <5>2. CASE q \in server /\ c.dev = q.dev
          <6>1. c \in log[c.dev] \/ c \in server
            BY <4>2 DEF Emitted, EffectsHaveReasons
          <6> QED
            BY <4>1, <5>2, <6>1 DEF UploadedInOrder
        <5> QED
          BY <3>2, <4>1, <5>1, <5>2
      <4> QED
        BY <2>1, <3>1, <4>1, <4>3, <4>4
    <3> QED
      BY <3>3, <3>4
  <2> QED
    BY <2>1, <2>2, <2>3 DEF CreationIsFirst
<1>2. ASSUME Emitted' = Emitted, server \subseteq server' PROVE CreationIsFirst'
  BY <1>2 DEF CreationIsFirst
<1>3. CASE PullStage(d)
  <2>1. PICK o \in page[d] : log' = [log EXCEPT ![d] = @ \cup {o}]
    BY <1>3 DEF PullStage, Lowest
  <2>2. o \in Emitted
    BY <2>1 DEF PageIsStored, StoredIsEmitted, Foreign, Emitted, Op
  <2>3. Emitted' = Emitted
    BY <2>1, <2>2 DEF Emitted
  <2> QED
    BY <1>2, <1>3, <2>3 DEF PullStage
<1>4. CASE PushChunk(d)
  <2>1. server \subseteq server' /\ log' = log
    BY <1>4 DEF PushChunk, clientVars
  <2> QED
    BY <1>2, <2>1 DEF Emitted
<1>5. CASE UNCHANGED <<log, server>>
  BY <1>2, <1>5 DEF Emitted
<1> QED
  BY <1>1, <1>3, <1>4, <1>5
  DEF Early, PushBegin, PushMark, PushFails, PullRequest, PullApply, PullSaveCursor, PullFails,
      BootstrapReset, clientVars, serverVars

(***************************************************************************)
(* A chunk is the lowest of what is left of a batch, and a batch the       *)
(* lowest of what is unpushed.                                             *)
(***************************************************************************)
LEMMA OrderStep ==
  ASSUME IInv, ShownInv, NEW d \in Device, Early(d)
  PROVE  UploadedInOrder'
<1> USE DEF IInv, ShownInv, TypeOK
<1>1. ASSUME NEW o \in Op, LocalWrite(d, o) PROVE UploadedInOrder'
  <2>1. /\ log' = [log EXCEPT ![d] = @ \cup {o}]
        /\ unpushed' = [unpushed EXCEPT ![d] = @ \cup {o}]
        /\ UNCHANGED <<batch, server>> /\ \A q \in log[d] : q.hlc < o.hlc
    BY <1>1 DEF LocalWrite, pushVars, serverVars
  <2>2. \A s \in server : s.dev = d => s \in log[d]
    BY DEF StoredIsEmitted
  <2>3. \A s \in server : s.dev = d => ~(o.hlc < s.hlc)
    BY <2>1, <2>2 DEF Op
  <2>4. batch[d] \subseteq log[d]
    OBVIOUS
  <2>5. ASSUME NEW s \in server, NEW q \in log'[s.dev], q.dev = s.dev, q.hlc < s.hlc
        PROVE  q \in server
    <3>1. CASE q \in log[s.dev]
      BY <2>5, <3>1 DEF UploadedInOrder
    <3>2. CASE q \notin log[s.dev]
      BY <2>1, <2>3, <2>5, <3>2 DEF Op
    <3> QED
      BY <3>1, <3>2
  <2>6. ASSUME NEW e \in Device, NEW s \in batch[e], NEW q \in unpushed'[e] \ batch[e]
        PROVE  s.hlc < q.hlc
    <3>1. CASE q \in unpushed[e]
      BY <3>1 DEF UploadedInOrder
    <3>2. CASE q \notin unpushed[e]
      BY <2>1, <2>4, <3>2
    <3> QED
      BY <3>1, <3>2
  <2> QED
    BY <2>1, <2>5, <2>6 DEF UploadedInOrder
<1>2. CASE PushChunk(d)
  <2>1. PICK C \in Firsts(left[d], ChunkSize) : server' = server \cup C
    BY <1>2 DEF PushChunk
  <2>2. UNCHANGED <<log, batch, unpushed>> /\ C \subseteq left[d] /\ left[d] \subseteq batch[d]
        /\ batch[d] \subseteq unpushed[d] /\ \A o \in C : o.dev = d
    BY <1>2, <2>1 DEF PushChunk, clientVars, Firsts
  <2>3. ASSUME NEW s \in C, NEW q \in log[d], q.dev = d, q.hlc < s.hlc
        PROVE  q \in server \cup C
    <3>1. s \in Op /\ q \in Op
      BY <2>2
    <3>2. CASE q \in left[d]
      <4>1. ~(s.hlc < q.hlc)
        BY <2>3, <3>1 DEF Op
      <4> QED
        BY <2>1, <3>2, <4>1 DEF Firsts
    <3>3. CASE q \in batch[d] \ left[d]
      BY <3>3 DEF UploadedIsStored, NothingToRestore
    <3>4. CASE q \in unpushed[d] \ batch[d]
      <4>1. s.hlc < q.hlc
        BY <2>2, <3>4 DEF UploadedInOrder
      <4> QED
        BY <2>3, <3>1, <4>1 DEF Op
    <3>5. CASE q \notin unpushed[d]
      BY <2>3, <3>5 DEF AckedIsStored, NothingToRestore
    <3> QED
      BY <3>2, <3>3, <3>4, <3>5
  <2> QED
    BY <2>1, <2>2, <2>3 DEF UploadedInOrder
<1>3. CASE PullStage(d)
  <2>1. PICK o \in page[d] : log' = [log EXCEPT ![d] = @ \cup {o}]
    BY <1>3 DEF PullStage, Lowest
  <2>2. o \in server /\ UNCHANGED <<server, batch, unpushed>>
    BY <1>3, <2>1 DEF PullStage, PageIsStored, Foreign, NothingToRestore, pushVars
  <2> QED
    BY <2>1, <2>2 DEF UploadedInOrder
<1>4. CASE PushBegin(d)
  BY <1>4 DEF PushBegin, UploadedInOrder, clientVars, serverVars
<1>5. CASE PushMark(d)
  BY <1>5 DEF PushMark, UploadedInOrder, clientVars, serverVars
<1>6. CASE PushFails(d)
  BY <1>6 DEF PushFails, UploadedInOrder, clientVars, serverVars
<1>7. CASE UNCHANGED <<log, server, batch, unpushed>>
  BY <1>7 DEF UploadedInOrder
<1> QED
  BY <1>1, <1>2, <1>3, <1>4, <1>5, <1>6, <1>7
  DEF Early, PullRequest, PullApply, PullSaveCursor, PullFails, BootstrapReset, clientVars,
      pushVars, serverVars

(***************************************************************************)
(* An op is not before the creation of its book.                           *)
(***************************************************************************)
LEMMA CreationPrecedes ==
  ASSUME IInv, ShownInv, NEW c \in Emitted, NEW q \in Emitted, c.book = q.book,
         c = q \/ c.kind = "create"
  PROVE  c.hlc <= q.hlc
<1>1. c \in Op /\ q \in Op
  BY DEF IInv, TypeOK, Emitted
<1>2. CASE q.kind = "create"
  BY <1>1, <1>2 DEF ShownInv, CreationIsFirst, Op
<1>3. CASE q.kind # "create"
  <2>1. PICK b \in Emitted : b.kind = "create" /\ b.book = q.book /\ b.hlc < q.hlc
    BY <1>3 DEF ShownInv, CreationIsFirst
  <2>2. b = c \/ c = q
    BY <2>1 DEF ShownInv, CreationIsFirst
  <2> QED
    BY <1>1, <2>1, <2>2 DEF Op
<1> QED
  BY <1>2, <1>3

(***************************************************************************)
(* An update is skipped only where the creation of its book is late: the   *)
(* creation was uploaded before it, so it was on the page, behind the      *)
(* cursor, or arrived behind the end of the page.                          *)
(***************************************************************************)
LEMMA SkippedForAReason ==
  ASSUME IInv, ShownInv, NEW d \in Device, NEW o \in Lowest(page[d]),
         o.kind # "create", o.book \notin Known(d)
  PROVE  Shows(o, d)
<1> USE DEF IInv, ShownInv, TypeOK
<1>1. o \in page[d] /\ o \in Op /\ o \in Emitted /\ o \in server /\ o \in log[o.dev]
  BY DEF Lowest, PageIsStored, Foreign, StoredIsEmitted, NothingToRestore, Emitted, Op
<1>2. PICK c \in Emitted : /\ c.kind = "create" /\ c.book = o.book /\ c.hlc < o.hlc
                           /\ c.dev = o.dev \/ c \in server
  BY <1>1 DEF CreationIsFirst
<1>3. c \in Op
  BY DEF Emitted
<1>4. c \in server
  <2>1. c \in log[c.dev] \/ c \in server
    BY <1>3 DEF Emitted, EffectsHaveReasons
  <2> QED
    BY <1>1, <1>2, <2>1 DEF UploadedInOrder
<1>5. c \notin effects[d]
  BY <1>2 DEF Known
<1>6. c \in Foreign(server, d)
  <2>1. c.dev # d
    BY <1>4, <1>5 DEF StoredIsEmitted, EffectsHaveReasons
  <2> QED
    BY <1>4, <2>1 DEF Foreign
<1>7. c \notin page[d] /\ c.hlc <= goal[d]
  <2>1. o.hlc <= goal[d] /\ goal[d] \in Nat /\ o.hlc \in Nat /\ c.hlc \in Nat
    BY <1>1, <1>3 DEF GapIsShown, Op
  <2>2. ~(o.hlc <= c.hlc)
    BY <1>2, <2>1
  <2> QED
    BY <1>2, <2>1, <2>2 DEF Lowest
<1>8. CASE c.hlc <= cursor[d]
  BY <1>2, <1>5, <1>6, <1>8 DEF ShownUpToCursor, Shows
<1>9. CASE cursor[d] < c.hlc
  BY <1>2, <1>5, <1>6, <1>7, <1>9 DEF GapIsShown, Shows
<1> QED
  BY <1>3, <1>8, <1>9 DEF Op

(***************************************************************************)
(* No step of a push or a pull hides an op that is behind a cursor: a page *)
(* is applied in its order, what a chunk brings behind its end is late,    *)
(* and what a stage takes from the late ops explained nothing before it.   *)
(***************************************************************************)
LEMMA ShownStep ==
  ASSUME IInv, ShownInv, NEW d \in Device, Early(d)
  PROVE  ShownUpToCursor' /\ GapIsShown'
<1> USE DEF IInv, ShownInv, TypeOK
<1>1. ASSUME UNCHANGED <<server, cursor, goal, page>>,
             \A e \in Device : \A o : Shows(o, e) => Shows(o, e)',
             \A e \in Device : late[e] \subseteq late'[e]
      PROVE  ShownUpToCursor' /\ GapIsShown'
  BY <1>1 DEF ShownUpToCursor, GapIsShown, Foreign
<1>2. ASSUME NEW o \in Op, LocalWrite(d, o) PROVE ShownUpToCursor' /\ GapIsShown'
  <2>1. UNCHANGED <<server, cursor, goal, page, late>>
        /\ \A e \in Device : effects[e] \subseteq effects'[e]
    BY <1>2 DEF LocalWrite, pullVars, serverVars
  <2>2. \A e \in Device : \A q : Shows(q, e) => Shows(q, e)'
    BY <2>1 DEF Shows
  <2> QED
    BY <1>1, <2>1, <2>2
<1>3. CASE PushBegin(d) \/ PushMark(d) \/ PushFails(d)
  <2>1. UNCHANGED <<server, cursor, goal, page, late, effects>>
    BY <1>3 DEF PushBegin, PushMark, PushFails, clientVars, pullVars, serverVars
  <2> QED
    BY <1>1, <2>1 DEF Shows
<1>4. CASE PushChunk(d)
  <2>1. PICK C \in SUBSET left[d] :
          /\ server' = server \cup C
          /\ late' = [e \in Device |->
                        late[e] \cup {o \in Foreign(C \ server, e) :
                                        o \notin log[e] /\ o.hlc <= Horizon(e)}]
    BY <1>4, PushChunkWrites
  <2>2. UNCHANGED <<cursor, goal, page, effects, log>>
    BY <1>4 DEF PushChunk, clientVars, pullVars
  <2>3. \A e \in Device : \A o : Shows(o, e) => Shows(o, e)'
    BY <2>1, <2>2 DEF Shows
  <2>4. ASSUME NEW e \in Device, NEW o \in Foreign(server', e), o \notin server,
               o.hlc <= cursor[e] \/ o.hlc <= goal[e]
        PROVE  o \in late'[e]
    <3>1. o \in C \ server /\ o.dev # e /\ o \in Op
      BY <2>1, <2>4 DEF Foreign
    <3>2. o \notin log[e]
      BY <3>1 DEF EffectsHaveReasons
    <3>3. o.hlc <= Horizon(e)
      <4>1. o.hlc \in Nat /\ cursor[e] \in Nat /\ goal[e] \in Nat
        BY <3>1 DEF Op
      <4> QED
        BY <2>4, <4>1 DEF Horizon
    <3> QED
      BY <2>1, <3>1, <3>2, <3>3 DEF Foreign
  <2>5. ShownUpToCursor'
    <3> SUFFICES ASSUME NEW e \in Device, NEW o \in Foreign(server', e), o.hlc <= cursor[e]
                 PROVE  Shows(o, e)'
      BY <2>2 DEF ShownUpToCursor, Foreign
    <3>1. CASE o \in server
      BY <2>3, <3>1 DEF ShownUpToCursor, Foreign
    <3>2. CASE o \notin server
      BY <2>4, <3>2 DEF Shows
    <3> QED
      BY <3>1, <3>2
  <2>6. GapIsShown'
    <3>1. \A e \in Device : \A p \in page[e] : cursor[e] < p.hlc /\ p.hlc <= goal[e]
      BY DEF GapIsShown
    <3>2. ASSUME NEW e \in Device, NEW o \in Foreign(server', e),
                 cursor[e] < o.hlc, o.hlc <= goal[e], o \notin page[e]
          PROVE  o \in late'[e] \/ (Shows(o, e)' /\ \A p \in page[e] : o.hlc < p.hlc)
      <4>1. CASE o \in server
        <5>1. o \in late[e] \/ (Shows(o, e) /\ \A p \in page[e] : o.hlc < p.hlc)
          BY <3>2, <4>1 DEF GapIsShown, Foreign
        <5> QED
          BY <2>1, <2>3, <5>1
      <4>2. CASE o \notin server
        BY <2>4, <3>2, <4>2
      <4> QED
        BY <4>1, <4>2
    <3> QED
      BY <2>2, <3>1, <3>2 DEF GapIsShown, Foreign
  <2> QED
    BY <2>5, <2>6
<1>5. CASE PullRequest(d)
  <2>a. PICK P \in Firsts({o \in Foreign(server, d) : o.hlc > cursor[d]}, PageSize) :
          /\ page' = [page EXCEPT ![d] = P]
          /\ \E last \in Highest(P) : goal' = [goal EXCEPT ![d] = last.hlc]
    BY <1>5 DEF PullRequest
  <2>1. PICK last \in Highest(P) : goal' = [goal EXCEPT ![d] = last.hlc]
    BY <2>a
  <2>2. UNCHANGED <<server, cursor, effects, late>>
    BY <1>5 DEF PullRequest, clientVars, serverVars
  <2>3. \A e \in Device : \A o : Shows(o, e)' <=> Shows(o, e)
    BY <2>2 DEF Shows
  <2>4. ShownUpToCursor'
    BY <2>2, <2>3 DEF ShownUpToCursor, Foreign
  <2>5. \A p \in P : cursor[d] < p.hlc /\ p.hlc <= last.hlc
    BY <2>a, <2>1 DEF Firsts, Highest, Foreign, Op
  <2>6. ASSUME NEW o \in Foreign(server, d), cursor[d] < o.hlc, o.hlc <= last.hlc
        PROVE  o \in P
    <3>1. o \in Op /\ last \in P /\ last \in Op
      BY <2>a, <2>1 DEF Firsts, Highest, Foreign
    <3>2. ~(last.hlc < o.hlc) /\ o.hlc > cursor[d]
      BY <2>6, <3>1 DEF Op
    <3> QED
      BY <2>a, <3>1, <3>2 DEF Firsts
  <2>7. \A e \in Device \ {d} : page'[e] = page[e] /\ goal'[e] = goal[e]
    BY <2>a, <2>1
  <2>8. page'[d] = P /\ goal'[d] = last.hlc
    BY <2>a, <2>1
  <2>9. ASSUME NEW e \in Device
        PROVE  /\ \A p \in page'[e] : cursor[e] < p.hlc /\ p.hlc <= goal'[e]
               /\ \A o \in Foreign(server, e) :
                    cursor[e] < o.hlc /\ o.hlc <= goal'[e] /\ o \notin page'[e] =>
                      \/ o \in late[e]
                      \/ Shows(o, e) /\ \A p \in page'[e] : o.hlc < p.hlc
    <3>1. CASE e = d
      BY <2>5, <2>6, <2>8, <3>1
    <3>2. CASE e # d
      BY <2>7, <3>2 DEF GapIsShown
    <3> QED
      BY <3>1, <3>2
  <2>10. GapIsShown'
    BY <2>2, <2>3, <2>9 DEF GapIsShown, Foreign
  <2> QED
    BY <2>4, <2>10
<1>6. CASE PullStage(d)
  <2>1. PICK o \in Lowest(page[d]) : late' = [late EXCEPT ![d] = @ \ {o}]
    BY <1>6 DEF PullStage
  <2>2. UNCHANGED <<server, cursor, goal, page, effects>>
    BY <1>6 DEF PullStage
  <2>3. /\ o \in page[d] /\ o \in Op /\ o \in Emitted /\ cursor[d] < o.hlc
        /\ cursor[d] \in Nat /\ o.hlc \in Nat
    BY DEF Lowest, PageIsStored, Foreign, StoredIsEmitted, NothingToRestore, Emitted, Op,
           GapIsShown
  <2>4. ASSUME NEW e \in Device, NEW q \in Foreign(server, e), Shows(q, e),
               e = d => q.hlc < o.hlc
        PROVE  Shows(q, e)'
    <3>1. q \in Op /\ q \in Emitted
      BY DEF Foreign, StoredIsEmitted, Emitted, Op
    <3>2. CASE q \in effects[e]
      BY <2>2, <3>2 DEF Shows
    <3>3. CASE q \notin effects[e]
      <4>1. PICK c \in late[e] : c.book = q.book /\ (c = q \/ c.kind = "create")
        BY <2>4, <3>3 DEF Shows
      <4>2. c \in Op /\ c \in Emitted
        BY DEF EffectsHaveReasons, StoredIsEmitted, Emitted, Op
      <4>3. c.hlc <= q.hlc
        BY <3>1, <4>1, <4>2, CreationPrecedes
      <4>4. e # d \/ c # o
        BY <2>3, <2>4, <3>1, <4>2, <4>3 DEF Op
      <4>5. c \in late'[e]
        BY <2>1, <4>1, <4>4
      <4> QED
        BY <4>1, <4>5 DEF Shows
    <3> QED
      BY <3>2, <3>3
  <2>5. ShownUpToCursor'
    <3> SUFFICES ASSUME NEW e \in Device, NEW q \in Foreign(server, e), q.hlc <= cursor[e]
                 PROVE  Shows(q, e)'
      BY <2>2 DEF ShownUpToCursor, Foreign
    <3>1. Shows(q, e) /\ q.hlc \in Nat
      BY DEF ShownUpToCursor, Foreign, Op
    <3>2. e = d => q.hlc < o.hlc
      BY <2>3, <3>1
    <3> QED
      BY <2>4, <3>1, <3>2
  <2>6. ASSUME NEW e \in Device, NEW q \in Foreign(server, e),
               cursor[e] < q.hlc, q.hlc <= goal[e], q \notin page[e]
        PROVE  q \in late'[e] \/ (Shows(q, e)' /\ \A p \in page[e] : q.hlc < p.hlc)
    <3>1. CASE q \in late[e]
      <4>1. e # d \/ q # o
        BY <2>3, <2>6
      <4> QED
        BY <2>1, <3>1, <4>1
    <3>2. CASE Shows(q, e) /\ \A p \in page[e] : q.hlc < p.hlc
      BY <2>3, <2>4, <3>2
    <3> QED
      BY <2>6, <3>1, <3>2 DEF GapIsShown
  <2>7. \A e \in Device : \A p \in page[e] : cursor[e] < p.hlc /\ p.hlc <= goal[e]
    BY DEF GapIsShown
  <2>8. GapIsShown'
    BY <2>2, <2>6, <2>7 DEF GapIsShown, Foreign
  <2> QED
    BY <2>5, <2>8
<1>7. CASE PullApply(d)
  <2>1. UNCHANGED <<server, cursor, late>>
    BY <1>7 DEF PullApply, serverVars
  <2>2. \A e \in Device : effects[e] \subseteq effects'[e]
    BY <1>7 DEF PullApply
  <2>3. \A e \in Device : \A q : Shows(q, e) => Shows(q, e)'
    BY <2>1, <2>2 DEF Shows
  <2>4. ShownUpToCursor'
    BY <2>1, <2>3 DEF ShownUpToCursor, Foreign
  <2>5. PICK o \in Lowest(page[d]) :
          \/ /\ o.kind = "create" \/ o.book \in Known(d)
             /\ effects' = [effects EXCEPT ![d] = @ \cup {o}]
             /\ page' = [page EXCEPT ![d] = @ \ {o}]
             /\ UNCHANGED goal
          \/ /\ o.kind = "update" /\ o.book \notin Known(d)
             /\ page' = [page EXCEPT ![d] = @ \ {o}]
             /\ UNCHANGED <<effects, goal>>
          \/ /\ page' = [page EXCEPT ![d] = {}]
             /\ goal' = [goal EXCEPT ![d] = 0]
    BY <1>7 DEF PullApply
  <2>6. CASE page' = [page EXCEPT ![d] = {}] /\ goal' = [goal EXCEPT ![d] = 0]
    <3>1. page'[d] = {} /\ goal'[d] = 0
          /\ \A e \in Device \ {d} : page'[e] = page[e] /\ goal'[e] = goal[e]
      BY <2>6
    <3>2. \A q \in server : q.hlc \in Nat /\ ~(q.hlc <= 0)
      BY DEF Op
    <3>3. GapIsShown'
      BY <2>1, <2>3, <3>1, <3>2 DEF GapIsShown, Foreign
    <3> QED
      BY <2>4, <3>3
  <2>7. CASE page' = [page EXCEPT ![d] = @ \ {o}] /\ UNCHANGED goal /\ Shows(o, d)'
    <3>1. /\ o \in page[d] /\ \A e \in Device : page'[e] \subseteq page[e]
          /\ page'[d] = page[d] \ {o} /\ \A e \in Device \ {d} : page'[e] = page[e]
      BY <2>7 DEF Lowest
    <3>2. \A p \in page[d] \ {o} : o.hlc < p.hlc
      <4> SUFFICES ASSUME NEW p \in page[d] \ {o} PROVE o.hlc < p.hlc
        OBVIOUS
      <4>1. page[d] \subseteq Emitted
        BY DEF PageIsStored, Foreign, StoredIsEmitted, Emitted, Op
      <4>2. o.hlc <= p.hlc
        BY <3>1 DEF Lowest
      <4>3. o.hlc # p.hlc
        BY <3>1, <4>1 DEF UniqueHlc
      <4>4. o.hlc \in Nat /\ p.hlc \in Nat
        BY <3>1 DEF Op
      <4> HIDE DEF IInv, ShownInv, TypeOK
      <4> QED
        BY <4>2, <4>3, <4>4
    <3>3. ASSUME NEW e \in Device, NEW q \in Foreign(server, e),
                 cursor[e] < q.hlc, q.hlc <= goal[e], q \notin page'[e]
          PROVE  q \in late[e] \/ (Shows(q, e)' /\ \A p \in page'[e] : q.hlc < p.hlc)
      <4>1. CASE e = d /\ q = o
        BY <2>7, <3>1, <3>2, <4>1
      <4>2. CASE ~(e = d /\ q = o)
        <5>1. q \notin page[e]
          BY <3>1, <3>3, <4>2
        <5>2. q \in late[e] \/ (Shows(q, e) /\ \A p \in page[e] : q.hlc < p.hlc)
          BY <3>3, <5>1 DEF GapIsShown
        <5> QED
          BY <2>3, <3>1, <5>2
      <4> QED
        BY <4>1, <4>2
    <3>4. \A e \in Device : \A p \in page'[e] : cursor[e] < p.hlc /\ p.hlc <= goal[e]
      BY <3>1 DEF GapIsShown
    <3>5. GapIsShown'
      BY <2>1, <2>7, <3>3, <3>4 DEF GapIsShown, Foreign
    <3> QED
      BY <2>4, <3>5
  <2>8. effects' = [effects EXCEPT ![d] = @ \cup {o}] => Shows(o, d)'
    BY DEF Shows
  <2>9. o.kind = "update" /\ o.book \notin Known(d) => Shows(o, d)'
    BY <2>3, SkippedForAReason
  <2> QED
    BY <2>5, <2>6, <2>7, <2>8, <2>9
<1>8. CASE PullSaveCursor(d)
  <2>1. /\ goal[d] # 0 /\ page[d] = {} /\ cursor'[d] = goal[d] /\ goal'[d] = 0
        /\ \A e \in Device \ {d} : cursor'[e] = cursor[e] /\ goal'[e] = goal[e]
        /\ UNCHANGED <<page, server, late, effects>>
    BY <1>8 DEF PullSaveCursor, serverVars
  <2>2. \A e \in Device : \A q : Shows(q, e)' <=> Shows(q, e)
    BY <2>1 DEF Shows
  <2>3. ASSUME NEW q \in Foreign(server, d), q.hlc <= goal[d] PROVE Shows(q, d)
    <3>1. q.hlc \in Nat /\ cursor[d] \in Nat
      BY DEF Foreign, Op
    <3>2. CASE q.hlc <= cursor[d]
      BY <3>2 DEF ShownUpToCursor
    <3>3. CASE cursor[d] < q.hlc
      BY <2>1, <2>3, <3>3 DEF GapIsShown, Shows
    <3> QED
      BY <3>1, <3>2, <3>3
  <2>4. ShownUpToCursor'
    BY <2>1, <2>2, <2>3 DEF ShownUpToCursor, Foreign
  <2>5. \A q \in server : q.hlc \in Nat /\ ~(q.hlc <= 0)
    BY DEF Op
  <2>6. GapIsShown'
    BY <2>1, <2>2, <2>5 DEF GapIsShown, Foreign
  <2> QED
    BY <2>4, <2>6
<1>9. CASE PullFails(d)
  <2>1. /\ page'[d] = {} /\ goal'[d] = 0
        /\ \A e \in Device \ {d} : page'[e] = page[e] /\ goal'[e] = goal[e]
        /\ UNCHANGED <<cursor, server, late, effects>>
    BY <1>9 DEF PullFails, clientVars, serverVars
  <2>2. \A e \in Device : \A q : Shows(q, e)' <=> Shows(q, e)
    BY <2>1 DEF Shows
  <2>3. ShownUpToCursor'
    BY <2>1, <2>2 DEF ShownUpToCursor, Foreign
  <2>4. \A q \in server : q.hlc \in Nat /\ ~(q.hlc <= 0)
    BY DEF Op
  <2>5. GapIsShown'
    BY <2>1, <2>2, <2>4 DEF GapIsShown, Foreign
  <2> QED
    BY <2>3, <2>5
<1>10. CASE BootstrapReset(d)
  <2>1. /\ cursor'[d] = 0 /\ goal[d] = 0 /\ page[d] = {}
        /\ \A e \in Device \ {d} : cursor'[e] = cursor[e] /\ late'[e] = late[e]
        /\ UNCHANGED <<page, goal, server, effects>>
    BY <1>10 DEF BootstrapReset, pullVars
  <2>2. \A e \in Device \ {d} : \A q : Shows(q, e)' <=> Shows(q, e)
    BY <2>1 DEF Shows
  <2>3. \A q \in server : q.hlc \in Nat /\ ~(q.hlc <= 0)
    BY DEF Op
  <2>4. ShownUpToCursor'
    BY <2>1, <2>2, <2>3 DEF ShownUpToCursor, Foreign
  <2>5. GapIsShown'
    BY <2>1, <2>2, <2>3 DEF GapIsShown, Foreign
  <2> QED
    BY <2>4, <2>5
<1> QED
  BY <1>2, <1>3, <1>4, <1>5, <1>6, <1>7, <1>8, <1>9, <1>10 DEF Early

(***************************************************************************)
(* As long as nothing has been compacted, whatever a device has pulled     *)
(* past shows in its library, or it is late there, or the creation of its  *)
(* book is: for any page and chunk size, however pushes and pulls are cut  *)
(* off and repeated.                                                       *)
(***************************************************************************)
THEOREM EffectInvariant == Spec => []EffectInv
<1>1. Init => EffectInv
  <2> SUFFICES ASSUME Init PROVE ShownInv
    BY DEF EffectInv
  <2>1. Emitted = {}
    BY DEF Init, Emitted
  <2>2. NothingToRestore /\ EffectsHaveReasons /\ UploadedInOrder
    BY DEF Init, NothingToRestore, EffectsHaveReasons, UploadedInOrder
  <2>3. ShownUpToCursor /\ GapIsShown
    BY DEF Init, ShownUpToCursor, GapIsShown, Foreign
  <2> QED
    BY <2>1, <2>2, <2>3 DEF ShownInv, CreationIsFirst
<1>2. IInv /\ EffectInv /\ [Next]_vars => EffectInv'
  <2> SUFFICES ASSUME IInv, EffectInv, [Next]_vars, snapshots' = 0 PROVE ShownInv'
    BY DEF EffectInv
  <2>1. ShownInv /\ NothingToRestore' /\ (UNCHANGED vars \/ \E d \in Device : Early(d))
    BY EarlyStep DEF IInv
  <2>2. ASSUME NEW d \in Device, Early(d) PROVE ShownInv'
    BY <2>1, <2>2, ReasonStep, CreationStep, OrderStep, ShownStep DEF ShownInv
  <2>3. CASE UNCHANGED vars
    BY <2>1, <2>3 DEF ShownInv, NothingToRestore, EffectsHaveReasons, CreationIsFirst,
       UploadedInOrder, ShownUpToCursor, GapIsShown, Shows, Emitted, Foreign, vars
  <2> QED
    BY <2>1, <2>2, <2>3
<1> QED
  BY <1>1, <1>2, Invariant, PTL DEF Spec

(***************************************************************************)
(* EffectiveUpToCursor for any number of devices, books and ops.           *)
(***************************************************************************)
THEOREM EffectsUpToCursor == Spec => []EffectiveUpToCursor
<1>1. EffectInv => EffectiveUpToCursor
  BY DEF EffectInv, ShownInv, ShownUpToCursor, Shows, EffectiveUpToCursor
<1> QED
  BY <1>1, EffectInvariant, PTL

=============================================================================
