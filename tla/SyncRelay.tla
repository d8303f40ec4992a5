----------------------------- MODULE SyncRelay -------------------------------
(***************************************************************************)
(* The sync relay: the client loops push, pull, bootstrap and compact of   *)
(* every device, and the server handlers they call.                        *)
(*                                                                         *)
(* A device stages each local write as an op in its sync_ops table.  push  *)
(* uploads the staged ops in chunks and then marks them; pull asks for the *)
(* page of other devices' ops after the pull cursor, stages and applies    *)
(* them one by one, then saves the cursor; compact uploads a snapshot of   *)
(* the library, and the server prunes the ops up to the snapshot's         *)
(* timestamp; bootstrap applies the latest snapshot and then pulls.  All   *)
(* of these run as separate processes, so a device may push, pull, compact *)
(* and write at the same time, and each of them may die between two steps  *)
(* or lose the answer to a request.                                        *)
(*                                                                         *)
(* Timestamps are numbers: HlcLog shows what the real ones guarantee.      *)
(***************************************************************************)
EXTENDS Naturals, FiniteSets

CONSTANTS
  Device,        \* the devices of one library
  Writer,        \* bound: the devices that write, the others only follow
  Book,          \* the books they write about
  MaxHlc,        \* bound on timestamps, hence on the ops emitted
  ChunkSize,     \* ops per push request: 1000 in the code
  PageSize,      \* ops per pull response: MAX_BATCH_SIZE, 1000 in the code
  MaxFailures,   \* bound on the pushes, pulls and bootstraps cut short
  MaxResets,     \* bound on bootstraps with --reset-cursor
  MaxSnapshots   \* bound on compactions

ASSUME SyncRelayAssumption ==
  /\ Writer \subseteq Device
  /\ MaxHlc \in Nat
  /\ ChunkSize \in Nat /\ ChunkSize > 0
  /\ PageSize \in Nat /\ PageSize > 0
  /\ MaxFailures \in Nat /\ MaxResets \in Nat /\ MaxSnapshots \in Nat

VARIABLES
  log,        \* log[d]: the rows of d's sync_ops
  unpushed,   \* unpushed[d]: those with pushed_at NULL
  effects,    \* effects[d]: the ops whose effect d's library holds
  cursor,     \* cursor[d]: the timestamp of d's pull_cursor op, 0 for none
  batch,      \* batch[d]: the ops the running push has read, {} for no push
  left,       \* left[d]: those of them not yet uploaded
  page,       \* page[d]: the ops of the pulled page still to be applied
  goal,       \* goal[d]: the cursor of that page, 0 for no page
  staged,     \* staged[d]: the page's next op is already in log[d]
  restore,    \* restore[d]: the snapshot a running bootstrap has downloaded
  export,     \* export[d]: the snapshot a running compact has exported
  server,     \* the ops table
  snapshot,   \* the content of the latest snapshot, {} for none
  late,       \* history: the ops that reached the server behind d's cursor
  pruned,     \* history: the ops a compaction has deleted
  failures, resets, snapshots   \* what the bounds count

clientVars == <<log, unpushed, effects, cursor>>
pushVars == <<batch, left>>
pullVars == <<page, goal, staged, restore>>
serverVars == <<server, snapshot, late, pruned>>
counters == <<failures, resets, snapshots>>
vars == <<log, unpushed, effects, cursor, batch, left, page, goal, staged,
          restore, export, server, snapshot, late, pruned, failures, resets,
          snapshots>>

-----------------------------------------------------------------------------

\* What the relay and the merge engine tell apart in a SyncOp.  A "child"
\* (session, progress, tag, note, review) references its book's row.
Op == [hlc : 1 .. MaxHlc, dev : Device, book : Book,
       kind : {"create", "update", "child"}]

Emitted == UNION {log[d] : d \in Device}

\* The books in d's library: a snapshot may have brought them.
Known(d) == {o.book : o \in effects[d]}

Foreign(S, d) == {o \in S : o.dev # d}

\* ORDER BY hlc LIMIT n.
Firsts(S, n) ==
  {P \in SUBSET S : /\ Cardinality(P) <= n
                    /\ P = S \/ Cardinality(P) = n
                    /\ \A o \in P, q \in S \ P : o.hlc < q.hlc}

\* The last op of a page; as the next op to apply it would be a fault.
Highest(S) == {o \in S : \A q \in S : q.hlc <= o.hlc}
Lowest(S) == {o \in S : \A q \in S : o.hlc <= q.hlc}

\* The end of what d has pulled or is about to apply.
Horizon(d) == IF goal[d] > cursor[d] THEN goal[d] ELSE cursor[d]

NoExport == [hlc |-> 0, ops |-> {}]

Init ==
  /\ log = [d \in Device |-> {}]
  /\ unpushed = [d \in Device |-> {}]
  /\ effects = [d \in Device |-> {}]
  /\ cursor = [d \in Device |-> 0]
  /\ batch = [d \in Device |-> {}]
  /\ left = [d \in Device |-> {}]
  /\ page = [d \in Device |-> {}]
  /\ goal = [d \in Device |-> 0]
  /\ staged = [d \in Device |-> FALSE]
  /\ restore = [d \in Device |-> {}]
  /\ export = [d \in Device |-> NoExport]
  /\ server = {}
  /\ snapshot = {}
  /\ late = [d \in Device |-> {}]
  /\ pruned = {}
  /\ failures = 0 /\ resets = 0 /\ snapshots = 0

-----------------------------------------------------------------------------
(* Local writes. *)

\* with_sync_txn: the write and its op commit together.  The timestamp is
\* past every one in the log (next_local_hlc); timestamps never collide
\* because they end in the device prefix.
LocalWrite(d, o) ==
  /\ d \in Writer /\ o.dev = d
  /\ \A q \in log[d] : q.hlc < o.hlc
  /\ \A q \in Emitted : q.hlc # o.hlc
  /\ IF o.kind = "create"
       THEN \A q \in Emitted : q.book # o.book
       ELSE o.book \in Known(d)
  /\ log' = [log EXCEPT ![d] = @ \cup {o}]
  /\ unpushed' = [unpushed EXCEPT ![d] = @ \cup {o}]
  /\ effects' = [effects EXCEPT ![d] = @ \cup {o}]
  /\ UNCHANGED <<cursor, pushVars, pullVars, export, serverVars, counters>>

-----------------------------------------------------------------------------
(* push: get_unpushed_ops, one request per chunk, then mark_ops_pushed. *)

PushBegin(d) ==
  /\ batch[d] = {}
  /\ unpushed[d] # {}
  /\ batch' = [batch EXCEPT ![d] = unpushed[d]]
  /\ left' = [left EXCEPT ![d] = unpushed[d]]
  /\ UNCHANGED <<clientVars, pullVars, export, serverVars, counters>>

\* push_ops on the server: INSERT OR IGNORE of the chunk in one transaction.
PushChunk(d) ==
  /\ left[d] # {}
  /\ \E C \in Firsts(left[d], ChunkSize) :
       /\ left' = [left EXCEPT ![d] = @ \ C]
       /\ server' = server \cup C
       /\ late' = [e \in Device |->
                     late[e] \cup {o \in Foreign(C \ server, e) :
                                     o \notin log[e] /\ o.hlc <= Horizon(e)}]
  /\ UNCHANGED <<clientVars, batch, pullVars, export, snapshot, pruned, counters>>

\* A faulty PushMark, to validate AckedIsStored: it marks every staged op, not
\* only those the push has read.
PushMarkAll(d) ==
  /\ batch[d] # {} /\ left[d] = {}
  /\ unpushed' = [unpushed EXCEPT ![d] = {}]
  /\ batch' = [batch EXCEPT ![d] = {}]
  /\ UNCHANGED <<log, effects, cursor, left, pullVars, export, serverVars, counters>>

PushMark(d) ==
  /\ batch[d] # {} /\ left[d] = {}
  /\ unpushed' = [unpushed EXCEPT ![d] = @ \ batch[d]]
  /\ batch' = [batch EXCEPT ![d] = {}]
  /\ UNCHANGED <<log, effects, cursor, left, pullVars, export, serverVars, counters>>

\* A failed request, a lost answer or a crash: nothing is marked.
PushFails(d) ==
  /\ batch[d] # {}
  /\ failures < MaxFailures
  /\ failures' = failures + 1
  /\ batch' = [batch EXCEPT ![d] = {}]
  /\ left' = [left EXCEPT ![d] = {}]
  /\ UNCHANGED <<clientVars, pullVars, export, serverVars, resets, snapshots>>

-----------------------------------------------------------------------------
(* pull: a page, every op of it staged and applied, then the cursor. *)

\* The server refuses a cursor whose op it does not hold.
CursorFound(d) == cursor[d] = 0 \/ \E o \in server : o.hlc = cursor[d]

\* A faulty PullRequest, to validate EventualDelivery: the cursor returned is
\* the last op there is, not the last op of the page.
PullRequestSkipsRest(d) ==
  /\ goal[d] = 0 /\ restore[d] = {}
  /\ CursorFound(d)
  /\ LET ahead == {o \in Foreign(server, d) : o.hlc > cursor[d]}
     IN  \E P \in Firsts(ahead, PageSize), last \in Highest(ahead) :
           /\ page' = [page EXCEPT ![d] = P]
           /\ goal' = [goal EXCEPT ![d] = last.hlc]
  /\ UNCHANGED <<clientVars, pushVars, staged, restore, export, serverVars, counters>>

\* pull_ops on the server.  An empty page ends the loop.
PullRequest(d) ==
  /\ goal[d] = 0 /\ restore[d] = {}
  /\ CursorFound(d)
  /\ \E P \in Firsts({o \in Foreign(server, d) : o.hlc > cursor[d]}, PageSize) :
       /\ page' = [page EXCEPT ![d] = P]
       /\ \E last \in Highest(P) : goal' = [goal EXCEPT ![d] = last.hlc]
  /\ UNCHANGED <<clientVars, pushVars, staged, restore, export, serverVars, counters>>

\* A faulty PullStage, to validate EffectiveUpToCursor: an op that is in the log
\* already is taken for applied.
PullStageSkipsStaged(d) ==
  /\ ~staged[d]
  /\ \E o \in Lowest(page[d]) :
       /\ log' = [log EXCEPT ![d] = @ \cup {o}]
       /\ late' = [late EXCEPT ![d] = @ \ {o}]
       /\ page' = IF o \in log[d] THEN [page EXCEPT ![d] = @ \ {o}] ELSE page
       /\ staged' = [staged EXCEPT ![d] = o \notin log[d]]
  /\ UNCHANGED <<unpushed, effects, cursor, pushVars, goal, restore, export,
                 server, snapshot, pruned, counters>>

\* insert_remote_op: INSERT OR IGNORE, already marked as pushed.
PullStage(d) ==
  /\ ~staged[d]
  /\ \E o \in Lowest(page[d]) :
       /\ log' = [log EXCEPT ![d] = @ \cup {o}]
       /\ late' = [late EXCEPT ![d] = @ \ {o}]
  /\ staged' = [staged EXCEPT ![d] = TRUE]
  /\ UNCHANGED <<unpushed, effects, cursor, pushVars, page, goal, restore, export,
                 server, snapshot, pruned, counters>>

\* apply_op: whether or not the op was staged before.  An update of a book
\* that is not there is skipped; a child of it violates a foreign key, and
\* the error ends the pull.
PullApply(d) ==
  /\ staged[d]
  /\ staged' = [staged EXCEPT ![d] = FALSE]
  /\ \E o \in Lowest(page[d]) :
       \/ /\ o.kind = "create" \/ o.book \in Known(d)
          /\ effects' = [effects EXCEPT ![d] = @ \cup {o}]
          /\ page' = [page EXCEPT ![d] = @ \ {o}]
          /\ UNCHANGED goal
       \/ /\ o.kind = "update" /\ o.book \notin Known(d)
          /\ page' = [page EXCEPT ![d] = @ \ {o}]
          /\ UNCHANGED <<effects, goal>>
       \/ /\ o.kind = "child" /\ o.book \notin Known(d)
          /\ page' = [page EXCEPT ![d] = {}]
          /\ goal' = [goal EXCEPT ![d] = 0]
          /\ UNCHANGED effects
  /\ UNCHANGED <<log, unpushed, cursor, pushVars, restore, export, serverVars, counters>>

\* A faulty PullSaveCursor, to validate DeliveredUpToCursor: the cursor is saved
\* before the page is applied.
PullSaveCursorEarly(d) ==
  /\ goal[d] # 0
  /\ cursor' = [cursor EXCEPT ![d] = goal[d]]
  /\ goal' = [goal EXCEPT ![d] = 0]
  /\ UNCHANGED <<log, unpushed, effects, pushVars, page, staged, restore, export,
                 serverVars, counters>>

\* set_cursor, after the last op of the page.
PullSaveCursor(d) ==
  /\ goal[d] # 0 /\ page[d] = {}
  /\ cursor' = [cursor EXCEPT ![d] = goal[d]]
  /\ goal' = [goal EXCEPT ![d] = 0]
  /\ UNCHANGED <<log, unpushed, effects, pushVars, page, staged, restore, export,
                 serverVars, counters>>

\* A crash of a pull or of a bootstrap.
PullFails(d) ==
  /\ goal[d] # 0 \/ restore[d] # {}
  /\ failures < MaxFailures
  /\ failures' = failures + 1
  /\ page' = [page EXCEPT ![d] = {}]
  /\ goal' = [goal EXCEPT ![d] = 0]
  /\ staged' = [staged EXCEPT ![d] = FALSE]
  /\ restore' = [restore EXCEPT ![d] = {}]
  /\ UNCHANGED <<clientVars, pushVars, export, serverVars, resets, snapshots>>

-----------------------------------------------------------------------------
(* bootstrap: the optional reset, the snapshot, then a pull. *)

\* A faulty BootstrapReset, to validate ImplementsDelivery: the op log is wiped
\* with the cursor.
BootstrapResetWipesLog(d) ==
  /\ goal[d] = 0 /\ restore[d] = {}
  /\ cursor[d] # 0
  /\ resets < MaxResets
  /\ resets' = resets + 1
  /\ cursor' = [cursor EXCEPT ![d] = 0]
  /\ log' = [log EXCEPT ![d] = {}]
  /\ UNCHANGED <<unpushed, effects, pushVars, pullVars, export, serverVars,
                 failures, snapshots>>

\* clear_cursor: what was late for the old cursor is ahead of the new one.
BootstrapReset(d) ==
  /\ goal[d] = 0 /\ restore[d] = {}
  /\ cursor[d] # 0
  /\ resets < MaxResets
  /\ resets' = resets + 1
  /\ cursor' = [cursor EXCEPT ![d] = 0]
  /\ late' = [late EXCEPT ![d] = {}]
  /\ UNCHANGED <<log, unpushed, effects, pushVars, pullVars, export, server, snapshot,
                 pruned, failures, snapshots>>

\* download_snapshot.
BootstrapDownload(d) ==
  /\ goal[d] = 0 /\ restore[d] = {}
  /\ snapshot # {}
  /\ restore' = [restore EXCEPT ![d] = snapshot]
  /\ UNCHANGED <<clientVars, pushVars, page, goal, staged, export, serverVars, counters>>

\* apply_snapshot: INSERT OR IGNORE of every row, in one transaction.  A book
\* that is there keeps its row; rows of its children are new.
BootstrapApply(d) ==
  /\ restore[d] # {}
  /\ effects' = [effects EXCEPT ![d] =
                   @ \cup {o \in restore[d] :
                             o.kind = "child" \/ o.book \notin Known(d)}]
  /\ restore' = [restore EXCEPT ![d] = {}]
  /\ UNCHANGED <<log, unpushed, cursor, pushVars, page, goal, staged, export,
                 serverVars, counters>>

-----------------------------------------------------------------------------
(* compact: the time of a fresh clock, the export, the upload. *)

\* HybridClock::now of a clock that has seen nothing: any time.
CompactExport(d, h) ==
  /\ export[d] = NoExport
  /\ snapshots < MaxSnapshots
  /\ snapshots' = snapshots + 1
  /\ export' = [export EXCEPT ![d] = [hlc |-> h, ops |-> effects[d]]]
  /\ UNCHANGED <<clientVars, pushVars, pullVars, serverVars, failures, resets>>

\* upload_snapshot on the server: store, prune, keep the latest.  Snapshots are
\* dated to the second; of two in one second the older row is kept.
CompactUpload(d) ==
  /\ export[d] # NoExport
  /\ LET old == {o \in server : o.hlc <= export[d].hlc}
     IN  /\ server' = server \ old
         /\ pruned' = pruned \cup old
  /\ \/ snapshot' = export[d].ops
     \/ snapshot # {} /\ UNCHANGED snapshot
  /\ export' = [export EXCEPT ![d] = NoExport]
  /\ UNCHANGED <<clientVars, pushVars, pullVars, late, counters>>

-----------------------------------------------------------------------------

\* The steps the running commands take by themselves.
Progress(d) ==
  \/ PushBegin(d) \/ PushChunk(d) \/ PushMark(d)
  \/ PullRequest(d) \/ PullStage(d) \/ PullApply(d) \/ PullSaveCursor(d)
  \/ BootstrapApply(d)

Next ==
  \E d \in Device :
    \/ \E o \in Op : LocalWrite(d, o)
    \/ Progress(d)
    \/ PushFails(d) \/ PullFails(d)
    \/ BootstrapReset(d) \/ BootstrapDownload(d)
    \/ \E h \in 1 .. MaxHlc : CompactExport(d, h)
    \/ CompactUpload(d)

Spec == Init /\ [][Next]_vars

\* What a user who keeps running push and pull provides: each command takes its
\* next step in the end, and is run again while there is something to do.
Fairness ==
  \A d \in Device :
    /\ WF_vars(PushBegin(d)) /\ WF_vars(PushChunk(d)) /\ WF_vars(PushMark(d))
    /\ WF_vars(PullRequest(d)) /\ WF_vars(PullStage(d)) /\ WF_vars(PullApply(d))
    /\ WF_vars(PullSaveCursor(d)) /\ WF_vars(BootstrapApply(d))

FairSpec == Spec /\ Fairness

-----------------------------------------------------------------------------

TypeOK ==
  /\ log \in [Device -> SUBSET Op] /\ unpushed \in [Device -> SUBSET Op]
  /\ effects \in [Device -> SUBSET Op] /\ cursor \in [Device -> 0 .. MaxHlc]
  /\ batch \in [Device -> SUBSET Op] /\ left \in [Device -> SUBSET Op]
  /\ page \in [Device -> SUBSET Op] /\ goal \in [Device -> 0 .. MaxHlc]
  /\ staged \in [Device -> BOOLEAN] /\ restore \in [Device -> SUBSET Op]
  /\ export \in [Device -> [hlc : 0 .. MaxHlc, ops : SUBSET Op]]
  /\ server \subseteq Op /\ snapshot \subseteq Op /\ pruned \subseteq Op
  /\ late \in [Device -> SUBSET Op]
  /\ failures \in 0 .. MaxFailures /\ resets \in 0 .. MaxResets
  /\ snapshots \in 0 .. MaxSnapshots
  /\ \A d \in Device :
       /\ unpushed[d] \subseteq {o \in log[d] : o.dev = d}
       /\ left[d] \subseteq batch[d] /\ batch[d] \subseteq unpushed[d]
       /\ page[d] # {} => goal[d] # 0
       /\ staged[d] => page[d] # {}

(***************************************************************************)
(* The pull cursor means something: whatever the interleaving of the       *)
(* pushes, pulls, crashes and compactions of all devices, every op of      *)
(* another device that the server holds at or before d's cursor has        *)
(* reached d's log, except the ops that arrived behind the cursor.         *)
(***************************************************************************)
DeliveredUpToCursor ==
  \A d \in Device : \A o \in Foreign(server, d) :
    o.hlc <= cursor[d] => o \in log[d] \cup late[d]

(***************************************************************************)
(* mark_ops_pushed marks only what the server has stored, even when ops    *)
(* are written during the push, the push dies between two chunks, or a     *)
(* compaction prunes a chunk before the mark.                              *)
(***************************************************************************)
AckedIsStored ==
  \A d \in Device : \A o \in log[d] :
    o.dev = d => o \in unpushed[d] \cup server \cup pruned

\* The refinement mapping: what is pruned stays stored, what is marked is
\* acknowledged.
Author(o) == o.dev

Delivery == INSTANCE OpDelivery WITH
  known <- log,
  stored <- server \cup pruned,
  acked <- [d \in Device |-> {o \in log[d] : o.dev = d} \ unpushed[d]]

(***************************************************************************)
(* The relay keeps the promise of OpDelivery: what a push marks was stored *)
(* in some earlier request, and what a pull stages came from the server,   *)
(* across crashes, re-pushes of pruned ops and stale pages.                *)
(***************************************************************************)
ImplementsDelivery == Delivery!Spec

(***************************************************************************)
(* A crash between staging an op and applying it does not lose the op, and *)
(* timestamps order a book's ops after its creation: while nothing has     *)
(* been compacted, every op at or before the cursor is in the library,     *)
(* except the late ones and those of a book whose creation was late.       *)
(***************************************************************************)
EffectiveUpToCursor ==
  snapshots = 0 =>
    \A d \in Device : \A o \in Foreign(server, d) :
      o.hlc <= cursor[d] =>
        \/ o \in effects[d]
        \/ \E c \in late[d] : c.book = o.book /\ (c = o \/ c.kind = "create")

Reaches(o, d) ==
  o \in log[d] \cup late[d] \/ \E c \in late[d] : c.kind = "create"

(***************************************************************************)
(* Without compaction every op gets to every device in the end, or is late *)
(* there, or waits at a device that lacks the creation of some book: a     *)
(* child of that book makes every pull fail.                               *)
(***************************************************************************)
EventualDelivery ==
  \A d \in Device : <>[](\A o \in Emitted : Reaches(o, d))

(***************************************************************************)
(* Without compaction the libraries converge: a device behind whose cursor *)
(* nothing has arrived ends with the effect of every op.                   *)
(***************************************************************************)
EventualConvergence ==
  \A d \in Device : <>[](late[d] = {} => effects[d] = Emitted)

-----------------------------------------------------------------------------
(* What the wire protocol document promises and the code does not keep. *)

(***************************************************************************)
(* "Cursors are op IDs (UUID v7), not timestamps - immune to clock skew":  *)
(* no op at or before the cursor is missing.                               *)
(***************************************************************************)
CursorImmuneToSkew ==
  \A d \in Device : \A o \in Foreign(server, d) :
    o.hlc <= cursor[d] => o \in log[d]

(***************************************************************************)
(* "Pull cursor not found: full re-sync from latest snapshot": a device    *)
(* whose cursor the server refuses gets out of that state.                 *)
(***************************************************************************)
RefusedCursorRecovers ==
  \A d \in Device : ~CursorFound(d) ~> CursorFound(d)

(***************************************************************************)
(* Compaction discards "superseded ops" only: what it has deleted is in    *)
(* the snapshot a new device starts from.                                  *)
(***************************************************************************)
SnapshotCoversPruned == pruned \subseteq snapshot

=============================================================================
