------------------------------ MODULE BookMerge ------------------------------
(***************************************************************************)
(* One book on several devices: the local writes of BookRepository, the    *)
(* merge engine that applies pulled ops, purge, merge_books, and snapshots.*)
(*                                                                         *)
(* A book row has many fields and each has its own provenance timestamp.   *)
(* Two of them stand for all: rating, plain last-write-wins, and status,   *)
(* whose value must also be a legal transition from the current one.  The  *)
(* engine visits the fields in alphabetical order, rating before status.   *)
(* Reading progress stands for the child tables.                           *)
(*                                                                         *)
(* A pulled op may be applied in any order and any number of times: late   *)
(* pushes, crashes between staging and applying, and bootstrap             *)
(* --reset-cursor produce all of that (SyncRelay).  A device's own ops are *)
(* never pulled back.                                                      *)
(***************************************************************************)
EXTENDS Naturals

CONSTANTS
  Device,    \* the devices of one library
  Rating,    \* the ratings, 0 for none
  Status,    \* bound: the reading statuses in use
  Page,      \* the progress values
  MaxHlc     \* bound on timestamps, hence on the ops emitted

ReadingStatus == {"want-to-read", "reading", "read", "abandoned", "on-hold"}

ASSUME BookMergeAssumption ==
  /\ Rating \subseteq Nat /\ 0 \in Rating
  /\ Status \subseteq ReadingStatus
  /\ Page \subseteq Nat \ {0}
  /\ MaxHlc \in Nat

VARIABLES
  emitted,     \* every op emitted
  log,         \* log[d]: the rows of d's sync_ops
  book,        \* book[d]: the row of the book
  provenance,  \* provenance[d]: sync_hlc of metadata_provenance, 0 for none
  progress,    \* progress[d]: the values in reading_progress
  snapshot,    \* the latest snapshot: a row and its progress values
  merged,      \* history: the ops d has written or merged into its row
  gone         \* history: whether d has ever removed the row for good

vars == <<emitted, log, book, provenance, progress, snapshot, merged, gone>>

\* What the merge engine reads of a SyncOp.  A create carries every field, the
\* others what they change.
OpsWith(kind, ratings, statuses, pages) ==
  [hlc : 1 .. MaxHlc, dev : Device, kind : {kind},
   rating : ratings, status : statuses, page : pages]

Op ==
  OpsWith("create", Rating, Status, {0})
    \cup OpsWith("rating", Rating, {"none"}, {0}) \cup OpsWith("status", {0}, Status, {0})
    \cup OpsWith("delete", {0}, {"none"}, {0}) \cup OpsWith("progress", {0}, {"none"}, Page)

NoRow == [state |-> "none", rating |-> 0, status |-> "none"]
NoProvenance == [rating |-> 0, status |-> 0]
NoSnapshot == [row |-> NoRow, progress |-> {}]

Row == [state : {"live", "deleted"}, rating : Rating, status : Status] \cup {NoRow}

HasRow(d) == book[d].state # "none"
Live(d) == book[d].state = "live"

SetsRating(o) == o.kind \in {"create", "rating"}
SetsStatus(o) == o.kind \in {"create", "status"}

\* ReadingStatus::can_transition_to.
CanTransition(from, to) ==
  \/ from = "reading" /\ to \in {"read", "abandoned", "on-hold"}
  \/ from \in {"want-to-read", "read", "abandoned", "on-hold"} /\ to = "reading"

Init ==
  /\ emitted = {}
  /\ log = [d \in Device |-> {}]
  /\ book = [d \in Device |-> NoRow]
  /\ provenance = [d \in Device |-> NoProvenance]
  /\ progress = [d \in Device |-> {}]
  /\ snapshot = NoSnapshot
  /\ merged = [d \in Device |-> {}]
  /\ gone = [d \in Device |-> FALSE]

-----------------------------------------------------------------------------
(* Local writes: the row and its op, in one transaction. *)

\* emit_local_op: timestamp, provenance of the fields, op.
Emit(d, o) ==
  /\ o.dev = d
  /\ \A q \in log[d] : q.hlc < o.hlc
  /\ \A q \in emitted : q.hlc # o.hlc
  /\ emitted' = emitted \cup {o}
  /\ log' = [log EXCEPT ![d] = @ \cup {o}]
  /\ merged' = [merged EXCEPT ![d] = @ \cup {o}]
  /\ UNCHANGED snapshot

\* A row and its provenance after o has set the rating (if r) and the status
\* (if s).
Written(row, o, r, s) ==
  [state  |-> row.state,
   rating |-> IF r THEN o.rating ELSE row.rating,
   status |-> IF s THEN o.status ELSE row.status]
Stamped(p, o, r, s) ==
  [rating |-> IF r THEN o.hlc ELSE p.rating,
   status |-> IF s THEN o.hlc ELSE p.status]

\* create_book.  Book ids are fresh: nothing has been written about the book.
CreateBook(d, o) ==
  /\ o.kind = "create" /\ emitted = {}
  /\ Emit(d, o)
  /\ book' = [book EXCEPT ![d] =
                [state |-> "live", rating |-> o.rating, status |-> o.status]]
  /\ provenance' = [provenance EXCEPT ![d] = Stamped(@, o, TRUE, TRUE)]
  /\ UNCHANGED <<progress, gone>>

\* A faulty UpdateBook, to validate RatingIsNewest: no provenance recorded.
UpdateBookUnstamped(d, o) ==
  /\ o.kind \in {"rating", "status"} /\ Live(d)
  /\ Emit(d, o)
  /\ book' = [book EXCEPT ![d] = Written(@, o, SetsRating(o), SetsStatus(o))]
  /\ UNCHANGED <<provenance, progress, gone>>

\* update_book_rating and update_book_status.  The repository takes any
\* status: only some of its callers ask can_transition_to first.
UpdateBook(d, o) ==
  /\ o.kind \in {"rating", "status"} /\ Live(d)
  /\ Emit(d, o)
  /\ book' = [book EXCEPT ![d] = Written(@, o, SetsRating(o), SetsStatus(o))]
  /\ provenance' = [provenance EXCEPT ![d] = Stamped(@, o, SetsRating(o), SetsStatus(o))]
  /\ UNCHANGED <<progress, gone>>

\* log_progress: any value, lower ones too.
LogProgress(d, o) ==
  /\ o.kind = "progress" /\ Live(d)
  /\ Emit(d, o)
  /\ progress' = [progress EXCEPT ![d] = @ \cup {o.page}]
  /\ UNCHANGED <<book, provenance, gone>>

\* delete_book: a tombstone.
DeleteBook(d, o) ==
  /\ o.kind = "delete" /\ Live(d)
  /\ Emit(d, o)
  /\ book' = [book EXCEPT ![d].state = "deleted"]
  /\ UNCHANGED <<provenance, progress, gone>>

\* The row goes for good; what references it cascades.
RemoveRow(d) ==
  /\ book' = [book EXCEPT ![d] = NoRow]
  /\ provenance' = [provenance EXCEPT ![d] = NoProvenance]
  /\ progress' = [progress EXCEPT ![d] = {}]
  /\ gone' = [gone EXCEPT ![d] = TRUE]

\* merge_books, for the book merged into another: the row is removed, and a
\* delete emitted.
MergeAway(d, o) ==
  /\ o.kind = "delete" /\ Live(d)
  /\ Emit(d, o)
  /\ RemoveRow(d)

\* purge_tombstones.
Purge(d) ==
  /\ book[d].state = "deleted"
  /\ RemoveRow(d)
  /\ UNCHANGED <<emitted, log, snapshot, merged>>

-----------------------------------------------------------------------------
(* Pulled ops. *)

\* insert_remote_op.
Stage(d, o) ==
  /\ o.dev # d /\ o \notin log[d]
  /\ log' = [log EXCEPT ![d] = @ \cup {o}]
  /\ UNCHANGED <<emitted, book, provenance, progress, snapshot, merged, gone>>

\* A faulty MergeCreate, to validate DeletedStaysDeleted: the existence check
\* sees live rows only, and the insert replaces the tombstone.
MergeCreateOverTombstone(d, o) ==
  /\ o.kind = "create" /\ ~Live(d)
  /\ book' = [book EXCEPT ![d] =
                [state |-> "live", rating |-> o.rating, status |-> o.status]]
  /\ provenance' = [provenance EXCEPT ![d] = Stamped(@, o, TRUE, TRUE)]
  /\ UNCHANGED progress

\* merge_book_create of an unknown book: every field, with its provenance.
MergeCreate(d, o) ==
  /\ o.kind = "create" /\ ~HasRow(d)
  /\ book' = [book EXCEPT ![d] =
                [state |-> "live", rating |-> o.rating, status |-> o.status]]
  /\ provenance' = [provenance EXCEPT ![d] = Stamped(@, o, TRUE, TRUE)]
  /\ UNCHANGED progress

\* The fields of a known, live book that o overwrites: those older than o, and
\* the status only by a legal transition.
TakesRating(d, o) == SetsRating(o) /\ provenance[d].rating < o.hlc
TakesStatus(d, o) ==
  /\ SetsStatus(o) /\ provenance[d].status < o.hlc
  /\ book[d].status = o.status \/ CanTransition(book[d].status, o.status)

\* A faulty MergeUpdate, to validate ReplayIsHarmless: no provenance recorded.
MergeUpdateUnstamped(d, o) ==
  /\ SetsRating(o) \/ SetsStatus(o)
  /\ Live(d)
  /\ book' = [book EXCEPT ![d] = Written(@, o, TakesRating(d, o), TakesStatus(d, o))]
  /\ UNCHANGED <<provenance, progress>>

\* merge_book_update, and merge_book_create of a known book.  An illegal status
\* ends the merge; the rating, visited before it, is kept.
MergeUpdate(d, o) ==
  /\ SetsRating(o) \/ SetsStatus(o)
  /\ Live(d)
  /\ book' = [book EXCEPT ![d] = Written(@, o, TakesRating(d, o), TakesStatus(d, o))]
  /\ provenance' = [provenance EXCEPT ![d] =
       Stamped(@, o, TakesRating(d, o), TakesStatus(d, o))]
  /\ UNCHANGED progress

\* merge_book_delete: whatever the timestamps say.
MergeDelete(d, o) ==
  /\ o.kind = "delete" /\ HasRow(d)
  /\ book' = [book EXCEPT ![d].state = "deleted"]
  /\ UNCHANGED <<provenance, progress>>

\* A faulty MergeProgress, to validate HighestProgressKept: compared with the
\* lowest value there is.
MergeProgressBelow(d, o) ==
  /\ o.kind = "progress" /\ HasRow(d)
  /\ progress' = [progress EXCEPT ![d] =
       IF \A v \in @ : o.page < v THEN @ \cup {o.page} ELSE @]
  /\ UNCHANGED <<book, provenance>>

\* merge_progress_create: only a value above all others, tombstone or not.
MergeProgress(d, o) ==
  /\ o.kind = "progress" /\ HasRow(d)
  /\ progress' = [progress EXCEPT ![d] =
       IF \A v \in @ : v < o.page THEN @ \cup {o.page} ELSE @]
  /\ UNCHANGED <<book, provenance>>

\* An update, or a create, of a deleted book.
MergeSkipped(d, o) ==
  /\ SetsRating(o) \/ SetsStatus(o)
  /\ book[d].state = "deleted"
  /\ UNCHANGED <<book, provenance, progress>>

\* apply_op.  Without a row an update or a delete is skipped and a progress
\* entry violates its foreign key: nothing changes and nothing is merged.
Merge(d, o) ==
  /\ o \in log[d] /\ o.dev # d
  /\ \/ MergeCreate(d, o) \/ MergeUpdate(d, o) \/ MergeDelete(d, o)
     \/ MergeProgress(d, o) \/ MergeSkipped(d, o)
  /\ merged' = [merged EXCEPT ![d] = @ \cup {o}]
  /\ UNCHANGED <<emitted, log, snapshot, gone>>

-----------------------------------------------------------------------------
(* Snapshots carry rows, tombstones included, but no provenance and no ops. *)

\* export_snapshot and the upload.
Compact(d) ==
  /\ HasRow(d)
  /\ snapshot' = [row |-> book[d], progress |-> progress[d]]
  /\ UNCHANGED <<emitted, log, book, provenance, progress, merged, gone>>

\* apply_snapshot: INSERT OR IGNORE, of the books first and then of what hangs on them.
RowAfterSnapshot(d) == IF HasRow(d) THEN book[d] ELSE snapshot.row

Bootstrap(d) ==
  /\ snapshot # NoSnapshot
  /\ book' = [book EXCEPT ![d] = RowAfterSnapshot(d)]
  /\ progress' = [progress EXCEPT ![d] = @ \cup snapshot.progress]
  /\ UNCHANGED <<emitted, log, provenance, snapshot, merged, gone>>

-----------------------------------------------------------------------------

Next ==
  \E d \in Device :
    \/ \E o \in Op :
         \/ CreateBook(d, o) \/ UpdateBook(d, o) \/ LogProgress(d, o)
         \/ DeleteBook(d, o) \/ MergeAway(d, o)
    \/ \E o \in emitted : Stage(d, o) \/ Merge(d, o)
    \/ Purge(d) \/ Compact(d) \/ Bootstrap(d)

Spec == Init /\ [][Next]_vars

-----------------------------------------------------------------------------

TypeOK ==
  /\ emitted \subseteq Op
  /\ log \in [Device -> SUBSET Op] /\ merged \in [Device -> SUBSET Op]
  /\ book \in [Device -> Row]
  /\ provenance \in [Device -> [rating : 0 .. MaxHlc, status : 0 .. MaxHlc]]
  /\ progress \in [Device -> SUBSET Page]
  /\ snapshot.row \in Row /\ snapshot.progress \subseteq Page
  /\ snapshot = NoSnapshot \/ snapshot.row.state # "none"
  /\ gone \in [Device -> BOOLEAN]
  /\ \A d \in Device : merged[d] \subseteq log[d] /\ log[d] \subseteq emitted
  /\ \A d \in Device :
       ~HasRow(d) => provenance[d] = NoProvenance /\ progress[d] = {}

(***************************************************************************)
(* "Last-write-wins per field, using HLC": whatever order ops come in, how *)
(* often they are replayed, and whatever snapshot the row came from, a     *)
(* live book has the rating of the newest op that set it, so devices that  *)
(* have merged the same ops agree.  It takes the provenance a local write  *)
(* leaves as much as the comparison in the merge.                          *)
(***************************************************************************)
RatingIsNewest ==
  \A d \in Device : Live(d) /\ ~gone[d] =>
    \A o \in merged[d] :
      SetsRating(o) /\ (\A q \in merged[d] : SetsRating(q) => q.hlc <= o.hlc)
        => book[d].rating = o.rating

(***************************************************************************)
(* A delete is final: no later update, replayed create or snapshot brings  *)
(* the book back on a device that has merged or made a delete, unless it   *)
(* has removed the row for good, tombstone and all.                        *)
(***************************************************************************)
DeletedStaysDeleted ==
  \A d \in Device : Live(d) /\ ~gone[d] => \A o \in merged[d] : o.kind # "delete"

(***************************************************************************)
(* Progress is "monotonic": a device may drop entries, but some entry it   *)
(* keeps is at least as high as every one it has merged.                   *)
(***************************************************************************)
HighestProgressKept ==
  \A d \in Device : ~gone[d] =>
    \A o \in merged[d] : o.kind = "progress" => \E v \in progress[d] : o.page <= v

(***************************************************************************)
(* apply_op is "idempotent - applying the same op twice produces the same  *)
(* result", even with other ops in between: replaying an op, as a          *)
(* bootstrap with --reset-cursor does, changes neither the rating, nor     *)
(* whether the book is deleted, nor its progress.                          *)
(***************************************************************************)
ReplayIsHarmless ==
  [][\A d \in Device : ~gone[d] =>
       \A o \in merged[d] : Merge(d, o) =>
         /\ book'[d].state = book[d].state
         /\ book'[d].rating = book[d].rating
         /\ progress'[d] = progress[d]]_vars

-----------------------------------------------------------------------------
(* What the merge rules promise and the code does not keep. *)

(***************************************************************************)
(* "Last-write-wins per field" for the status: two devices that have both  *)
(* merged every op show the same status.                                   *)
(***************************************************************************)
StatusConverges ==
  \A d, e \in Device :
    Live(d) /\ Live(e) /\ ~gone[d] /\ ~gone[e] /\ merged[d] = emitted /\ merged[e] = emitted
      => book[d].status = book[e].status

=============================================================================
