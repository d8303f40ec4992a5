---------------------------- MODULE DocumentMerge ----------------------------
(***************************************************************************)
(* One note of a book: merge_note of the merge engine, and the conflicts   *)
(* it stores for the user to resolve.  One text stands for the content of  *)
(* a note and for each of the two fields of a review, which have their own *)
(* timestamps in sync_entity_hlc and are merged by the same rules.         *)
(*                                                                         *)
(* No program of this repository edits notes or reviews yet: the only ops  *)
(* it emits for them are resolutions.  The edits come from clients outside *)
(* (Editor), in any order and any number of times (SyncRelay).             *)
(***************************************************************************)
EXTENDS SyncEntity, FiniteSets, Sequences

CONSTANTS
  Reader,   \* the devices that run the programs of this repository
  Editor,   \* the devices with an editor, other than those of Reader
  Text,     \* what an edit may write
  MaxEdits, \* bound on the edits
  MaxResolutions,  \* bound on the conflicts resolved
  MaxTears  \* bound on the merges that die half way

ASSUME DocumentAssumption ==
  /\ Reader \cap Editor = {}
  /\ "none" \notin Text  \* NoText
  /\ MaxEdits \in Nat /\ MaxResolutions \in Nat /\ MaxTears \in Nat

VARIABLES
  docOps,     \* every op emitted about the note
  doc,        \* doc[d]: the row, and its row of sync_entity_hlc
  conflicts,  \* conflicts[d]: the rows of sync_conflicts, oldest first
  sweep,      \* sweep[d]: the positions of the conflicts that a running resolve_all
              \* has still to apply
  docMerged,  \* history: the ops d has made or merged into its row
  behind,     \* history: a resolution took a timestamp not past its author's ops
  torn,       \* history: torn[d]: the merges that died between two statements,
              \* with the text whose conflict was not stored
  cut,        \* history: a resolution died between two of its statements
  resolutions \* what the bound counts

docVars == <<docOps, doc, conflicts, sweep, docMerged, torn, behind, cut, resolutions>>

NoText == "none"

DocOp ==
  {o \in [hlc : Hlc, dev : Reader \cup Editor, kind : {"create", "update", "delete"},
          text : Text \cup {NoText}] : o.kind = "delete" <=> o.text = NoText}

\* stamp and by are NULL (0 and "none") until the first update: neither the
\* merge of a create nor a snapshot records them.
NoDoc == [state |-> "none", text |-> NoText, stamp |-> 0, by |-> "none"]

\* A row of sync_conflicts, identified by the remote timestamp.  History: whether
\* the user has chosen a text for it, and whether a resolve_all was running when
\* it was stored.
Conflict == [local : Text, remote : Text, stamp : Hlc, resolved : BOOLEAN,
             decided : BOOLEAN, raced : BOOLEAN]

Live(d) == doc[d].state = "live"

Rows(d) == {conflicts[d][i] : i \in DOMAIN conflicts[d]}
Open(d) == {i \in DOMAIN conflicts[d] : ~conflicts[d][i].resolved}

NoSweep == [running |-> FALSE, side |-> "local", rows |-> {}]

DocInit ==
  /\ docOps = {}
  /\ doc = [d \in Reader |-> NoDoc]
  /\ conflicts = [d \in Reader |-> << >>]
  /\ sweep = [d \in Reader |-> NoSweep]
  /\ docMerged = [d \in Reader |-> {}]
  /\ torn = [d \in Reader |-> {}]
  /\ behind = FALSE /\ cut = FALSE /\ resolutions = 0

-----------------------------------------------------------------------------
(* Edits elsewhere. *)

\* Past what the editor wrote before, and past the create, which it knows.
Edit(o) ==
  /\ o.dev \in Editor
  /\ Cardinality({q \in docOps : q.dev \in Editor}) < MaxEdits
  /\ o.kind = "create" <=> docOps = {}
  /\ \A q \in docOps : q.hlc # o.hlc /\ (q.dev = o.dev \/ q.kind = "create" => q.hlc < o.hlc)
  /\ docOps' = docOps \cup {o}
  /\ UNCHANGED <<doc, conflicts, sweep, docMerged, torn, behind, cut, resolutions>>

-----------------------------------------------------------------------------
(* Pulled ops. *)

\* A faulty StoreConflict, to validate DocTypeOK: INSERT without the unique index.
StoreConflictAgain(d, o) ==
  conflicts' = [conflicts EXCEPT ![d] =
    IF Len(@) >= 3 THEN @
    ELSE Append(@, [local |-> doc[d].text, remote |-> o.text, stamp |-> o.hlc,
                    resolved |-> FALSE, decided |-> FALSE, raced |-> sweep[d].running])]

\* store_conflict: INSERT OR IGNORE, unique in the remote timestamp.
StoreConflict(d, o) ==
  conflicts' = [conflicts EXCEPT ![d] =
    IF \E c \in Rows(d) : c.stamp = o.hlc THEN @
    ELSE Append(@, [local |-> doc[d].text, remote |-> o.text, stamp |-> o.hlc,
                    resolved |-> FALSE, decided |-> FALSE, raced |-> sweep[d].running])]

\* "Genuine conflict (different device edited)".
Conflicting(d, o) ==
  doc[d].stamp # 0 /\ doc[d].by # o.dev /\ doc[d].text # o.text

\* merge_note_create of an unknown note: no timestamp is recorded.
MergeNew(d, o) ==
  /\ o.kind = "create" /\ doc[d].state = "none"
  /\ doc' = [doc EXCEPT ![d] = [state |-> "live", text |-> o.text, stamp |-> 0, by |-> "none"]]
  /\ UNCHANGED conflicts

\* A faulty MergeNewer, to validate DocumentIsNewest and ReplayKeepsText: the
\* timestamp is not recorded.
MergeNewerUnstamped(d, o) ==
  /\ o.kind # "delete" /\ Live(d) /\ o.hlc > doc[d].stamp
  /\ doc' = [doc EXCEPT ![d] = [state |-> "live", text |-> o.text, stamp |-> @.stamp, by |-> @.by]]
  /\ IF Conflicting(d, o) THEN StoreConflict(d, o) ELSE UNCHANGED conflicts

\* merge_note_update, and merge_note_create of a known note.
MergeNewer(d, o) ==
  /\ o.kind # "delete" /\ Live(d) /\ o.hlc > doc[d].stamp
  /\ doc' = [doc EXCEPT ![d] = [state |-> "live", text |-> o.text, stamp |-> o.hlc, by |-> o.dev]]
  /\ IF Conflicting(d, o) THEN StoreConflict(d, o) ELSE UNCHANGED conflicts

\* A faulty MergeOlder, to validate BothVersionsStored: an older op is skipped
\* without a trace.
MergeOlderSilently(d, o) ==
  /\ o.kind # "delete" /\ Live(d) /\ o.hlc <= doc[d].stamp
  /\ UNCHANGED <<doc, conflicts>>

MergeOlder(d, o) ==
  /\ o.kind # "delete" /\ Live(d) /\ o.hlc <= doc[d].stamp
  /\ IF Conflicting(d, o) THEN StoreConflict(d, o) ELSE UNCHANGED conflicts
  /\ UNCHANGED doc

\* merge_note_delete, and any op on a deleted note.
MergeGone(d, o) ==
  /\ \/ o.kind = "delete" /\ doc[d].state # "none"
     \/ doc[d].state = "deleted"
  /\ doc' = [doc EXCEPT ![d] = [state |-> "deleted", text |-> @.text, stamp |-> @.stamp, by |-> @.by]]
  /\ UNCHANGED conflicts

\* Without a row an update or a delete is skipped and nothing is merged.
MergeDoc(d, o) ==
  /\ o.dev # d
  /\ \/ MergeNew(d, o) \/ MergeNewer(d, o) \/ MergeOlder(d, o) \/ MergeGone(d, o)
  /\ docMerged' = [docMerged EXCEPT ![d] = @ \cup {o}]
  /\ UNCHANGED <<docOps, sweep, torn, behind, cut, resolutions>>

\* The three statements of MergeNewer are not in a transaction.  A process that
\* dies has written the text, or its timestamp too, but no conflict; the cursor
\* has not moved, so the op will be merged again.
MergeDies(d, o, done) ==
  /\ o.dev # d /\ o.kind # "delete" /\ Live(d) /\ o.hlc > doc[d].stamp
  /\ Cardinality(torn[d]) < MaxTears
  /\ doc' = [doc EXCEPT ![d] =
       [state |-> "live", text |-> o.text,
        stamp |-> IF done = 2 THEN o.hlc ELSE @.stamp,
        by |-> IF done = 2 THEN o.dev ELSE @.by]]
  /\ torn' = [torn EXCEPT ![d] =
       @ \cup {[op |-> o, lost |-> IF Conflicting(d, o) THEN doc[d].text ELSE NoText]}]
  /\ UNCHANGED <<docOps, conflicts, sweep, docMerged, behind, cut, resolutions>>

-----------------------------------------------------------------------------
(* Resolutions. *)

\* apply_resolution: a clock of its own, not seeded by the log, so the timestamp
\* is any that no other device has taken.  Four statements, each committed by
\* itself: the text, its timestamp, the op, and the conflict marked by the
\* caller.  A process that dies has executed the first "done" of them.
Apply(d, hlc, text, done) ==
  LET op == [hlc |-> hlc, dev |-> d, kind |-> "update", text |-> text]
  IN  /\ resolutions < MaxResolutions /\ resolutions' = resolutions + 1
      /\ \A q \in docOps : q.dev # d => q.hlc # hlc
      /\ doc' = [doc EXCEPT ![d] =
           [state |-> @.state, text |-> text,
            stamp |-> IF done >= 2 THEN hlc ELSE @.stamp,
            by |-> IF done >= 2 THEN d ELSE @.by]]
      /\ docOps' = IF done >= 3 THEN docOps \cup {op} ELSE docOps
      /\ docMerged' = [docMerged EXCEPT ![d] = IF done >= 3 THEN @ \cup {op} ELSE @]
      /\ behind' = (behind \/ \E q \in docMerged[d] : q.hlc >= hlc)
      /\ cut' = (cut \/ done < 3)
      /\ UNCHANGED torn

\* The rows with these stamps after the user has chosen for them, or they have
\* been marked.
Decide(d, stamps) ==
  [i \in DOMAIN conflicts[d] |->
     [conflicts[d][i] EXCEPT !.decided = @ \/ conflicts[d][i].stamp \in stamps]]
\* A faulty Mark, to validate ResolvedWasDecided: without its WHERE clause.
MarkEvery(rows, stamps) ==
  [i \in DOMAIN rows |-> [rows[i] EXCEPT !.resolved = @ \/ stamps # {}]]
Mark(rows, stamps) ==
  [i \in DOMAIN rows |-> [rows[i] EXCEPT !.resolved = @ \/ rows[i].stamp \in stamps]]

\* resolve_conflict and resolve_conflict_with_value: one side, or any text.
Resolve(d, hlc, text, done) ==
  /\ Apply(d, hlc, text, done)
  /\ \E c \in Rows(d) :
       /\ ~c.resolved
       /\ conflicts' = [conflicts EXCEPT ![d] =
            Mark(Decide(d, {c.stamp}), IF done = 4 THEN {c.stamp} ELSE {})]
  /\ UNCHANGED sweep

\* resolve_all_conflicts: reads the open conflicts, applies them one by one, the
\* oldest first, then marks every open conflict there is.
SweepBegin(d, side) ==
  /\ ~sweep[d].running /\ Open(d) # {}
  /\ sweep' = [sweep EXCEPT ![d] = [running |-> TRUE, side |-> side, rows |-> Open(d)]]
  /\ UNCHANGED <<docOps, doc, conflicts, docMerged, torn, behind, cut, resolutions>>

SweepApply(d, hlc, done) ==
  \E i \in sweep[d].rows :
    /\ \A j \in sweep[d].rows : i <= j
    /\ Apply(d, hlc, conflicts[d][i][sweep[d].side], done)
    /\ conflicts' = [conflicts EXCEPT ![d] = Decide(d, {conflicts[d][i].stamp})]
    /\ sweep' = [sweep EXCEPT ![d] =
         IF done >= 3 THEN [running |-> TRUE, side |-> @.side, rows |-> @.rows \ {i}] ELSE NoSweep]

SweepMark(d) ==
  /\ sweep[d].running /\ sweep[d].rows = {}
  /\ conflicts' = [conflicts EXCEPT ![d] = Mark(@, {c.stamp : c \in Rows(d)})]
  /\ sweep' = [sweep EXCEPT ![d] = NoSweep]
  /\ UNCHANGED <<docOps, doc, docMerged, torn, behind, cut, resolutions>>

SweepDies(d) ==
  /\ sweep[d].running
  /\ sweep' = [sweep EXCEPT ![d] = NoSweep]
  /\ UNCHANGED <<docOps, doc, conflicts, docMerged, torn, behind, cut, resolutions>>

-----------------------------------------------------------------------------

DocNext ==
  \/ \E o \in DocOp : Edit(o)
  \/ \E d \in Reader :
       \/ \E o \in docOps : MergeDoc(d, o) \/ \E done \in 1 .. 2 : MergeDies(d, o, done)
       \/ \E hlc \in Hlc, text \in Text, done \in 1 .. 4 : Resolve(d, hlc, text, done)
       \/ \E hlc \in Hlc, done \in 1 .. 3 : SweepApply(d, hlc, done)
       \/ \E side \in {"local", "remote"} : SweepBegin(d, side)
       \/ SweepMark(d) \/ SweepDies(d)

DocSpec == DocInit /\ [][DocNext]_docVars

-----------------------------------------------------------------------------

DocTypeOK ==
  /\ docOps \subseteq DocOp
  /\ docMerged \in [Reader -> SUBSET DocOp]
  /\ \A d \in Reader : docMerged[d] \subseteq docOps
  /\ \A d \in Reader :
       /\ doc[d].state \in {"none", "live", "deleted"}
       /\ doc[d].text \in Text \cup {NoText}
       /\ doc[d].stamp \in 0 .. MaxHlc
       /\ doc[d].by \in Reader \cup Editor \cup {"none"}
       /\ conflicts[d] \in Seq(Conflict) /\ sweep[d].rows \subseteq DOMAIN conflicts[d]
       /\ sweep[d].running \in BOOLEAN /\ sweep[d].side \in {"local", "remote"}
       /\ \A i, j \in DOMAIN conflicts[d] : conflicts[d][i].stamp = conflicts[d][j].stamp => i = j
  /\ torn \in [Reader -> SUBSET [op : DocOp, lost : Text \cup {NoText}]]
  /\ behind \in BOOLEAN /\ cut \in BOOLEAN /\ resolutions \in 0 .. MaxResolutions

\* d has merged again every op whose merge died, and no resolution spoils it.
Settled(d) == ~behind /\ ~cut /\ \A t \in torn[d] : t.op \in docMerged[d]

(***************************************************************************)
(* "LWW with conflict detection": a live note has the text of the newest   *)
(* op its device has merged, the user's resolutions among them, so devices *)
(* that have merged the same ops agree.  It fails once a resolution has    *)
(* taken a timestamp that is not past the ops it resolves, or has died     *)
(* half way; a merge that died is made good when the op is merged again.   *)
(***************************************************************************)
DocumentIsNewest ==
  \A d \in Reader : Settled(d) /\ Live(d) =>
    \A o \in Newest({q \in docMerged[d] : q.kind # "delete"}) : doc[d].text = o.text

\* Somebody who wrote o's text has since written something else, or d's user has
\* made a choice.
Superseded(d, o) ==
  \E p, q \in docMerged[d] :
    p.text = o.text /\ p.hlc < q.hlc /\ q.kind = "update" /\ q.dev \in {p.dev, d}

(***************************************************************************)
(* "Store both versions": no edit of another device is lost without a      *)
(* trace.  The text of a merged update is the note's, or one side of a     *)
(* stored conflict, or superseded by its own author or by a resolution on  *)
(* this device.  The one exception is a text that was overwritten by a     *)
(* merge that died: when the op is merged again both texts are the same,   *)
(* and the conflict is never stored.                                       *)
(***************************************************************************)
BothVersionsStored ==
  \A d \in Reader : Settled(d) /\ Live(d) =>
    \A o \in docMerged[d] : o.kind = "update" =>
      \/ doc[d].text = o.text \/ Superseded(d, o)
      \/ \E c \in Rows(d) : o.text \in {c.local, c.remote}
      \/ \E t \in torn[d] : t.lost = o.text

(***************************************************************************)
(* A conflict is marked as resolved only after the user has chosen a text  *)
(* for it, unless it was stored by a pull while a resolve_all was running: *)
(* that one marks conflicts it has never shown.                            *)
(***************************************************************************)
ResolvedWasDecided ==
  \A d \in Reader : \A c \in Rows(d) : c.resolved => c.decided \/ c.raced

(***************************************************************************)
(* Nothing of a conflict is lost: neither a version before it is stored,   *)
(* nor the choice before it is made.                                       *)
(***************************************************************************)
ConflictsAreKept == BothVersionsStored /\ ResolvedWasDecided

(***************************************************************************)
(* "Applying the same op twice produces the same result": replaying a      *)
(* merged op does not change the text.  (It may store a conflict that the  *)
(* first time it had no reason to store.)                                  *)
(***************************************************************************)
ReplayKeepsText ==
  [][\A d \in Reader : Settled(d) /\ doc'[d].text # doc[d].text =>
       \A o \in docMerged[d] : ~MergeDoc(d, o)]_docVars

=============================================================================
