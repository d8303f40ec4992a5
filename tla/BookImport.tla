------------------------------ MODULE BookImport ------------------------------
(***************************************************************************)
(* Importing books from other programs, undoing an import, and merging the *)
(* duplicates that are left, on devices that sync.                         *)
(*                                                                         *)
(* A row of an export is known again by what the book carries from it on   *)
(* the device that imported it: goodreads_id, calibre_id (both unique), or *)
(* title and author (StoryGraph).  None of these is in a sync op.  An      *)
(* import of a CSV file is one transaction; a Calibre import is one per    *)
(* book, after it has read the ids that are there.  The others merge the   *)
(* log of a device in its order, and an op after those that its device had *)
(* merged: pages are in the order of timestamps, and an op's is past those *)
(* (late ops are the subject of SyncRelay, fields that of BookMerge).      *)
(***************************************************************************)
EXTENDS Naturals, Sequences, FiniteSets, SequencesExt

CONSTANTS
  Machine,
  Goodreads, Calibre, StoryGraph, \* the rows of the three exports
  MaxBooks,                       \* bound on the books ever made
  MaxImports,                     \* bound on the imports
  MaxChanges                      \* bound on what the user does between them

ASSUME ImportAssumption ==
  /\ {MaxBooks, MaxImports, MaxChanges} \subseteq Nat
  /\ IsFiniteSet(Goodreads) /\ IsFiniteSet(Calibre) /\ IsFiniteSet(StoryGraph)

VARIABLES
  made,      \* made[b]: where the book b comes from
  book,      \* book[d][b]: its row on d
  ids,       \* ids[d][b]: the rows of exports that b is known as on d
  logged,    \* logged[d]: the rows of import_books on d
  held,      \* held[d]: the books with a note, a review or a file, which does not cascade
  sent,      \* sent[d]: the book ops of d, and what d had merged before a delete
  merged,    \* merged[d][e]: how many of the ops of e d has merged
  walk,      \* walk[d]: the Calibre import that runs on d
  imports,   \* the imports so far
  changes,   \* what the user has attached, deleted, merged and undone so far
  covers,    \* history: covers[b]: the rows that b stands for
  heirs,     \* history: the <<i, b>> that a merge of books has added to a log
  discarded, \* history: the rows that the user has deleted or undone
  crossed,   \* history: merged into a book that another device no longer has
  recurring  \* history: imported twice, undone, or merged away

importVars == <<made, book, ids, logged, held, sent, merged, walk, imports,
                changes, covers, heirs, discarded, crossed, recurring>>

ExportRow == Goodreads \cup Calibre \cup StoryGraph
Volume == 1 .. MaxBooks
ImportNo == 1 .. MaxImports
Standing == [import |-> 0, todo |-> {}, known |-> {}]

ImportInit ==
  /\ made = <<>>
  /\ book = [d \in Machine |-> [b \in Volume |-> "none"]]
  /\ ids = [d \in Machine |-> [b \in Volume |-> {}]]
  /\ logged = [d \in Machine |-> {}] /\ held = [d \in Machine |-> {}]
  /\ sent = [d \in Machine |-> <<>>] /\ merged = [d \in Machine |-> [e \in Machine |-> 0]]
  /\ walk = [d \in Machine |-> Standing]
  /\ imports = 0 /\ changes = 0
  /\ covers = [b \in Volume |-> {}]
  /\ heirs = {} /\ discarded = {} /\ crossed = {} /\ recurring = {}

OnShelf(d, b) == book[d][b] = "live"

\* A create says nothing of other books, so that what came before it is left out.
CreateOp(b) == [type |-> "create", book |-> b, after |-> [e \in Machine |-> 0]]
DeleteOp(d, b) == [type |-> "delete", book |-> b, after |-> merged[d]]

\* The books of which d has been told, or has told.
Arrived(d) ==
  {b \in 1 .. Len(made) :
     made[b].by = d \/ \E n \in 1 .. merged[d][made[b].by] :
       sent[made[b].by][n].type = "create" /\ sent[made[b].by][n].book = b}

\* A book that is deleted is known as before, until it is purged.
Here(d) == UNION {ids[d][b] : b \in Volume}

\* The import i of d, or the user if 0, makes a book of each row.
MakeBooks(d, i, rows) ==
  LET new == SetToSeq(rows)  n == Len(made)
      at(b) == new[b - n]
      range == n + 1 .. n + Len(new)
  IN
  /\ n + Len(new) <= MaxBooks
  /\ made' = made \o [k \in 1 .. Len(new) |-> [by |-> d, row |-> new[k], import |-> i]]
  /\ book' = [book EXCEPT ![d] = [b \in Volume |-> IF b \in range THEN "live" ELSE @[b]]]
  /\ ids' = [ids EXCEPT ![d] = [b \in Volume |-> IF b \in range THEN {at(b)} ELSE @[b]]]
  /\ covers' = [b \in Volume |-> IF b \in range THEN {at(b)} ELSE covers[b]]
  /\ sent' = [sent EXCEPT ![d] = @ \o [k \in 1 .. Len(new) |-> CreateOp(n + k)]]
  /\ recurring' = recurring \cup {r \in rows : \E b \in 1 .. n : r \in covers[b] /\ made[b].by # d}

-----------------------------------------------------------------------------
(* The user's own writes. *)

\* A book of one's own with the title and the author of a StoryGraph row.
CreateBook(d, r) ==
  /\ r \notin Here(d)
  /\ MakeBooks(d, 0, {r})
  /\ UNCHANGED <<changes, logged, held, merged, walk, imports, heirs, discarded, crossed>>

UserChange == changes < MaxChanges /\ changes' = changes + 1

Attach(d, b) ==
  /\ UserChange
  /\ OnShelf(d, b) /\ b \notin held[d]
  /\ held' = [held EXCEPT ![d] = @ \cup {b}]
  /\ UNCHANGED <<made, book, ids, logged, sent, merged, walk, imports, covers,
                 heirs, discarded, crossed, recurring>>

SendDelete(d, b) == sent' = [sent EXCEPT ![d] = Append(@, DeleteOp(d, b))]

DeleteBook(d, b) ==
  /\ UserChange
  /\ OnShelf(d, b)
  /\ book' = [book EXCEPT ![d][b] = "dead"]
  /\ SendDelete(d, b)
  /\ discarded' = discarded \cup covers[b]
  /\ UNCHANGED <<made, ids, logged, held, merged, walk, imports, covers, heirs,
                 crossed, recurring>>

\* The DELETE of rows of books cascades to their ids and to import_books, and is
\* refused if anything is attached to one of them.
RowsGone(d, bs) ==
  /\ bs \cap held[d] = {}
  /\ book' = [book EXCEPT ![d] = [b \in Volume |-> IF b \in bs THEN "none" ELSE @[b]]]
  /\ ids' = [ids EXCEPT ![d] = [b \in Volume |-> IF b \in bs THEN {} ELSE @[b]]]

\* Each column moves only to a book without, while the book that has it is still
\* there: it is unique, so that merge fails.
ColumnsAllow(d, keep, removed) ==
  \A column \in {Goodreads, Calibre} :
    ids[d][removed] \cap column # {} => ids[d][keep] \cap column # {}

\* merge_books.
MergeBooks(d, keep, removed) ==
  LET moved == {i \in ImportNo : <<i, removed>> \in logged[d]} IN
  /\ UserChange
  /\ keep # removed /\ OnShelf(d, keep) /\ OnShelf(d, removed)
  /\ ColumnsAllow(d, keep, removed)
  /\ RowsGone(d, {removed})
  /\ logged' = [logged EXCEPT ![d] =
       {l \in @ : l[2] # removed} \cup {<<i, keep>> : i \in moved}]
  /\ SendDelete(d, removed)
  /\ covers' = [covers EXCEPT ![keep] = @ \cup covers[removed]]
  /\ heirs' = heirs \cup {<<i, keep>> : i \in moved}
  /\ crossed' = IF \E e \in Machine \ {d} : keep \in Arrived(e) /\ ~OnShelf(e, keep)
                THEN crossed \cup covers[removed] ELSE crossed
  /\ recurring' = recurring \cup covers[removed]
  /\ UNCHANGED <<made, held, merged, walk, imports, discarded>>

-----------------------------------------------------------------------------
(* Importing. *)

\* A faulty Recorded, to validate RowsAreCovered: books that were there and only
\* get tags are recorded as the import's too.
RecordedAll(d, i, rows, first) ==
  {<<i, b>> : b \in {b \in Volume : (b > first /\ b <= first + Cardinality(rows \ Here(d)))
                                   \/ ids[d][b] \cap rows # {}}}

\* The rows of import_books: the books that the import has made.
Recorded(d, i, rows, first) ==
  {<<i, b>> : b \in first + 1 .. first + Cardinality(rows \ Here(d))}

\* A faulty Unknown, to validate OneCopyPerRow: only the unique ids are looked up.
UnknownIds(d, rows) == rows \ (Here(d) \ StoryGraph)

Unknown(d, rows) == rows \ Here(d)

\* The rows of a CSV file, in one transaction.
ImportCsv(d, rows) ==
  /\ imports < MaxImports /\ imports' = imports + 1
  /\ MakeBooks(d, imports', Unknown(d, rows))
  /\ logged' = [logged EXCEPT ![d] = @ \cup Recorded(d, imports', rows, Len(made))]
  /\ UNCHANGED <<changes, held, merged, walk, heirs, discarded, crossed>>

ImportGoodreads(d, rows) == rows # {} /\ rows \subseteq Goodreads /\ ImportCsv(d, rows)

ImportStoryGraph(d, rows) == rows # {} /\ rows \subseteq StoryGraph /\ ImportCsv(d, rows)

\* import_calibre.
CalibreBegin(d) ==
  /\ walk[d] = Standing
  /\ imports < MaxImports /\ imports' = imports + 1
  /\ walk' = [walk EXCEPT ![d] = [import |-> imports', todo |-> Calibre, known |-> Here(d)]]
  /\ UNCHANGED <<changes, made, book, ids, logged, held, sent, merged, covers, heirs,
                 discarded, crossed, recurring>>

\* A book whose id has come in the meantime is refused by the index.
CalibreBook(d, r) ==
  /\ r \in walk[d].todo
  /\ walk' = [walk EXCEPT ![d].todo = @ \ {r}]
  /\ \/ /\ r \in walk[d].known \cup Here(d)
        /\ UNCHANGED <<made, book, ids, logged, sent, covers, recurring>>
     \/ /\ r \notin walk[d].known \cup Here(d)
        /\ MakeBooks(d, walk[d].import, {r})
        /\ logged' = [logged EXCEPT ![d] = @ \cup {<<walk[d].import, Len(made')>>}]
  /\ UNCHANGED <<changes, held, merged, imports, heirs, discarded, crossed>>

\* It is done, or it dies: what it has made stays.
CalibreEnds(d) ==
  /\ walk[d] # Standing
  /\ walk' = [walk EXCEPT ![d] = Standing]
  /\ UNCHANGED <<changes, made, book, ids, logged, held, sent, merged, imports, covers,
                 heirs, discarded, crossed, recurring>>

\* undo_import.  It emits no op.
UndoImport(d, i) ==
  LET bs == {b \in Volume : <<i, b>> \in logged[d]} IN
  /\ bs # {} /\ walk[d].import # i /\ UserChange
  /\ RowsGone(d, bs)
  /\ logged' = [logged EXCEPT ![d] = {l \in @ : l[2] \notin bs}]
  /\ discarded' = discarded \cup
       UNION {covers[b] : b \in {b \in bs : made[b].import = i \/ <<i, b>> \in heirs}}
  /\ recurring' = recurring \cup UNION {covers[b] : b \in bs}
  /\ UNCHANGED <<made, held, sent, merged, walk, imports, covers, heirs, crossed>>

\* d merges the next op of e: a book that has no row gets one, known as nothing;
\* a live book gets a tombstone.
PullBook(d, e) ==
  /\ d # e /\ merged[d][e] < Len(sent[e])
  /\ merged' = [merged EXCEPT ![d][e] = @ + 1]
  /\ LET op == sent[e][merged'[d][e]] IN
       /\ \A f \in Machine \ {d} : op.after[f] <= merged[d][f]
       /\ book' = [book EXCEPT ![d][op.book] =
                     IF op.type = "create" /\ @ = "none" THEN "live"
                     ELSE IF op.type = "delete" /\ @ = "live" THEN "dead" ELSE @]
  /\ UNCHANGED <<changes, made, ids, logged, held, sent, walk, imports, covers, heirs,
                 discarded, crossed, recurring>>

ImportNext ==
  \E d \in Machine :
    \/ \E r \in StoryGraph : CreateBook(d, r)
    \/ \E b \in Volume : Attach(d, b) \/ DeleteBook(d, b)
    \/ \E keep, removed \in Volume : MergeBooks(d, keep, removed)
    \/ \E rows \in SUBSET Goodreads : ImportGoodreads(d, rows)
    \/ \E rows \in SUBSET StoryGraph : ImportStoryGraph(d, rows)
    \/ CalibreBegin(d) \/ CalibreEnds(d) \/ \E r \in Calibre : CalibreBook(d, r)
    \/ \E i \in ImportNo : UndoImport(d, i)
    \/ \E e \in Machine : PullBook(d, e)

ImportSpec == ImportInit /\ [][ImportNext]_importVars

-----------------------------------------------------------------------------

ImportTypeOK ==
  /\ made \in Seq([by : Machine, row : ExportRow, import : 0 .. MaxImports])
  /\ book \in [Machine -> [Volume -> {"none", "live", "dead"}]]
  /\ ids \in [Machine -> [Volume -> SUBSET ExportRow]]
  /\ logged \in [Machine -> SUBSET (ImportNo \X Volume)] /\ held \in [Machine -> SUBSET Volume]
  /\ merged \in [Machine -> [Machine -> Nat]]
  /\ sent \in [Machine -> Seq([type : {"create", "delete"}, book : Volume,
                               after : [Machine -> Nat]])]
  /\ walk \in [Machine -> [import : 0 .. MaxImports, todo : SUBSET Calibre, known : SUBSET ExportRow]]
  /\ imports \in 0 .. MaxImports /\ changes \in 0 .. MaxChanges
  /\ covers \in [Volume -> SUBSET ExportRow] /\ heirs \subseteq ImportNo \X Volume
  /\ discarded \cup crossed \cup recurring \subseteq ExportRow

(***************************************************************************)
(* What was imported on one device is, wherever it has come to, a book     *)
(* there, under its own name or as the one it was merged into, until the   *)
(* user deletes that book or undoes the import: an undo takes no other     *)
(* book, and no order of merges and pulls loses one.  Except: merged into  *)
(* a book that another device has merged away, deleted or undone; and an   *)
(* undo of an import one of whose books was merged into another's.         *)
(***************************************************************************)
RowsAreCovered ==
  \A d \in Machine : \A b \in Arrived(d) :
    made[b].row \notin discarded \cup crossed =>
      \E k \in Volume : OnShelf(d, k) /\ made[b].row \in covers[k]

(***************************************************************************)
(* Importing again, from the same export or a newer one, makes no second   *)
(* copy of a book on any device.  Except: a row that two devices have      *)
(* imported; one whose import was undone, of which the other devices are   *)
(* not told; and one whose book was merged into another, which is then no  *)
(* longer known by it.                                                     *)
(***************************************************************************)
OneCopyPerRow ==
  \A d \in Machine : \A r \in ExportRow \ recurring :
    Cardinality({b \in Volume : OnShelf(d, b) /\ r \in covers[b]}) <= 1

(***************************************************************************)
(* Imports, merges, undos and pulls leave a row of an export as one book:  *)
(* none is lost and none is there twice.                                   *)
(***************************************************************************)
ImportIsConsistent == RowsAreCovered /\ OneCopyPerRow

=============================================================================
