------------------------------ MODULE BookProofs ------------------------------
(***************************************************************************)
(* Theorems about BookMerge, for any number of devices and ops, any        *)
(* ratings and progress values, and any order and repetition of merges;    *)
(* and about FileShelf, for any paths, files, rows and organizers.         *)
(***************************************************************************)
EXTENDS BookMerge, FileShelf, SequenceTheorems, WellFoundedInduction, TLAPS

-----------------------------------------------------------------------------
(*                                BOOKMERGE                                *)

-----------------------------------------------------------------------------
(* Type correctness. *)

(***************************************************************************)
(* The fields an op carries are of their types.                            *)
(***************************************************************************)
LEMMA OpType ==
  ASSUME NEW o \in Op
  PROVE  /\ o.hlc \in 1 .. MaxHlc
         /\ o.rating \in Rating
         /\ SetsStatus(o) => o.status \in Status
         /\ o.kind = "progress" => o.page \in Page
<1>1. CASE o \in OpsWith("create", Rating, Status, {0})
  BY <1>1 DEF OpsWith, SetsStatus
<1>2. CASE o \in OpsWith("rating", Rating, {"none"}, {0})
  BY <1>2 DEF OpsWith, SetsStatus
<1>3. CASE o \in OpsWith("status", {0}, Status, {0})
  BY <1>3, BookMergeAssumption DEF OpsWith, SetsStatus
<1>4. CASE o \in OpsWith("delete", {0}, {"none"}, {0})
  BY <1>4, BookMergeAssumption DEF OpsWith, SetsStatus
<1>5. CASE o \in OpsWith("progress", {0}, {"none"}, Page)
  BY <1>5, BookMergeAssumption DEF OpsWith, SetsStatus
<1> QED
  BY <1>1, <1>2, <1>3, <1>4, <1>5 DEF Op

(***************************************************************************)
(* A row that is there has typed fields.                                   *)
(***************************************************************************)
LEMMA RowType ==
  ASSUME NEW row \in Row, row.state # "none"
  PROVE  row \in [state : {"live", "deleted"}, rating : Rating, status : Status]
  BY DEF Row, NoRow

(***************************************************************************)
(* emit_local_op keeps the types of the log and of what has been merged.   *)
(***************************************************************************)
LEMMA EmitType ==
  ASSUME TypeOK, NEW d \in Device, NEW o \in Op, Emit(d, o)
  PROVE  /\ emitted' \subseteq Op
         /\ log' \in [Device -> SUBSET Op] /\ merged' \in [Device -> SUBSET Op]
         /\ \A e \in Device : merged'[e] \subseteq log'[e] /\ log'[e] \subseteq emitted'
         /\ snapshot' = snapshot
  BY DEF TypeOK, Emit

(***************************************************************************)
(* Every step keeps the types, and the rows that reference the book are    *)
(* there only while it is.                                                 *)
(***************************************************************************)
LEMMA TypeStep == TypeOK /\ [Next]_vars => TypeOK'
<1> SUFFICES ASSUME TypeOK, [Next]_vars PROVE TypeOK'
  OBVIOUS
<1> USE BookMergeAssumption
<1> DEFINE Provenance == [rating : 0 .. MaxHlc, status : 0 .. MaxHlc]
<1>1. ASSUME NEW d \in Device, NEW o \in Op, CreateBook(d, o) PROVE TypeOK'
  <2>1. [state |-> "live", rating |-> o.rating, status |-> o.status] \in Row
    BY <1>1, OpType DEF CreateBook, Row, SetsStatus
  <2>2. Stamped(provenance[d], o, TRUE, TRUE) \in Provenance
    BY OpType DEF Stamped, TypeOK
  <2> QED
    BY <1>1, <2>1, <2>2, EmitType DEF TypeOK, CreateBook, HasRow
<1>2. ASSUME NEW d \in Device, NEW o \in Op, UpdateBook(d, o) PROVE TypeOK'
  <2> DEFINE row == Written(book[d], o, SetsRating(o), SetsStatus(o))
             stamp == Stamped(provenance[d], o, SetsRating(o), SetsStatus(o))
  <2>1. book[d] \in Row /\ book[d].state = "live" /\ provenance[d] \in Provenance
    BY <1>2 DEF TypeOK, UpdateBook, Live
  <2>2. book[d] \in [state : {"live", "deleted"}, rating : Rating, status : Status]
    BY <2>1, RowType
  <2>3. row \in Row /\ row.state = "live" /\ stamp \in Provenance
    BY <2>1, <2>2, OpType DEF Row, Written, Stamped
  <2> HIDE DEF row, stamp
  <2>4. book' = [book EXCEPT ![d] = row] /\ provenance' = [provenance EXCEPT ![d] = stamp]
    BY <1>2 DEF UpdateBook, row, stamp
  <2>5. Emit(d, o) /\ UNCHANGED <<progress, gone>>
    BY <1>2 DEF UpdateBook
  <2> QED
    BY <2>3, <2>4, <2>5, EmitType DEF TypeOK, HasRow
<1>3. ASSUME NEW d \in Device, NEW o \in Op, LogProgress(d, o) PROVE TypeOK'
  BY <1>3, EmitType, OpType DEF TypeOK, LogProgress, HasRow, Live
<1>4. ASSUME NEW d \in Device, NEW o \in Op, DeleteBook(d, o) PROVE TypeOK'
  <2>1. book[d] \in Row /\ book[d].state = "live"
    BY <1>4 DEF TypeOK, DeleteBook, Live
  <2>2. [book[d] EXCEPT !.state = "deleted"] \in Row
    BY <2>1 DEF Row, NoRow
  <2>3. book' = [book EXCEPT ![d] = [book[d] EXCEPT !.state = "deleted"]]
    BY <1>4 DEF DeleteBook
  <2> QED
    BY <1>4, <2>1, <2>2, <2>3, EmitType DEF TypeOK, DeleteBook, HasRow
<1>5. ASSUME NEW d \in Device, RemoveRow(d)
      PROVE  /\ book' \in [Device -> Row]
             /\ provenance' \in [Device -> Provenance]
             /\ progress' \in [Device -> SUBSET Page]
             /\ gone' \in [Device -> BOOLEAN]
             /\ \A e \in Device :
                  ~HasRow(e)' => provenance'[e] = NoProvenance /\ progress'[e] = {}
  <2>1. NoRow \in Row /\ NoProvenance \in Provenance
    BY DEF Row, NoProvenance
  <2> QED
    BY <1>5, <2>1 DEF TypeOK, RemoveRow, HasRow
<1>6. ASSUME NEW d \in Device, NEW o \in Op, MergeAway(d, o) PROVE TypeOK'
  <2>1. Emit(d, o) /\ RemoveRow(d)
    BY <1>6 DEF MergeAway
  <2> QED
    BY <1>5, <2>1, EmitType DEF TypeOK
<1>7. ASSUME NEW d \in Device, Purge(d) PROVE TypeOK'
  <2>1. RemoveRow(d) /\ UNCHANGED <<emitted, log, snapshot, merged>>
    BY <1>7 DEF Purge
  <2> QED
    BY <1>5, <2>1 DEF TypeOK
<1>8. ASSUME NEW d \in Device, NEW o \in emitted, Stage(d, o) PROVE TypeOK'
  BY <1>8 DEF TypeOK, Stage, HasRow
<1>9. ASSUME NEW d \in Device, NEW o \in emitted, Merge(d, o) PROVE TypeOK'
  <2>1. /\ o \in Op
        /\ merged' \in [Device -> SUBSET Op]
        /\ \A e \in Device : merged'[e] \subseteq log'[e] /\ log'[e] \subseteq emitted'
        /\ UNCHANGED <<emitted, log, snapshot, gone>>
    BY <1>9 DEF TypeOK, Merge
  <2> SUFFICES /\ book' \in [Device -> Row]
               /\ provenance' \in [Device -> Provenance]
               /\ progress' \in [Device -> SUBSET Page]
               /\ \A e \in Device :
                    ~HasRow(e)' => provenance'[e] = NoProvenance /\ progress'[e] = {}
    BY <2>1 DEF TypeOK
  <2>2. CASE MergeCreate(d, o)
    <3>1. [state |-> "live", rating |-> o.rating, status |-> o.status] \in Row
      BY <2>1, <2>2, OpType DEF MergeCreate, Row, SetsStatus
    <3>2. Stamped(provenance[d], o, TRUE, TRUE) \in Provenance
      BY <2>1, OpType DEF Stamped, TypeOK
    <3> QED
      BY <2>2, <3>1, <3>2 DEF TypeOK, MergeCreate, HasRow
  <2>3. CASE MergeUpdate(d, o)
    <3> DEFINE row == Written(book[d], o, TakesRating(d, o), TakesStatus(d, o))
               stamp == Stamped(provenance[d], o, TakesRating(d, o), TakesStatus(d, o))
    <3>1. TakesStatus(d, o) => SetsStatus(o)
      BY DEF TakesStatus
    <3>2. book[d] \in Row /\ book[d].state = "live" /\ provenance[d] \in Provenance
      BY <2>3 DEF TypeOK, MergeUpdate, Live
    <3>5. book[d] \in [state : {"live", "deleted"}, rating : Rating, status : Status]
      BY <3>2, RowType
    <3>3. row \in Row /\ row.state = "live" /\ stamp \in Provenance
      BY <2>1, <3>1, <3>2, <3>5, OpType DEF Row, Written, Stamped
    <3> HIDE DEF row, stamp
    <3>4. /\ book' = [book EXCEPT ![d] = row]
          /\ provenance' = [provenance EXCEPT ![d] = stamp]
          /\ UNCHANGED progress
      BY <2>3 DEF MergeUpdate, row, stamp
    <3> QED
      BY <3>3, <3>4 DEF TypeOK, HasRow
  <2>4. CASE MergeDelete(d, o)
    <3>1. book[d] \in Row /\ book[d].state # "none"
      BY <2>4 DEF TypeOK, MergeDelete, HasRow
    <3>2. [book[d] EXCEPT !.state = "deleted"] \in Row
      BY <3>1 DEF Row, NoRow
    <3>3. book' = [book EXCEPT ![d] = [book[d] EXCEPT !.state = "deleted"]]
      BY <2>4 DEF MergeDelete
    <3> QED
      BY <2>4, <3>1, <3>2, <3>3 DEF TypeOK, MergeDelete, HasRow
  <2>5. CASE MergeProgress(d, o)
    BY <2>1, <2>5, OpType DEF TypeOK, MergeProgress, HasRow
  <2>6. CASE MergeSkipped(d, o)
    BY <2>6 DEF TypeOK, MergeSkipped, HasRow
  <2> QED
    BY <1>9, <2>2, <2>3, <2>4, <2>5, <2>6 DEF Merge
<1>10. ASSUME NEW d \in Device, Compact(d) PROVE TypeOK'
  BY <1>10 DEF TypeOK, Compact, HasRow
<1>11. ASSUME NEW d \in Device, Bootstrap(d) PROVE TypeOK'
  <2>1. /\ book' \in [Device -> Row]
        /\ progress' \in [Device -> SUBSET Page]
    BY <1>11 DEF TypeOK, Bootstrap, RowAfterSnapshot
  <2>2. UNCHANGED <<emitted, log, provenance, snapshot, merged, gone>>
    BY <1>11 DEF Bootstrap
  <2>3. ASSUME NEW e \in Device, ~HasRow(e)'
        PROVE  provenance'[e] = NoProvenance /\ progress'[e] = {}
    <3>1. ~HasRow(e) /\ (e = d => snapshot.row.state = "none")
      BY <1>11, <2>3 DEF TypeOK, Bootstrap, RowAfterSnapshot, HasRow
    <3> QED
      BY <1>11, <2>2, <3>1 DEF TypeOK, Bootstrap
  <2> QED
    BY <2>1, <2>2, <2>3 DEF TypeOK
<1>12. CASE UNCHANGED vars
  BY <1>12 DEF TypeOK, vars, HasRow
<1>13. emitted \subseteq Op
  BY DEF TypeOK
<1> QED
  BY <1>1, <1>2, <1>3, <1>4, <1>6, <1>7, <1>8, <1>9, <1>10, <1>11, <1>12, <1>13 DEF Next

(***************************************************************************)
(* The variables of BookMerge keep their types, whatever is merged, purged *)
(* or restored; nothing references a book that is not there.               *)
(***************************************************************************)
THEOREM TypeCorrect == Spec => []TypeOK
<1>1. Init => TypeOK
  BY BookMergeAssumption
  DEF Init, TypeOK, Row, NoRow, NoProvenance, NoSnapshot, HasRow
<1> QED
  BY <1>1, TypeStep, PTL DEF Spec

-----------------------------------------------------------------------------
(* The inductive invariant. *)

\* A timestamp names one op.
UniqueHlc == \A o, q \in emitted : o.hlc = q.hlc => o = q

\* What has been merged was merged into the row that is there.
MergedHasRow(d) == merged[d] # {} => HasRow(d) \/ gone[d]

\* The provenance of a live row is the newest op that sets the rating, and the
\* rating is that op's.  A row from a snapshot has no provenance.
RatingProvenance(d) ==
  Live(d) /\ ~gone[d] =>
    /\ \A o \in merged[d] : SetsRating(o) => o.hlc <= provenance[d].rating
    /\ provenance[d].rating # 0 =>
         \E o \in merged[d] : /\ SetsRating(o) /\ o.hlc = provenance[d].rating
                              /\ o.rating = book[d].rating

NoDeleteIn(d) == Live(d) /\ ~gone[d] => \A o \in merged[d] : o.kind # "delete"

HighestKept(d) ==
  ~gone[d] =>
    \A o \in merged[d] : o.kind = "progress" => \E v \in progress[d] : o.page <= v

RowInv(d) == MergedHasRow(d) /\ RatingProvenance(d) /\ NoDeleteIn(d) /\ HighestKept(d)

IInv == TypeOK /\ UniqueHlc /\ \A d \in Device : RowInv(d)

(***************************************************************************)
(* A timestamp of a local write is no other op's.                          *)
(***************************************************************************)
LEMMA UniqueStep == IInv /\ [Next]_vars => UniqueHlc'
<1> SUFFICES ASSUME IInv, [Next]_vars PROVE UniqueHlc'
  OBVIOUS
<1>1. ASSUME NEW d \in Device, NEW o \in Op, Emit(d, o) PROVE UniqueHlc'
  BY <1>1 DEF IInv, UniqueHlc, Emit
<1>2. CASE UNCHANGED emitted
  BY <1>2 DEF IInv, UniqueHlc
<1> QED
  BY <1>1, <1>2 DEF Next, vars, CreateBook, UpdateBook, LogProgress, DeleteBook,
     MergeAway, Stage, Merge, Purge, Compact, Bootstrap

(***************************************************************************)
(* A step of one device leaves the rows of the others alone.               *)
(***************************************************************************)
LEMMA Elsewhere ==
  ASSUME IInv, NEW d \in Device, RowInv(d)',
         \A e \in Device \ {d} :
           /\ book'[e] = book[e] /\ provenance'[e] = provenance[e]
           /\ progress'[e] = progress[e] /\ merged'[e] = merged[e] /\ gone'[e] = gone[e]
  PROVE  \A e \in Device : RowInv(e)'
<1> SUFFICES ASSUME NEW e \in Device, e # d PROVE RowInv(e)'
  OBVIOUS
<1>1. RowInv(e)
  BY DEF IInv
<1> QED
  BY <1>1 DEF RowInv, MergedHasRow, RatingProvenance, NoDeleteIn, HighestKept, HasRow, Live

(***************************************************************************)
(* Local writes keep the invariant: their timestamps are past everything   *)
(* merged, so the provenance they leave is the newest.                     *)
(***************************************************************************)
LEMMA WriteStep ==
  ASSUME IInv, NEW d \in Device, NEW o \in Op,
         \/ CreateBook(d, o) \/ UpdateBook(d, o) \/ LogProgress(d, o)
         \/ DeleteBook(d, o) \/ MergeAway(d, o)
  PROVE  \A e \in Device : RowInv(e)'
<1> USE DEF IInv
<1>1. /\ TypeOK /\ RowInv(d)
      /\ merged[d] \subseteq log[d] /\ merged[d] \subseteq Op
      /\ o.hlc \in Nat /\ o.hlc # 0 /\ \A q \in merged[d] : q.hlc \in Nat
      /\ provenance[d].rating \in Nat
  BY OpType, BookMergeAssumption DEF TypeOK
<1>2. Emit(d, o)
  BY DEF CreateBook, UpdateBook, LogProgress, DeleteBook, MergeAway
<1>3. /\ merged'[d] = merged[d] \cup {o}
      /\ \A e \in Device \ {d} : merged'[e] = merged[e]
      /\ \A q \in merged[d] : q.hlc < o.hlc
  BY <1>1, <1>2 DEF Emit, TypeOK
<1>4. CASE CreateBook(d, o)
  <2>1. /\ book'[d] = [state |-> "live", rating |-> o.rating, status |-> o.status]
        /\ provenance'[d] = Stamped(provenance[d], o, TRUE, TRUE)
        /\ UNCHANGED <<progress, gone>> /\ o.kind = "create"
        /\ \A e \in Device \ {d} : book'[e] = book[e] /\ provenance'[e] = provenance[e]
    BY <1>1, <1>4 DEF CreateBook, TypeOK
  <2>2. /\ book'[d].state = "live" /\ book'[d].rating = o.rating
        /\ provenance'[d].rating = o.hlc /\ merged'[d] = {o}
    BY <1>1, <1>3, <1>4, <2>1 DEF CreateBook, Stamped, TypeOK
  <2>3. o.kind = "create" /\ SetsRating(o) /\ gone'[d] = gone[d]
    BY <2>1 DEF SetsRating
  <2>4. RatingProvenance(d)'
    BY <1>1, <2>2, <2>3 DEF RatingProvenance, Live
  <2>5. RowInv(d)'
    BY <1>1, <2>2, <2>3, <2>4 DEF RowInv, MergedHasRow, NoDeleteIn, HighestKept, HasRow
  <2> QED
    BY <1>3, <2>1, <2>5, Elsewhere
<1>5. CASE UpdateBook(d, o)
  <2>1. /\ book'[d] = Written(book[d], o, SetsRating(o), SetsStatus(o))
        /\ provenance'[d] = Stamped(provenance[d], o, SetsRating(o), SetsStatus(o))
        /\ UNCHANGED <<progress, gone>> /\ Live(d)
        /\ o.kind # "delete" /\ o.kind # "progress"
        /\ \A e \in Device \ {d} : book'[e] = book[e] /\ provenance'[e] = provenance[e]
    BY <1>1, <1>5 DEF UpdateBook, TypeOK
  <2>2. /\ book'[d].state = "live"
        /\ book'[d].rating = IF SetsRating(o) THEN o.rating ELSE book[d].rating
        /\ provenance'[d].rating = IF SetsRating(o) THEN o.hlc ELSE provenance[d].rating
    BY <2>1 DEF Written, Stamped, Live
  <2>3. MergedHasRow(d)' /\ NoDeleteIn(d)' /\ HighestKept(d)'
    BY <1>1, <1>3, <2>1, <2>2
    DEF RowInv, MergedHasRow, NoDeleteIn, HighestKept, HasRow, Live
  <2>4. RatingProvenance(d)'
    <3>1. CASE SetsRating(o)
      BY <1>1, <1>3, <2>1, <2>2, <3>1 DEF RatingProvenance, Live
    <3>2. CASE ~SetsRating(o)
      BY <1>1, <1>3, <2>1, <2>2, <3>2 DEF RowInv, RatingProvenance, Live
    <3> QED
      BY <3>1, <3>2
  <2> QED
    BY <1>3, <2>1, <2>3, <2>4, Elsewhere DEF RowInv
<1>6. CASE LogProgress(d, o)
  <2>1. /\ progress'[d] = progress[d] \cup {o.page}
        /\ UNCHANGED <<book, provenance, gone>> /\ Live(d) /\ o.kind = "progress"
        /\ \A e \in Device \ {d} : progress'[e] = progress[e]
    BY <1>1, <1>6 DEF LogProgress, TypeOK
  <2>2. MergedHasRow(d)' /\ NoDeleteIn(d)' /\ RatingProvenance(d)'
    BY <1>1, <1>3, <2>1
    DEF RowInv, MergedHasRow, NoDeleteIn, RatingProvenance, SetsRating, HasRow, Live
  <2>3. o.page \in Nat
    BY OpType, <2>1, BookMergeAssumption
  <2>4. HighestKept(d)'
    BY <1>1, <1>3, <2>1, <2>3 DEF RowInv, HighestKept
  <2> QED
    BY <1>3, <2>1, <2>2, <2>4, Elsewhere DEF RowInv
<1>7. CASE DeleteBook(d, o)
  <2>1. /\ book'[d].state = "deleted"
        /\ UNCHANGED <<provenance, progress, gone>> /\ o.kind = "delete"
        /\ \A e \in Device \ {d} : book'[e] = book[e]
    <3>1. book[d] \in [state : {"live", "deleted"}, rating : Rating, status : Status]
      BY <1>7, RowType DEF DeleteBook, Live, TypeOK
    <3> QED
      BY <1>1, <1>7, <3>1 DEF DeleteBook, TypeOK
  <2>2. RowInv(d)'
    BY <1>1, <1>3, <2>1
    DEF RowInv, MergedHasRow, NoDeleteIn, RatingProvenance, HighestKept, HasRow, Live
  <2> QED
    BY <1>3, <2>1, <2>2, Elsewhere
<1>8. CASE MergeAway(d, o)
  <2>1. /\ gone'[d] = TRUE /\ ~Live(d)'
        /\ \A e \in Device \ {d} :
             /\ book'[e] = book[e] /\ provenance'[e] = provenance[e]
             /\ progress'[e] = progress[e] /\ gone'[e] = gone[e]
    BY <1>1, <1>8 DEF MergeAway, RemoveRow, TypeOK, Live, NoRow
  <2>2. RowInv(d)'
    BY <2>1 DEF RowInv, MergedHasRow, NoDeleteIn, RatingProvenance, HighestKept
  <2> QED
    BY <1>3, <2>1, <2>2, Elsewhere
<1> QED
  BY <1>4, <1>5, <1>6, <1>7, <1>8

(***************************************************************************)
(* Merges keep the invariant: an op takes the rating when it is newer than *)
(* the provenance, and then is the newest.                                 *)
(***************************************************************************)
LEMMA MergeStep ==
  ASSUME IInv, NEW d \in Device, NEW o \in emitted, Merge(d, o)
  PROVE  \A e \in Device : RowInv(e)'
<1> USE DEF IInv
<1>1. /\ TypeOK /\ RowInv(d) /\ o \in Op
      /\ o.hlc \in Nat /\ o.hlc # 0 /\ \A q \in merged[d] : q.hlc \in Nat
      /\ provenance[d].rating \in Nat
      /\ o.kind = "progress" => o.page \in Nat
  <2>1. TypeOK /\ RowInv(d) /\ o \in Op /\ merged[d] \subseteq Op
    BY DEF TypeOK
  <2>2. /\ o.hlc \in Nat /\ o.hlc # 0 /\ \A q \in merged[d] : q.hlc \in Nat
    BY <2>1, OpType, BookMergeAssumption
  <2>3. provenance[d].rating \in Nat
    BY <2>1, BookMergeAssumption DEF TypeOK
  <2>4. o.kind = "progress" => o.page \in Nat
    BY <2>1, OpType, BookMergeAssumption
  <2> QED
    BY <2>1, <2>2, <2>3, <2>4
<1>2. /\ merged'[d] = merged[d] \cup {o}
      /\ \A e \in Device \ {d} : merged'[e] = merged[e]
      /\ UNCHANGED gone
  BY <1>1 DEF Merge, TypeOK
<1>3. CASE MergeCreate(d, o)
  <2>1. /\ book'[d] = [state |-> "live", rating |-> o.rating, status |-> o.status]
        /\ provenance'[d] = Stamped(provenance[d], o, TRUE, TRUE)
        /\ UNCHANGED progress /\ o.kind = "create" /\ ~HasRow(d)
        /\ \A e \in Device \ {d} : book'[e] = book[e] /\ provenance'[e] = provenance[e]
    BY <1>1, <1>3 DEF MergeCreate, TypeOK
  <2>2. /\ book'[d].state = "live" /\ book'[d].rating = o.rating
        /\ provenance'[d].rating = o.hlc
        /\ ~gone[d] => merged'[d] = {o}
    BY <1>1, <1>2, <2>1 DEF Stamped, RowInv, MergedHasRow
  <2>3. o.kind = "create" /\ SetsRating(o) /\ gone'[d] = gone[d]
    BY <1>2, <2>1 DEF SetsRating
  <2>4. RatingProvenance(d)'
    BY <1>1, <2>2, <2>3 DEF RatingProvenance, Live
  <2>5. RowInv(d)'
    BY <1>1, <2>2, <2>3, <2>4 DEF RowInv, MergedHasRow, NoDeleteIn, HighestKept, HasRow
  <2> QED
    BY <1>2, <2>1, <2>5, Elsewhere
<1>4. CASE MergeUpdate(d, o)
  <2>1. /\ book'[d] = Written(book[d], o, TakesRating(d, o), TakesStatus(d, o))
        /\ provenance'[d] = Stamped(provenance[d], o, TakesRating(d, o), TakesStatus(d, o))
        /\ UNCHANGED progress /\ Live(d) /\ (SetsRating(o) \/ SetsStatus(o))
        /\ \A e \in Device \ {d} : book'[e] = book[e] /\ provenance'[e] = provenance[e]
    BY <1>1, <1>4 DEF MergeUpdate, TypeOK
  <2>2. /\ book'[d].state = "live" /\ o.kind # "delete" /\ o.kind # "progress"
        /\ book'[d].rating = IF TakesRating(d, o) THEN o.rating ELSE book[d].rating
        /\ provenance'[d].rating =
             IF TakesRating(d, o) THEN o.hlc ELSE provenance[d].rating
    BY <2>1 DEF Written, Stamped, Live, SetsRating, SetsStatus
  <2>3. MergedHasRow(d)' /\ NoDeleteIn(d)' /\ HighestKept(d)'
    BY <1>1, <1>2, <2>1, <2>2
    DEF RowInv, MergedHasRow, NoDeleteIn, HighestKept, HasRow, Live
  <2>4. RatingProvenance(d)'
    <3>1. CASE TakesRating(d, o)
      BY <1>1, <1>2, <2>1, <2>2, <3>1 DEF RowInv, RatingProvenance, Live, TakesRating
    <3>2. CASE ~TakesRating(d, o)
      BY <1>1, <1>2, <2>1, <2>2, <3>2 DEF RowInv, RatingProvenance, Live, TakesRating
    <3> QED
      BY <3>1, <3>2
  <2> QED
    BY <1>2, <2>1, <2>3, <2>4, Elsewhere DEF RowInv
<1>5. CASE MergeDelete(d, o)
  <2>1. /\ book'[d].state = "deleted"
        /\ UNCHANGED <<provenance, progress>> /\ o.kind = "delete"
        /\ \A e \in Device \ {d} : book'[e] = book[e]
    <3>1. book[d] \in [state : {"live", "deleted"}, rating : Rating, status : Status]
      BY <1>5, RowType DEF MergeDelete, HasRow, TypeOK
    <3> QED
      BY <1>1, <1>5, <3>1 DEF MergeDelete, TypeOK
  <2>2. RowInv(d)'
    BY <1>1, <1>2, <2>1
    DEF RowInv, MergedHasRow, NoDeleteIn, RatingProvenance, HighestKept, HasRow, Live
  <2> QED
    BY <1>2, <2>1, <2>2, Elsewhere
<1>6. CASE MergeProgress(d, o)
  <2>1. /\ progress'[d] = IF \A v \in progress[d] : v < o.page
                            THEN progress[d] \cup {o.page} ELSE progress[d]
        /\ UNCHANGED <<book, provenance>> /\ HasRow(d) /\ o.kind = "progress"
        /\ \A e \in Device \ {d} : progress'[e] = progress[e]
    BY <1>1, <1>6 DEF MergeProgress, TypeOK
  <2>2. MergedHasRow(d)' /\ NoDeleteIn(d)' /\ RatingProvenance(d)'
    BY <1>1, <1>2, <2>1
    DEF RowInv, MergedHasRow, NoDeleteIn, RatingProvenance, SetsRating, HasRow, Live
  <2>3. /\ \A v \in progress[d] : v \in Nat
        /\ progress[d] \subseteq progress'[d]
        /\ \E v \in progress'[d] : o.page <= v
    BY <1>1, <2>1, BookMergeAssumption DEF TypeOK
  <2>4. HighestKept(d)'
    BY <1>1, <1>2, <2>3 DEF RowInv, HighestKept
  <2> QED
    BY <1>2, <2>1, <2>2, <2>4, Elsewhere DEF RowInv
<1>7. CASE MergeSkipped(d, o)
  <2>1. /\ UNCHANGED <<book, provenance, progress>> /\ HasRow(d) /\ ~Live(d)
        /\ o.kind # "progress"
    BY <1>7 DEF MergeSkipped, HasRow, Live, SetsRating, SetsStatus
  <2>2. RowInv(d)'
    BY <1>1, <1>2, <2>1
    DEF RowInv, MergedHasRow, NoDeleteIn, RatingProvenance, HighestKept, HasRow, Live
  <2> QED
    BY <1>2, <2>1, <2>2, Elsewhere
<1> QED
  BY <1>3, <1>4, <1>5, <1>6, <1>7 DEF Merge

(***************************************************************************)
(* Every step keeps the invariant.                                         *)
(***************************************************************************)
LEMMA InvStep == IInv /\ [Next]_vars => IInv'
<1> SUFFICES ASSUME IInv, [Next]_vars PROVE \A e \in Device : RowInv(e)'
  BY TypeStep, UniqueStep DEF IInv
<1>1. ASSUME NEW d \in Device, Purge(d) PROVE \A e \in Device : RowInv(e)'
  <2>1. /\ gone'[d] = TRUE /\ ~Live(d)' /\ UNCHANGED merged
        /\ \A e \in Device \ {d} :
             /\ book'[e] = book[e] /\ provenance'[e] = provenance[e]
             /\ progress'[e] = progress[e] /\ gone'[e] = gone[e]
    BY <1>1 DEF Purge, RemoveRow, IInv, TypeOK, Live, NoRow
  <2>2. RowInv(d)'
    BY <2>1 DEF RowInv, MergedHasRow, NoDeleteIn, RatingProvenance, HighestKept
  <2> QED
    BY <2>1, <2>2, Elsewhere
<1>2. ASSUME NEW d \in Device, Bootstrap(d) PROVE \A e \in Device : RowInv(e)'
  <2>1. /\ book'[d] = IF HasRow(d) THEN book[d] ELSE snapshot.row
        /\ progress[d] \subseteq progress'[d]
        /\ UNCHANGED <<provenance, merged, gone>>
        /\ \A e \in Device \ {d} : book'[e] = book[e] /\ progress'[e] = progress[e]
    BY <1>2 DEF Bootstrap, RowAfterSnapshot, IInv, TypeOK
  <2>2. RowInv(d)
    BY DEF IInv
  <2>3. CASE HasRow(d)
    BY <2>1, <2>2, <2>3, Elsewhere
    DEF RowInv, MergedHasRow, NoDeleteIn, RatingProvenance, HighestKept, HasRow, Live
  <2>4. CASE ~HasRow(d)
    <3>1. provenance[d].rating = 0 /\ (~gone[d] => merged[d] = {})
      BY <2>2, <2>4 DEF IInv, TypeOK, NoProvenance, RowInv, MergedHasRow
    <3>2. RowInv(d)'
      BY <2>1, <3>1
      DEF RowInv, MergedHasRow, NoDeleteIn, RatingProvenance, HighestKept
    <3> QED
      BY <2>1, <3>2, Elsewhere
  <2> QED
    BY <2>3, <2>4
<1>3. CASE UNCHANGED <<book, provenance, progress, merged, gone>>
  BY <1>3 DEF IInv, RowInv, MergedHasRow, NoDeleteIn, RatingProvenance, HighestKept,
     HasRow, Live
<1> QED
  BY <1>1, <1>2, <1>3, WriteStep, MergeStep DEF Next, vars, Stage, Compact

(***************************************************************************)
(* The inductive invariant.                                                *)
(***************************************************************************)
THEOREM Invariant == Spec => []IInv
<1>1. Init => IInv
  <2> SUFFICES ASSUME Init PROVE IInv
    OBVIOUS
  <2>1. TypeOK
    BY BookMergeAssumption
    DEF Init, TypeOK, Row, NoRow, NoProvenance, NoSnapshot, HasRow
  <2>2. UniqueHlc
    BY DEF Init, UniqueHlc
  <2>3. ASSUME NEW d \in Device PROVE RowInv(d)
    BY DEF Init, RowInv, MergedHasRow, NoDeleteIn, RatingProvenance, HighestKept,
       NoProvenance
  <2> QED
    BY <2>1, <2>2, <2>3 DEF IInv
<1> QED
  BY <1>1, InvStep, PTL DEF Spec

-----------------------------------------------------------------------------
(* What it is for. *)

(***************************************************************************)
(* Last-write-wins holds for the rating: a live book shows the rating of   *)
(* the newest op its device has merged.                                    *)
(***************************************************************************)
THEOREM LastWriteWins == Spec => []RatingIsNewest
<1>1. IInv => RatingIsNewest
  <2> SUFFICES ASSUME IInv, NEW d \in Device, Live(d), ~gone[d], NEW o \in merged[d],
                      SetsRating(o),
                      \A q \in merged[d] : SetsRating(q) => q.hlc <= o.hlc
               PROVE  book[d].rating = o.rating
    BY DEF RatingIsNewest
  <2>1. /\ RowInv(d) /\ provenance[d].rating \in Nat
        /\ \A q \in merged[d] : q \in emitted /\ q.hlc \in Nat /\ q.hlc # 0
    BY OpType, BookMergeAssumption DEF IInv, TypeOK
  <2>2. o.hlc <= provenance[d].rating /\ provenance[d].rating # 0
    BY <2>1 DEF RowInv, RatingProvenance
  <2>3. PICK q \in merged[d] : /\ SetsRating(q) /\ q.hlc = provenance[d].rating
                               /\ q.rating = book[d].rating
    BY <2>1, <2>2 DEF RowInv, RatingProvenance
  <2>4. q.hlc = o.hlc
    BY <2>1, <2>2, <2>3
  <2>5. q = o
    BY <2>1, <2>4 DEF IInv, UniqueHlc
  <2> QED
    BY <2>3, <2>5
<1> QED
  BY <1>1, Invariant, PTL

(***************************************************************************)
(* A deleted book stays deleted on a device that keeps the tombstone.      *)
(***************************************************************************)
THEOREM DeleteIsFinal == Spec => []DeletedStaysDeleted
<1>1. IInv => DeletedStaysDeleted
  BY DEF IInv, RowInv, NoDeleteIn, DeletedStaysDeleted
<1> QED
  BY <1>1, Invariant, PTL

(***************************************************************************)
(* The highest progress merged is never lost.                              *)
(***************************************************************************)
THEOREM ProgressIsMonotonic == Spec => []HighestProgressKept
<1>1. IInv => HighestProgressKept
  BY DEF IInv, RowInv, HighestKept, HighestProgressKept
<1> QED
  BY <1>1, Invariant, PTL

(***************************************************************************)
(* Merging again what has been merged changes neither the rating nor the   *)
(* tombstone nor the progress, whatever was merged in between.             *)
(***************************************************************************)
THEOREM ReplayChangesNothing == Spec => ReplayIsHarmless
<1> DEFINE Harmless ==
      \A d \in Device : ~gone[d] =>
        \A o \in merged[d] : Merge(d, o) =>
          /\ book'[d].state = book[d].state
          /\ book'[d].rating = book[d].rating
          /\ progress'[d] = progress[d]
<1>1. IInv => Harmless
  <2> SUFFICES ASSUME IInv, NEW d \in Device, ~gone[d], NEW o \in merged[d], Merge(d, o)
               PROVE  /\ book'[d].state = book[d].state
                      /\ book'[d].rating = book[d].rating
                      /\ progress'[d] = progress[d]
    OBVIOUS
  <2>1. /\ TypeOK /\ RowInv(d) /\ HasRow(d) /\ o.hlc \in Nat
        /\ provenance[d].rating \in Nat
    BY OpType, BookMergeAssumption DEF IInv, TypeOK, RowInv, MergedHasRow
  <2>2. CASE MergeUpdate(d, o)
    <3>1. Live(d) /\ ~TakesRating(d, o)
      BY <2>1, <2>2 DEF MergeUpdate, TakesRating, RowInv, RatingProvenance
    <3>2. /\ book'[d] = Written(book[d], o, TakesRating(d, o), TakesStatus(d, o))
          /\ UNCHANGED progress
      BY <2>1, <2>2 DEF MergeUpdate, TypeOK
    <3> QED
      BY <3>1, <3>2 DEF Written
  <2>3. CASE MergeDelete(d, o)
    <3>1. book[d].state = "deleted"
      <4>1. ~Live(d)
        BY <2>1, <2>3 DEF MergeDelete, RowInv, NoDeleteIn
      <4>2. book[d] \in [state : {"live", "deleted"}, rating : Rating, status : Status]
        BY <2>1, RowType DEF TypeOK, HasRow
      <4> QED
        BY <4>1, <4>2 DEF Live
    <3>2. /\ book'[d] = [book[d] EXCEPT !.state = "deleted"] /\ UNCHANGED progress
          /\ book[d] \in [state : {"live", "deleted"}, rating : Rating, status : Status]
      BY <2>1, <2>3, RowType DEF MergeDelete, TypeOK, HasRow
    <3> QED
      BY <3>1, <3>2
  <2>4. CASE MergeProgress(d, o)
    <3>1. o \in Op /\ o.kind = "progress" /\ o.page \in Nat
      BY <2>1, <2>4, OpType, BookMergeAssumption DEF MergeProgress, TypeOK
    <3>2. PICK v \in progress[d] : o.page <= v
      BY <2>1, <3>1 DEF RowInv, HighestKept
    <3>3. v \in Nat
      BY <2>1, BookMergeAssumption DEF TypeOK
    <3> QED
      BY <2>1, <2>4, <3>1, <3>2, <3>3 DEF MergeProgress, TypeOK
  <2>5. CASE MergeCreate(d, o) \/ MergeSkipped(d, o)
    BY <2>1, <2>5 DEF MergeCreate, MergeSkipped
  <2> QED
    BY <2>2, <2>3, <2>4, <2>5 DEF Merge
<1> QED
  BY <1>1, Invariant, PTL DEF ReplayIsHarmless

-----------------------------------------------------------------------------
(*                                FILESHELF                                *)

\* Without an overlap, one process organizes at a time.
Alone == \A o, k \in Organizer : phase[o] # "idle" /\ phase[k] # "idle" => o = k

\* A plan: what moves, from where, and to a place of its own that was free.
PlanOK(o) ==
  /\ phase[o] = "idle" =>
       books[o] = {} /\ rows[o] = {} /\ plan[o] = <<>> /\ at[o] = 0
  /\ books[o] # {} \/ rows[o] # {} => phase[o] = "run" /\ at[o] = 0
  /\ \A i \in DOMAIN plan[o] :
       plan[o][i].from = plan[o][i].link.path /\ plan[o][i].to \in claimed[o]
  /\ \A i, j \in DOMAIN plan[o] : plan[o][i].to # plan[o][j].from
  /\ \A i, j \in DOMAIN plan[o] : i # j => plan[o][i].to # plan[o][j].to

\* The disk under a plan: what is still to move, and what has moved.
DiskOK(o) ==
  /\ phase[o] = "run" /\ at[o] = 0 => \A i \in DOMAIN plan[o] : disk[plan[o][i].from] # NoFile
  /\ phase[o] = "run" => \A i \in DOMAIN plan[o] : i > at[o] => disk[plan[o][i].to] = NoFile
  /\ copying[o] => \A i \in DOMAIN plan[o] : i <= at[o] =>
       disk[plan[o][i].from] # NoFile /\ disk[plan[o][i].to] = disk[plan[o][i].from]
  /\ ~copying[o] => \A i \in DOMAIN plan[o] : i <= at[o] => disk[plan[o][i].from] = NoFile
  /\ ~copying[o] => \A i, j \in DOMAIN plan[o] : i <= at[o] /\ j <= at[o] /\ i # j =>
       plan[o][i].from # plan[o][j].from

\* The rows under a plan.
RowsOK ==
  /\ \A r, k \in DOMAIN links : r # k => links[r].path # links[k].path
  /\ \A o \in Organizer :
       /\ \A i \in DOMAIN plan[o] : \E r \in DOMAIN links : plan[o][i].link = links[r]
       /\ \A row \in rows[o] : \E r \in DOMAIN links : row = links[r]
       /\ \A i \in DOMAIN plan[o], r \in DOMAIN links : plan[o][i].to # links[r].path
  /\ \A r \in DOMAIN links : disk[links[r].path] = links[r].digest \/ IsMoved(links[r])

NothingLost == \A r \in DOMAIN links : \E p \in Path : disk[p] = links[r].digest

Recoverable == {"stopped", "stranded", "shared", "twins"}

ShelfInv ==
  /\ ShelfTypeOK
  /\ "overlap" \notin troubles => Alone /\ \A o \in Organizer : PlanOK(o) /\ DiskOK(o)
  /\ troubles \subseteq {"discarded"} => RowsOK
  /\ troubles \subseteq Recoverable => NothingLost

-----------------------------------------------------------------------------
(* The operators. *)

\* A sequence without its r-th element: what is before stays, what is behind
\* moves up.
LEMMA RemoveAtFacts ==
  ASSUME NEW S, NEW s \in Seq(S), NEW r \in DOMAIN s
  PROVE  /\ RemoveAt(s, r) \in Seq(S)
         /\ Len(RemoveAt(s, r)) = Len(s) - 1
         /\ \A k \in DOMAIN RemoveAt(s, r) :
              RemoveAt(s, r)[k] = IF k < r THEN s[k] ELSE s[k + 1]
<1> DEFINE a == SubSeq(s, 1, r - 1)
           b == SubSeq(s, r + 1, Len(s))
<1>1. Len(s) \in Nat /\ DOMAIN s = 1 .. Len(s) /\ r \in 1 .. Len(s)
  BY LenProperties
<1>2. a \in Seq(S) /\ Len(a) = r - 1 /\ \A k \in 1 .. r - 1 : a[k] = s[k]
  <2>1. \A i \in 1 .. r - 1 : i \in 1 .. Len(s)
    BY <1>1
  <2> QED
    BY <1>1, <2>1, SubSeqProperties
<1>3. b \in Seq(S) /\ Len(b) = Len(s) - r /\ \A k \in 1 .. Len(s) - r : b[k] = s[r + k]
  <2>1. \A i \in r + 1 .. Len(s) : i \in 1 .. Len(s)
    BY <1>1
  <2>2. /\ SubSeq(s, r + 1, Len(s)) \in Seq(S)
        /\ Len(SubSeq(s, r + 1, Len(s))) = IF r + 1 <= Len(s) THEN Len(s) - (r + 1) + 1 ELSE 0
        /\ \A i \in 1 .. Len(s) - (r + 1) + 1 : SubSeq(s, r + 1, Len(s))[i] = s[r + 1 + i - 1]
    <3>1. r + 1 \in Int /\ Len(s) \in Int
      BY <1>1
    <3> QED
      BY <1>1, <2>1, <3>1, SubSeqProperties
  <2>3. Len(b) = Len(s) - r
    BY <1>1, <2>2
  <2>4. \A k \in 1 .. Len(s) - r : b[k] = s[r + k]
    <3> SUFFICES ASSUME NEW k \in 1 .. Len(s) - r PROVE b[k] = s[r + k]
      OBVIOUS
    <3>1. k \in 1 .. Len(s) - (r + 1) + 1 /\ r + 1 + k - 1 = r + k
      BY <1>1
    <3> QED
      BY <2>2, <3>1
  <2> QED
    BY <2>2, <2>3, <2>4
<1>4. RemoveAt(s, r) = a \o b
  BY DEF RemoveAt
<1>5. /\ a \o b \in Seq(S) /\ Len(a \o b) = Len(a) + Len(b)
      /\ \A k \in 1 .. Len(a) + Len(b) :
           (a \o b)[k] = IF k <= Len(a) THEN a[k] ELSE b[k - Len(a)]
  BY <1>2, <1>3, ConcatProperties
<1>6. Len(RemoveAt(s, r)) = Len(s) - 1
  BY <1>1, <1>2, <1>3, <1>4, <1>5
<1>7. ASSUME NEW k \in DOMAIN RemoveAt(s, r)
      PROVE  RemoveAt(s, r)[k] = IF k < r THEN s[k] ELSE s[k + 1]
  <2>1. DOMAIN RemoveAt(s, r) = 1 .. Len(s) - 1
    BY <1>4, <1>5, <1>6, LenProperties
  <2>2. k \in 1 .. Len(a) + Len(b)
    BY <1>1, <1>2, <1>3, <2>1
  <2>3. CASE k < r
    BY <1>1, <1>2, <1>4, <1>5, <2>1, <2>2, <2>3
  <2>4. CASE ~(k < r)
    <3>1. k - (r - 1) \in 1 .. Len(s) - r /\ r + (k - (r - 1)) = k + 1
      BY <1>1, <2>1, <2>4
    <3>2. b[k - (r - 1)] = s[k + 1]
      BY <1>3, <3>1
    <3> QED
      BY <1>1, <1>2, <1>4, <1>5, <2>2, <2>4, <3>2
  <2> QED
    BY <2>3, <2>4
<1> QED
  BY <1>4, <1>5, <1>6, <1>7

File == Digest \cup {NoFile}

\* The mark of a path without a file is the digest of none.
LEMMA NoFileIsNoDigest == NoFile \notin Digest
BY ShelfAssumption DEF NoFile

\* A move puts the file at its target, and removes it or not at its source.
LEMMA MovedAt ==
  ASSUME NEW d \in [Path -> File], NEW m \in Move, NEW copy, m.to # m.from
  PROVE  /\ Moved(d, m, copy) \in [Path -> File]
         /\ Moved(d, m, copy)[m.to] = d[m.from]
         /\ Moved(d, m, copy)[m.from] = IF copy THEN d[m.from] ELSE NoFile
         /\ \A p \in Path : p # m.to /\ p # m.from => Moved(d, m, copy)[p] = d[p]
<1>1. m.to \in Path /\ m.from \in Path
  BY DEF Move
<1> QED
  BY <1>1 DEF Moved, File

\* A move undone: nothing, or the file is back and its target free.
LEMMA UndoneAt ==
  ASSUME NEW d \in [Path -> File], NEW m \in Move, NEW copy, m.to # m.from
  PROVE  /\ ~copy /\ (Stays(m) \/ d[m.to] = NoFile) => Undone(d, m, copy) = d
         /\ ~copy /\ ~Stays(m) /\ d[m.to] # NoFile =>
              /\ Undone(d, m, copy)[m.from] = d[m.to]
              /\ Undone(d, m, copy)[m.to] = NoFile
              /\ \A p \in Path : p # m.to /\ p # m.from => Undone(d, m, copy)[p] = d[p]
<1>1. m.to \in Path /\ m.from \in Path
  BY DEF Move
<1> QED
  BY <1>1 DEF Undone, File

\* resolve_target gives the path itself, or one that is free and not claimed.
LEMMA TargetFacts ==
  ASSUME NEW from \in Path, NEW taken, NEW to \in Targets(from, taken)
  PROVE  to \in Path /\ (to = from \/ (to \notin taken /\ disk[to] = NoFile))
<1>1. PICK n \in 1 .. MaxCopies : to = <<n, FormatOf(from)>> /\ Fits(from, taken, n)
  BY DEF Targets
<1>2. FormatOf(from) \in Format
  BY DEF FormatOf, Path
<1> QED
  BY <1>1, <1>2 DEF Fits, Path, Spot

-----------------------------------------------------------------------------
(* Types. *)

\* A row that is appended leaves a table of rows, within its bound.
LEMMA LinkedTypes ==
  ASSUME ShelfTypeOK, NEW b \in Book, NEW p \in Path, NEW c \in Digest, Linked(b, p, c)
  PROVE  links' \in Seq(LinkRow) /\ Len(links') <= MaxLinks
<1>1. MaxLinks \in Nat /\ links \in Seq(LinkRow) /\ Len(links) <= MaxLinks /\ Len(links) \in Nat
  BY ShelfAssumption, LenProperties DEF ShelfTypeOK
<1>2. [book |-> b, path |-> p, digest |-> c] \in LinkRow
  BY DEF LinkRow
<1> QED
  BY <1>1, <1>2, AppendProperties DEF Linked

\* The history holds mishaps.
LEMMA TroubleTypes ==
  ASSUME ShelfTypeOK, NEW more \in SUBSET Mishap, Trouble(more)
  PROVE  troubles' \subseteq Mishap
BY DEF ShelfTypeOK, Trouble

\* An organization that ends leaves typed state.
LEMMA RestsTypes ==
  ASSUME ShelfTypeOK, NEW o \in Organizer, Rests(o)
  PROVE  /\ phase' \in [Organizer -> {"idle", "run", "undo"}]
         /\ books' \in [Organizer -> SUBSET Book] /\ rows' \in [Organizer -> SUBSET LinkRow]
         /\ claimed' \in [Organizer -> SUBSET Path] /\ plan' \in [Organizer -> Seq(Move)]
         /\ at' \in [Organizer -> Nat] /\ copying' \in [Organizer -> BOOLEAN]
         /\ \A k \in Organizer : at'[k] <= Len(plan'[k])
<1>1. <<>> \in Seq(Move) /\ Len(<<>>) = 0
  BY EmptySeq
<1>2. /\ phase' \in [Organizer -> {"idle", "run", "undo"}]
      /\ books' \in [Organizer -> SUBSET Book] /\ rows' \in [Organizer -> SUBSET LinkRow]
      /\ claimed' \in [Organizer -> SUBSET Path] /\ plan' \in [Organizer -> Seq(Move)]
      /\ at' \in [Organizer -> Nat] /\ copying' \in [Organizer -> BOOLEAN]
  BY <1>1 DEF ShelfTypeOK, Rests
<1>3. ASSUME NEW k \in Organizer PROVE at'[k] <= Len(plan'[k])
  BY <1>1 DEF ShelfTypeOK, Rests
<1> QED
  BY <1>2, <1>3

\* The transaction rewrites rows into rows, and no row goes.
LEMMA CommitTypes ==
  ASSUME ShelfTypeOK, NEW o \in Organizer, CommitPaths(o)
  PROVE  /\ links' \in Seq(LinkRow) /\ Len(links') = Len(links)
         /\ DOMAIN links' = DOMAIN links
<1> DEFINE mine(r) == {m \in ToSet(plan[o]) : m.link = links[r]}
           new(r) == IF mine(r) = {} THEN links[r]
                     ELSE [links[r] EXCEPT !.path = (CHOOSE m \in mine(r) : TRUE).to]
<1>1. links \in Seq(LinkRow) /\ DOMAIN links = 1 .. Len(links) /\ Len(links) \in Nat
  BY LenProperties DEF ShelfTypeOK
<1>2. links' = [r \in 1 .. Len(links) |-> new(r)]
  BY <1>1 DEF CommitPaths
<1>3. ASSUME NEW r \in 1 .. Len(links) PROVE new(r) \in LinkRow
  <2>1. links[r] \in LinkRow
    BY <1>1, ElementOfSeq
  <2>2. CASE mine(r) = {}
    BY <2>1, <2>2
  <2>3. CASE mine(r) # {}
    <3>1. ToSet(plan[o]) \subseteq Move
      <4>1. plan[o] \in Seq(Move)
        BY DEF ShelfTypeOK
      <4> QED
        BY <4>1, ElementOfSeq, LenProperties DEF ToSet
    <3>2. (CHOOSE m \in mine(r) : TRUE) \in mine(r)
      BY <2>3
    <3>3. (CHOOSE m \in mine(r) : TRUE).to \in Path
      BY <3>1, <3>2 DEF Move
    <3> HIDE DEF mine
    <3> QED
      BY <2>1, <2>3, <3>3 DEF LinkRow
  <2> QED
    BY <2>2, <2>3
<1> HIDE DEF new
<1>4. links' \in Seq(LinkRow) /\ Len(links') = Len(links)
  BY <1>1, <1>2, <1>3, IsASeq
<1> QED
  BY <1>1, <1>2, <1>4

\* Every step keeps the types.
LEMMA TypesKept ==
  ASSUME ShelfTypeOK, ShelfNext
  PROVE  ShelfTypeOK'
<1>0. /\ links \in Seq(LinkRow) /\ Len(links) \in Nat /\ DOMAIN links = 1 .. Len(links)
      /\ \A r \in DOMAIN links : links[r] \in LinkRow /\ links[r].path \in Path
                                   /\ links[r].book \in Book
  <2>1. links \in Seq(LinkRow)
    BY DEF ShelfTypeOK
  <2>2. Len(links) \in Nat /\ DOMAIN links = 1 .. Len(links)
    BY <2>1, LenProperties
  <2>3. \A r \in DOMAIN links : links[r] \in LinkRow
    BY <2>1, <2>2, ElementOfSeq
  <2> QED
    BY <2>1, <2>2, <2>3 DEF LinkRow
<1>m. Meddled \subseteq Mishap /\ \A p : SharesPath(p) \subseteq Mishap
  BY DEF Meddled, SharesPath, Mishap
<1>1. ASSUME NEW p \in Path, NEW c \in Digest, Download(p, c) PROVE ShelfTypeOK'
  <2>1. troubles' \subseteq Mishap
    BY <1>1, <1>m, TroubleTypes DEF Download
  <2> QED
    BY <1>1, <2>1 DEF Download, ShelfTypeOK, runVars
<1>2. ASSUME NEW p \in Path, NEW b \in Book, AddFile(b, p) PROVE ShelfTypeOK'
  <2>1. troubles' \subseteq Mishap
    BY <1>2, <1>m, TroubleTypes DEF AddFile
  <2>2. disk[p] \in Digest
    BY <1>2 DEF AddFile, ShelfTypeOK
  <2>3. links' \in Seq(LinkRow) /\ Len(links') <= MaxLinks
    BY <1>2, <2>2, LinkedTypes DEF AddFile
  <2> QED
    BY <1>2, <2>1, <2>3 DEF AddFile, ShelfTypeOK, runVars
<1>3. ASSUME NEW r \in DOMAIN links, NEW delete \in BOOLEAN, RemoveFile(r, delete)
      PROVE  ShelfTypeOK'
  <2>1. troubles' \subseteq Mishap
    <3>1. Meddled \cup (IF delete THEN {"discarded"} ELSE {}) \subseteq Mishap
      BY <1>m DEF Mishap
    <3> QED
      BY <1>3, <3>1, TroubleTypes DEF RemoveFile
  <2>2. links' \in Seq(LinkRow) /\ Len(links') = Len(links) - 1
    BY <1>0, <1>3, RemoveAtFacts DEF RemoveFile
  <2>3. Len(links') <= MaxLinks
    BY <1>0, <2>2, ShelfAssumption DEF ShelfTypeOK
  <2>4. disk' \in [Path -> Digest \cup {NoFile}]
    BY <1>0, <1>3 DEF RemoveFile, ShelfTypeOK
  <2> QED
    BY <1>3, <2>1, <2>2, <2>3, <2>4 DEF RemoveFile, ShelfTypeOK, runVars
<1>4. ASSUME NEW r \in DOMAIN links, NEW f \in Format, NEW forced \in BOOLEAN, NEW c \in Digest,
             Convert(r, f, forced, c)
      PROVE  ShelfTypeOK'
  <2> DEFINE to == <<links[r].path[1], f>>
  <2>1. to \in Path
    BY <1>0 DEF Path
  <2>2. troubles' \subseteq Mishap
    <3>1. SharesPath(to) \cup Meddled \cup (IF disk[to] # NoFile THEN {"discarded"} ELSE {})
            \subseteq Mishap
      BY <1>m DEF Mishap
    <3> QED
      BY <1>4, <3>1, TroubleTypes DEF Convert
  <2>3. links' \in Seq(LinkRow) /\ Len(links') <= MaxLinks
    <3>1. Linked(links[r].book, to, c)
      BY <1>4 DEF Convert
    <3> QED
      BY <1>0, <2>1, <3>1, LinkedTypes
  <2>4. disk' \in [Path -> Digest \cup {NoFile}]
    BY <1>4, <2>1 DEF Convert, ShelfTypeOK
  <2> QED
    BY <1>4, <2>2, <2>3, <2>4 DEF Convert, ShelfTypeOK, runVars
<1>5. ASSUME NEW o \in Organizer, NEW chosen \in {{b} : b \in Book} \cup {Book},
             NEW copy \in BOOLEAN, PlanBegin(o, chosen, copy)
      PROVE  ShelfTypeOK'
  <2>1. troubles' \subseteq Mishap
    BY <1>5, <1>m, TroubleTypes DEF PlanBegin
  <2>2. chosen \in SUBSET Book
    OBVIOUS
  <2> QED
    BY <1>5, <2>1, <2>2 DEF PlanBegin, ShelfTypeOK
<1>6. ASSUME NEW o \in Organizer, NEW b \in Book, PlanBook(o, b) PROVE ShelfTypeOK'
  <2>1. {row \in ToSet(links) : row.book = b} \in SUBSET LinkRow
    BY <1>0 DEF ToSet
  <2> QED
    BY <1>6, <2>1 DEF PlanBook, ShelfTypeOK
<1>7. ASSUME NEW o \in Organizer, NEW row \in rows[o], PlanFile(o, row) PROVE ShelfTypeOK'
  <2>1. row \in LinkRow /\ row.path \in Path
    BY DEF ShelfTypeOK, LinkRow
  <2>2. rows' \in [Organizer -> SUBSET LinkRow]
    BY <1>7 DEF PlanFile, ShelfTypeOK
  <2>3. /\ claimed' \in [Organizer -> SUBSET Path] /\ plan' \in [Organizer -> Seq(Move)]
        /\ \A k \in Organizer : at[k] <= Len(plan'[k])
    <3>1. CASE UNCHANGED <<claimed, plan>>
      BY <3>1 DEF ShelfTypeOK
    <3>2. CASE ~UNCHANGED <<claimed, plan>>
      <4>1. PICK to \in Targets(row.path, claimed[o]) :
              /\ claimed' = [claimed EXCEPT ![o] = @ \cup {to}]
              /\ plan' = IF to = row.path THEN plan
                         ELSE [plan EXCEPT ![o] =
                                 Append(@, [link |-> row, from |-> row.path, to |-> to])]
        BY <1>7, <3>2 DEF PlanFile
      <4>2. to \in Path
        BY <2>1, <4>1, TargetFacts
      <4>3. claimed' \in [Organizer -> SUBSET Path]
        BY <4>1, <4>2 DEF ShelfTypeOK
      <4>4. [link |-> row, from |-> row.path, to |-> to] \in Move
        BY <2>1, <4>2 DEF Move
      <4>5. /\ plan[o] \in Seq(Move) /\ Len(plan[o]) \in Nat
            /\ Append(plan[o], [link |-> row, from |-> row.path, to |-> to]) \in Seq(Move)
            /\ Len(Append(plan[o], [link |-> row, from |-> row.path, to |-> to])) = Len(plan[o]) + 1
        BY <4>4, AppendProperties, LenProperties DEF ShelfTypeOK
      <4>6. plan' \in [Organizer -> Seq(Move)]
        BY <4>1, <4>5 DEF ShelfTypeOK
      <4>7. ASSUME NEW k \in Organizer PROVE at[k] <= Len(plan'[k])
        <5>1. at[k] \in Nat /\ at[k] <= Len(plan[k]) /\ plan \in [Organizer -> Seq(Move)]
          BY DEF ShelfTypeOK
        <5>2. CASE to = row.path \/ k # o
          BY <4>1, <5>1, <5>2
        <5>3. CASE to # row.path /\ k = o
          BY <4>1, <4>5, <5>1, <5>3
        <5> QED
          BY <5>2, <5>3
      <4> QED
        BY <4>3, <4>6, <4>7
    <3> QED
      BY <3>1, <3>2
  <2> QED
    BY <1>7, <2>2, <2>3 DEF PlanFile, ShelfTypeOK
<1>8. ASSUME NEW o \in Organizer, ApplyMove(o) PROVE ShelfTypeOK'
  <2> DEFINE m == plan[o][at[o] + 1]
  <2>1. m \in Move
    <3>1. plan[o] \in Seq(Move) /\ at[o] \in Nat /\ at[o] < Len(plan[o]) /\ Len(plan[o]) \in Nat
      BY <1>8, LenProperties DEF ShelfTypeOK, ApplyMove
    <3>2. at[o] + 1 \in 1 .. Len(plan[o])
      BY <3>1
    <3> QED
      BY <3>1, <3>2, ElementOfSeq
  <2>2. m.from \in Path /\ m.to \in Path
    BY <2>1 DEF Move
  <2>3. disk' \in [Path -> Digest \cup {NoFile}]
    <3>1. disk' = Moved(disk, m, copying[o])
      BY <1>8 DEF ApplyMove
    <3> HIDE DEF m
    <3> QED
      BY <2>2, <3>1 DEF Moved, ShelfTypeOK
  <2>4. at' \in [Organizer -> Nat] /\ \A k \in Organizer : at'[k] <= Len(plan[k])
    <3>1. plan[o] \in Seq(Move) /\ Len(plan[o]) \in Nat /\ at[o] \in Nat /\ at[o] < Len(plan[o])
      BY <1>8, LenProperties DEF ShelfTypeOK, ApplyMove
    <3>2. at' = [at EXCEPT ![o] = @ + 1] /\ at \in [Organizer -> Nat]
      BY <1>8 DEF ShelfTypeOK, ApplyMove
    <3>3. at[o] + 1 <= Len(plan[o])
      BY <3>1
    <3> QED
      BY <3>1, <3>2, <3>3 DEF ShelfTypeOK
  <2> QED
    BY <1>8, <2>3, <2>4 DEF ApplyMove, ShelfTypeOK
<1>9. ASSUME NEW o \in Organizer, CommitPaths(o) PROVE ShelfTypeOK'
  <2>1. /\ links' \in Seq(LinkRow) /\ Len(links') = Len(links)
        /\ Rests(o) /\ UNCHANGED <<disk, across, troubles>>
    BY <1>9, CommitTypes DEF CommitPaths
  <2> QED
    BY <2>1, RestsTypes DEF ShelfTypeOK
<1>10. ASSUME NEW o \in Organizer, ApplyFails(o) PROVE ShelfTypeOK'
  <2>1. disk' \in [Path -> Digest \cup {NoFile}]
    <3>1. CASE UNCHANGED disk
      BY <3>1 DEF ShelfTypeOK
    <3>2. CASE ~UNCHANGED disk
      <4> DEFINE m == plan[o][at[o] + 1]
      <4>1. at[o] < Len(plan[o]) /\ disk' = Moved(disk, m, TRUE)
        BY <1>10, <3>2 DEF ApplyFails
      <4>2. plan[o] \in Seq(Move) /\ at[o] \in Nat /\ Len(plan[o]) \in Nat
        BY LenProperties DEF ShelfTypeOK
      <4>3. at[o] + 1 \in 1 .. Len(plan[o])
        BY <4>1, <4>2
      <4>4. m \in Move
        BY <4>2, <4>3, ElementOfSeq
      <4>5. m.from \in Path /\ m.to \in Path
        BY <4>4 DEF Move
      <4> HIDE DEF m
      <4> QED
        BY <4>1, <4>5 DEF Moved, ShelfTypeOK
    <3> QED
      BY <3>1, <3>2
  <2> QED
    BY <1>10, <2>1 DEF ApplyFails, ShelfTypeOK
<1>11. ASSUME NEW o \in Organizer, UndoMove(o) PROVE ShelfTypeOK'
  <2> DEFINE m == plan[o][at[o]]
  <2>1. plan[o] \in Seq(Move) /\ at[o] \in Nat /\ at[o] > 0 /\ at[o] <= Len(plan[o]) /\ Len(plan[o]) \in Nat
    BY <1>11, LenProperties DEF ShelfTypeOK, UndoMove
  <2>2. m \in Move
    <3>1. at[o] \in 1 .. Len(plan[o])
      BY <2>1
    <3> QED
      BY <2>1, <3>1, ElementOfSeq
  <2>3. m.from \in Path /\ m.to \in Path
    BY <2>2 DEF Move
  <2>4. disk' \in [Path -> Digest \cup {NoFile}]
    <3>1. disk' = Undone(disk, m, copying[o])
      BY <1>11 DEF UndoMove
    <3> HIDE DEF m
    <3> QED
      BY <2>3, <3>1 DEF Undone, ShelfTypeOK
  <2>5. troubles' \subseteq Mishap
    <3>1. (IF ~copying[o] /\ Stays(m) THEN {"stranded"} ELSE {}) \subseteq Mishap
      BY DEF Mishap
    <3> QED
      BY <1>11, <3>1, TroubleTypes DEF UndoMove
  <2>6. at' \in [Organizer -> Nat] /\ \A k \in Organizer : at'[k] <= Len(plan[k])
    <3>1. at' = [at EXCEPT ![o] = @ - 1] /\ at \in [Organizer -> Nat]
      BY <1>11 DEF ShelfTypeOK, UndoMove
    <3>2. at[o] - 1 \in Nat /\ at[o] - 1 <= Len(plan[o])
      BY <2>1
    <3> QED
      BY <3>1, <3>2 DEF ShelfTypeOK
  <2> QED
    BY <1>11, <2>4, <2>5, <2>6 DEF UndoMove, ShelfTypeOK
<1>12. ASSUME NEW o \in Organizer, UndoEnds(o) PROVE ShelfTypeOK'
  <2>1. Rests(o) /\ UNCHANGED <<disk, links, across, troubles>>
    BY <1>12 DEF UndoEnds
  <2> QED
    BY <2>1, RestsTypes DEF ShelfTypeOK
<1>13. ASSUME NEW o \in Organizer, OrganizeStops(o) PROVE ShelfTypeOK'
  <2>1. Rests(o) /\ UNCHANGED <<disk, links, across>>
    BY <1>13 DEF OrganizeStops
  <2>2. troubles' \subseteq Mishap
    <3>1. (IF at[o] # 0 THEN {"stopped"} ELSE {}) \subseteq Mishap
      BY DEF Mishap
    <3> QED
      BY <1>13, <3>1, TroubleTypes DEF OrganizeStops
  <2> QED
    BY <2>1, <2>2, RestsTypes DEF ShelfTypeOK
<1>14. ASSUME MoveToNewMachine PROVE ShelfTypeOK'
  <2>1. troubles' \subseteq Mishap
    <3>1. Meddled \cup (IF Twins THEN {"twins"} ELSE {})
            \cup (IF troubles \cap {"stopped", "stranded", "shared", "twins"} # {} THEN {"left"} ELSE {})
            \subseteq Mishap
      BY <1>m DEF Mishap
    <3> QED
      BY <1>14, <3>1, TroubleTypes DEF MoveToNewMachine
  <2>2. disk' \in [Path -> Digest \cup {NoFile}]
    BY <1>14 DEF MoveToNewMachine, ShelfTypeOK
  <2> QED
    BY <1>14, <2>1, <2>2 DEF MoveToNewMachine, ShelfTypeOK, runVars
<1> QED
  BY <1>1, <1>2, <1>3, <1>4, <1>5, <1>6, <1>7, <1>8, <1>9, <1>10, <1>11, <1>12, <1>13, <1>14
  DEF ShelfNext

-----------------------------------------------------------------------------
(* The steps of the other commands. *)

\* What one command after another leaves of the plans: nothing.
LEMMA NobodyOrganizes ==
  ASSUME ShelfTypeOK, UNCHANGED runVars,
         \A o \in Organizer : PlanOK(o) /\ phase[o] = "idle"
  PROVE  /\ Alone' /\ \A o \in Organizer : PlanOK(o)' /\ DiskOK(o)'
         /\ \A o \in Organizer : DOMAIN plan'[o] = {} /\ rows'[o] = {} /\ at'[o] = 0
         /\ \A o \in Organizer : DOMAIN plan[o] = {} /\ rows[o] = {} /\ at[o] = 0
         /\ \A row : ~IsMoved(row)
<1>1. ASSUME NEW o \in Organizer
      PROVE  plan[o] = <<>> /\ DOMAIN plan[o] = {} /\ rows[o] = {} /\ books[o] = {} /\ at[o] = 0
  BY DEF PlanOK
<1>2. UNCHANGED <<phase, books, rows, claimed, plan, at, copying>>
  BY DEF runVars
<1>3. ASSUME NEW o \in Organizer PROVE PlanOK(o)' /\ DiskOK(o)'
  BY <1>1, <1>2 DEF PlanOK, DiskOK
<1> QED
  BY <1>1, <1>2, <1>3 DEF Alone, IsMoved

\* A command that runs beside an organization is an overlap.
LEMMA OverlapOrIdle ==
  ASSUME NEW more, Trouble(Meddled \cup more), ShelfTypeOK, UNCHANGED runVars,
         \A o \in Organizer : PlanOK(o)
  PROVE  \/ "overlap" \in troubles'
         \/ \A o \in Organizer : PlanOK(o) /\ phase[o] = "idle"
BY DEF Trouble, Meddled

\* The rows and their fields are of their types.
LEMMA RowFacts ==
  ASSUME ShelfTypeOK
  PROVE  /\ links \in Seq(LinkRow) /\ Len(links) \in Nat /\ DOMAIN links = 1 .. Len(links)
         /\ \A r \in DOMAIN links : /\ links[r] \in LinkRow /\ links[r].path \in Path
                                    /\ links[r].book \in Book /\ links[r].digest \in Digest
                                    /\ links[r].digest # NoFile
<1>1. links \in Seq(LinkRow)
  BY DEF ShelfTypeOK
<1>2. Len(links) \in Nat /\ DOMAIN links = 1 .. Len(links)
  BY <1>1, LenProperties
<1>3. \A r \in DOMAIN links : links[r] \in LinkRow
  BY <1>1, <1>2, ElementOfSeq
<1> QED
  BY <1>1, <1>2, <1>3, NoFileIsNoDigest DEF LinkRow

\* The rows, when nobody organizes: each has a path and its file.
RowsInPlace ==
  /\ \A r, k \in DOMAIN links : r # k => links[r].path # links[k].path
  /\ \A r \in DOMAIN links : disk[links[r].path] = links[r].digest

\* With no organization the rows are under no plan.
LEMMA IdleRows ==
  ASSUME ShelfTypeOK, UNCHANGED runVars,
         \A o \in Organizer : PlanOK(o) /\ phase[o] = "idle"
  PROVE  (RowsOK => RowsInPlace) /\ (RowsInPlace' => RowsOK')
<1>1. /\ \A o \in Organizer : DOMAIN plan'[o] = {} /\ rows'[o] = {}
      /\ \A row : ~IsMoved(row)
  BY NobodyOrganizes
<1> QED
  BY <1>1 DEF RowsOK, RowsInPlace

\* add_file leaves the rows and may put one behind them.
LEMMA RowsAppended ==
  ASSUME ShelfTypeOK, NEW b \in Book, NEW p \in Path, NEW c \in Digest, Linked(b, p, c)
  PROVE  /\ links' \in Seq(LinkRow)
         /\ DOMAIN links' = 1 .. Len(links') /\ Len(links) \in Nat
         /\ \/ UNCHANGED links
            \/ /\ DOMAIN links' = 1 .. Len(links) + 1
               /\ \A r \in 1 .. Len(links) : links'[r] = links[r]
               /\ links'[Len(links) + 1] = [book |-> b, path |-> p, digest |-> c]
<1>1. links \in Seq(LinkRow) /\ Len(links) \in Nat /\ DOMAIN links = 1 .. Len(links)
  BY RowFacts
<1>2. [book |-> b, path |-> p, digest |-> c] \in LinkRow
  BY DEF LinkRow
<1> DEFINE row == [book |-> b, path |-> p, digest |-> c]
<1>3. /\ Append(links, row) \in Seq(LinkRow)
      /\ Len(Append(links, row)) = Len(links) + 1
      /\ \A i \in 1 .. Len(links) : Append(links, row)[i] = links[i]
      /\ Append(links, row)[Len(links) + 1] = row
  BY <1>1, <1>2, AppendProperties
<1>4. links' \in Seq(LinkRow)
  BY <1>1, <1>3 DEF Linked
<1>5. DOMAIN links' = 1 .. Len(links')
  BY <1>4, LenProperties
<1> QED
  BY <1>1, <1>3, <1>4, <1>5 DEF Linked

\* The disk with a file that was not there, and a row for it or not.
LEMMA FileAppears ==
  ASSUME ShelfTypeOK, NEW p \in Path, NEW c \in Digest,
         disk' = [disk EXCEPT ![p] = c],
         UNCHANGED links \/ (\E b \in Book : Linked(b, p, c))
  PROVE  /\ RowsInPlace /\ (\A r \in DOMAIN links : links[r].path # p) => RowsInPlace'
         /\ NothingLost /\ disk[p] = NoFile => NothingLost'
<1>1. /\ Len(links) \in Nat /\ DOMAIN links = 1 .. Len(links)
      /\ \A r \in DOMAIN links : /\ links[r].path \in Path
                                 /\ links[r].digest \in Digest /\ links[r].digest # NoFile
  BY RowFacts
<1>2. \/ UNCHANGED links
      \/ /\ DOMAIN links' = 1 .. Len(links) + 1
         /\ \A r \in 1 .. Len(links) : links'[r] = links[r]
         /\ links'[Len(links) + 1].path = p /\ links'[Len(links) + 1].digest = c
  <2>1. CASE UNCHANGED links
    BY <2>1
  <2>2. CASE \E b \in Book : Linked(b, p, c)
    <3>1. PICK b \in Book : Linked(b, p, c)
      BY <2>2
    <3>2. \/ UNCHANGED links
          \/ /\ DOMAIN links' = 1 .. Len(links) + 1
             /\ \A r \in 1 .. Len(links) : links'[r] = links[r]
             /\ links'[Len(links) + 1] = [book |-> b, path |-> p, digest |-> c]
      BY <3>1, RowsAppended
    <3> QED
      BY <3>2
  <2> QED
    BY <2>1, <2>2
<1>3. disk'[p] = c /\ \A q \in Path : q # p => disk'[q] = disk[q]
  BY DEF ShelfTypeOK
<1>4. ASSUME RowsInPlace, \A r \in DOMAIN links : links[r].path # p
      PROVE  RowsInPlace'
  <2>1. ASSUME NEW r \in DOMAIN links', NEW k \in DOMAIN links', r # k
        PROVE  links'[r].path # links'[k].path
    BY <1>1, <1>2, <1>4, <2>1 DEF RowsInPlace
  <2>2. ASSUME NEW r \in DOMAIN links' PROVE disk'[links'[r].path] = links'[r].digest
    BY <1>1, <1>2, <1>3, <1>4 DEF RowsInPlace
  <2> QED
    BY <2>1, <2>2 DEF RowsInPlace
<1>5. ASSUME NothingLost, disk[p] = NoFile
      PROVE  NothingLost'
  <2> SUFFICES ASSUME NEW r \in DOMAIN links'
               PROVE  \E q \in Path : disk'[q] = links'[r].digest
    BY DEF NothingLost
  <2>1. CASE r \in DOMAIN links /\ links'[r] = links[r]
    <3>1. PICK q \in Path : disk[q] = links[r].digest
      BY <1>5, <2>1 DEF NothingLost
    <3>2. q # p
      BY <1>1, <1>5, <2>1, <3>1
    <3> QED
      BY <1>3, <2>1, <3>1, <3>2
  <2>2. CASE ~(r \in DOMAIN links /\ links'[r] = links[r])
    <3>1. links'[r].digest = c
      BY <1>1, <1>2, <2>2
    <3> QED
      BY <1>3, <3>1
  <2> QED
    BY <2>1, <2>2
<1> QED
  BY <1>4, <1>5

\* A command that is not an organization: what is left to show of it.
LEMMA SerialStep ==
  ASSUME ShelfInv, ShelfTypeOK', "overlap" \notin troubles, UNCHANGED runVars,
         NEW more, Trouble(Meddled \cup more),
         troubles' \subseteq {"discarded"} /\ RowsInPlace => RowsInPlace',
         troubles' \subseteq Recoverable /\ NothingLost /\ (troubles = {} => RowsInPlace)
           => NothingLost'
  PROVE  ShelfInv'
<1>1. ShelfTypeOK /\ Alone /\ \A o \in Organizer : PlanOK(o) /\ DiskOK(o)
  BY DEF ShelfInv
<1>2. CASE "overlap" \in troubles'
  BY <1>2 DEF ShelfInv, Recoverable
<1>3. CASE \A o \in Organizer : phase[o] = "idle"
  <2>1. Alone' /\ \A o \in Organizer : PlanOK(o)' /\ DiskOK(o)'
    BY <1>1, <1>3, NobodyOrganizes
  <2>2. (RowsOK => RowsInPlace) /\ (RowsInPlace' => RowsOK')
    BY <1>1, <1>3, IdleRows
  <2>3. troubles' \subseteq {"discarded"} => RowsOK'
    BY <2>2 DEF ShelfInv, Trouble
  <2>4. troubles' \subseteq Recoverable => NothingLost'
    BY <2>2 DEF ShelfInv, Trouble
  <2> QED
    BY <2>1, <2>3, <2>4 DEF ShelfInv
<1> QED
  BY <1>1, <1>2, <1>3, OverlapOrIdle

\* A download: no row has the path, since no file was there.
LEMMA DownloadStep ==
  ASSUME ShelfInv, ShelfTypeOK', "overlap" \notin troubles,
         NEW p \in Path, NEW c \in Digest, Download(p, c)
  PROVE  ShelfInv'
<1>1. /\ UNCHANGED runVars /\ UNCHANGED links /\ disk[p] = NoFile
      /\ disk' = [disk EXCEPT ![p] = c] /\ Trouble(Meddled \cup {})
  BY DEF Download, Trouble
<1>2. ShelfTypeOK
  BY DEF ShelfInv
<1>3. RowsInPlace => \A r \in DOMAIN links : links[r].path # p
  BY <1>1, <1>2, RowFacts DEF RowsInPlace
<1>4. (RowsInPlace => RowsInPlace') /\ (NothingLost => NothingLost')
  BY <1>1, <1>2, <1>3, FileAppears
<1> QED
  BY <1>1, <1>4, SerialStep

\* toku file add: the row has the digest of its file, and a path of its own
\* unless it is shared.
LEMMA AddFileStep ==
  ASSUME ShelfInv, ShelfTypeOK', "overlap" \notin troubles,
         NEW p \in Path, NEW b \in Book, AddFile(b, p)
  PROVE  ShelfInv'
<1>1. /\ UNCHANGED runVars /\ disk' = disk /\ disk[p] # NoFile /\ Linked(b, p, disk[p])
      /\ Trouble(Meddled \cup SharesPath(p))
  BY DEF AddFile, Trouble
<1>2. ShelfTypeOK
  BY DEF ShelfInv
<1>3. disk[p] \in Digest /\ disk \in [Path -> Digest \cup {NoFile}]
  BY <1>1, <1>2 DEF ShelfTypeOK
<1>4. disk' = [disk EXCEPT ![p] = disk[p]]
  BY <1>1, <1>3
<1>5. RowsInPlace /\ (\A r \in DOMAIN links : links[r].path # p) => RowsInPlace'
  BY <1>1, <1>2, <1>3, <1>4, FileAppears
<1>6. troubles' \subseteq {"discarded"} => \A r \in DOMAIN links : links[r].path # p
  BY <1>1 DEF Trouble, SharesPath
<1>7. NothingLost => NothingLost'
  <2> SUFFICES ASSUME NothingLost, NEW r \in DOMAIN links'
               PROVE  \E q \in Path : disk[q] = links'[r].digest
    BY <1>1 DEF NothingLost
  <2>1. /\ Len(links) \in Nat /\ DOMAIN links = 1 .. Len(links)
        /\ \/ UNCHANGED links
           \/ /\ DOMAIN links' = 1 .. Len(links) + 1
              /\ \A k \in 1 .. Len(links) : links'[k] = links[k]
              /\ links'[Len(links) + 1] = [book |-> b, path |-> p, digest |-> disk[p]]
    BY <1>1, <1>2, <1>3, RowsAppended, RowFacts
  <2>2. CASE r \in DOMAIN links /\ links'[r] = links[r]
    BY <2>2 DEF NothingLost
  <2>3. CASE ~(r \in DOMAIN links /\ links'[r] = links[r])
    <3>1. links'[r].digest = disk[p]
      BY <2>1, <2>3
    <3> QED
      BY <3>1
  <2> QED
    BY <2>2, <2>3
<1> QED
  BY <1>1, <1>5, <1>6, <1>7, SerialStep

\* toku file remove: the other rows have other paths.
LEMMA RemoveFileStep ==
  ASSUME ShelfInv, ShelfTypeOK', "overlap" \notin troubles,
         NEW r \in DOMAIN links, NEW delete \in BOOLEAN, RemoveFile(r, delete)
  PROVE  ShelfInv'
<1>1. /\ UNCHANGED runVars /\ links' = RemoveAt(links, r)
      /\ disk' = IF delete THEN [disk EXCEPT ![links[r].path] = NoFile] ELSE disk
      /\ Trouble(Meddled \cup IF delete THEN {"discarded"} ELSE {})
  BY DEF RemoveFile
<1>2. ShelfTypeOK
  BY DEF ShelfInv
<1>3. /\ links \in Seq(LinkRow) /\ Len(links) \in Nat /\ DOMAIN links = 1 .. Len(links)
      /\ \A k \in DOMAIN links : links[k].path \in Path
  BY <1>2, RowFacts
<1>4. /\ links' \in Seq(LinkRow) /\ Len(links') = Len(links) - 1
      /\ \A k \in DOMAIN links' : links'[k] = IF k < r THEN links[k] ELSE links[k + 1]
  BY <1>1, <1>3, RemoveAtFacts
<1>5. DOMAIN links' = 1 .. Len(links) - 1
  BY <1>4, LenProperties
<1> DEFINE old(k) == IF k < r THEN k ELSE k + 1
<1>6. \A k \in DOMAIN links' : old(k) \in DOMAIN links \ {r} /\ links'[k] = links[old(k)]
  BY <1>3, <1>4, <1>5
<1>7. \A k, j \in DOMAIN links' : k # j => old(k) # old(j)
  BY <1>3, <1>5
<1> HIDE DEF old
<1>8. ASSUME RowsInPlace PROVE RowsInPlace'
  <2>1. ASSUME NEW k \in DOMAIN links', NEW j \in DOMAIN links', k # j
        PROVE  links'[k].path # links'[j].path
    BY <1>6, <1>7, <1>8, <2>1 DEF RowsInPlace
  <2>2. ASSUME NEW k \in DOMAIN links' PROVE disk'[links'[k].path] = links'[k].digest
    <3>1. links[old(k)].path # links[r].path /\ disk[links[old(k)].path] = links[old(k)].digest
      BY <1>6, <1>8 DEF RowsInPlace
    <3> QED
      BY <1>1, <1>2, <1>3, <1>6, <3>1 DEF ShelfTypeOK
  <2> QED
    BY <2>1, <2>2 DEF RowsInPlace
<1>9. ASSUME troubles' \subseteq Recoverable, NothingLost PROVE NothingLost'
  <2>1. disk' = disk
    BY <1>1, <1>9 DEF Trouble, Recoverable
  <2> QED
    BY <1>6, <1>9, <2>1 DEF NothingLost
<1> QED
  BY <1>1, <1>8, <1>9, SerialStep

\* toku convert: the output is at a path of no row, or it is a mishap.
LEMMA ConvertStep ==
  ASSUME ShelfInv, ShelfTypeOK', "overlap" \notin troubles, NEW r \in DOMAIN links,
         NEW f \in Format, NEW forced \in BOOLEAN, NEW c \in Digest, Convert(r, f, forced, c)
  PROVE  ShelfInv'
<1> DEFINE to == <<links[r].path[1], f>>
           over == IF disk[to] # NoFile THEN {"discarded"} ELSE {}
<1>1. /\ UNCHANGED runVars /\ disk' = [disk EXCEPT ![to] = c]
      /\ Linked(links[r].book, to, c)
      /\ Trouble(Meddled \cup (SharesPath(to) \cup over))
  BY DEF Convert, Trouble
<1>2. ShelfTypeOK
  BY DEF ShelfInv
<1>3. links[r].path \in Path /\ links[r].book \in Book
  BY <1>2, RowFacts
<1>4. to \in Path
  BY <1>3 DEF Path
<1>5. /\ RowsInPlace /\ (\A k \in DOMAIN links : links[k].path # to) => RowsInPlace'
      /\ NothingLost /\ disk[to] = NoFile => NothingLost'
  <2> HIDE DEF to
  <2> QED
    BY <1>1, <1>2, <1>3, <1>4, FileAppears
<1>6. troubles' \subseteq {"discarded"} => \A k \in DOMAIN links : links[k].path # to
  BY <1>1 DEF Trouble, SharesPath
<1>7. troubles' \subseteq Recoverable => disk[to] = NoFile
  BY <1>1 DEF Trouble, Recoverable
<1> HIDE DEF over, to
<1> QED
  BY <1>1, <1>5, <1>6, <1>7, SerialStep

\* Of the rows with an entry, one is the first.
LEMMA FirstRow ==
  ASSUME ShelfTypeOK, NEW r \in DOMAIN links
  PROVE  \E k \in DOMAIN links : First(k) /\ Entry(links[k]) = Entry(links[r])
<1>1. Len(links) \in Nat /\ DOMAIN links = 1 .. Len(links)
  BY RowFacts
<1> DEFINE T == {k \in DOMAIN links : Entry(links[k]) = Entry(links[r])}
<1>2. T \subseteq Nat /\ T # {}
  BY <1>1
<1>3. PICK k \in T : \A j \in T : ~(<<j, k>> \in OpToRel(<, Nat))
  <2> HIDE DEF T
  <2> QED
    BY <1>2, WFMin, NatLessThanWellFounded
<1>4. k \in T /\ \A j \in T : ~(j < k)
  BY <1>2, <1>3 DEF OpToRel
<1>5. First(k)
  <2>1. ASSUME NEW j \in 1 .. k - 1 PROVE Entry(links[j]) # Entry(links[k])
    <3>1. k \in 1 .. Len(links) /\ Entry(links[k]) = Entry(links[r])
      BY <1>1, <1>4
    <3>2. j \in 1 .. Len(links) /\ j < k
      BY <1>1, <3>1
    <3> QED
      BY <1>1, <1>4, <3>1, <3>2
  <2> QED
    BY <2>1 DEF First
<1> QED
  BY <1>4, <1>5

\* A restore elsewhere: the first row with an entry has its file, and so have
\* all without twins.
LEMMA NewMachineStep ==
  ASSUME ShelfInv, ShelfTypeOK', "overlap" \notin troubles, MoveToNewMachine
  PROVE  ShelfInv'
<1> DEFINE twins == IF Twins THEN {"twins"} ELSE {}
           left == IF troubles \cap {"stopped", "stranded", "shared", "twins"} # {}
                   THEN {"left"} ELSE {}
<1>1. /\ UNCHANGED runVars /\ links' = links
      /\ disk' = [p \in Path |->
           IF \E r \in DOMAIN links : First(r) /\ links[r].path = p THEN disk[p] ELSE NoFile]
      /\ Trouble(Meddled \cup (twins \cup left))
  BY DEF MoveToNewMachine, Trouble
<1>2. ShelfTypeOK
  BY DEF ShelfInv
<1>3. \A r \in DOMAIN links : links[r].path \in Path /\ disk[links[r].path] \in File
  BY <1>2, RowFacts DEF ShelfTypeOK, File
<1>4. ASSUME NEW r \in DOMAIN links, RowsInPlace
      PROVE  \E k \in DOMAIN links : /\ Entry(links[k]) = Entry(links[r])
                                     /\ disk'[links[k].path] = links[k].digest
  <2>1. PICK k \in DOMAIN links : First(k) /\ Entry(links[k]) = Entry(links[r])
    BY <1>2, FirstRow
  <2>2. disk'[links[k].path] = disk[links[k].path]
    BY <1>1, <1>3, <2>1
  <2> QED
    BY <1>4, <2>1, <2>2 DEF RowsInPlace
<1>5. ASSUME troubles' \subseteq {"discarded"}, RowsInPlace
      PROVE  RowsInPlace'
  <2>1. ~Twins
    BY <1>1, <1>5 DEF Trouble
  <2>2. ASSUME NEW r \in DOMAIN links PROVE disk'[links[r].path] = links[r].digest
    <3>1. PICK k \in DOMAIN links : /\ Entry(links[k]) = Entry(links[r])
                                    /\ disk'[links[k].path] = links[k].digest
      BY <1>4, <1>5
    <3>2. links[k].path = links[r].path
      BY <2>1, <3>1 DEF Twins
    <3>3. k = r
      BY <1>5, <3>2 DEF RowsInPlace
    <3> QED
      BY <3>1, <3>3
  <2> QED
    BY <1>1, <1>5, <2>2 DEF RowsInPlace
<1>6. ASSUME troubles' \subseteq Recoverable, troubles = {} => RowsInPlace
      PROVE  NothingLost'
  <2>1. troubles = {}
    BY <1>1, <1>6 DEF Trouble, Recoverable
  <2>2. RowsInPlace
    BY <1>6, <2>1
  <2> SUFFICES ASSUME NEW r \in DOMAIN links PROVE \E p \in Path : disk'[p] = links[r].digest
    BY <1>1 DEF NothingLost
  <2>3. PICK k \in DOMAIN links : /\ Entry(links[k]) = Entry(links[r])
                                  /\ disk'[links[k].path] = links[k].digest
    BY <1>4, <2>2
  <2>4. links[k].digest = links[r].digest
    BY <2>3 DEF Entry
  <2> QED
    BY <1>3, <2>3, <2>4
<1> HIDE DEF twins, left
<1> QED
  BY <1>1, <1>5, <1>6, SerialStep

-----------------------------------------------------------------------------
(* The steps of an organization. *)

OthersIdle(o) ==
  \A k \in Organizer \ {o} : phase[k] = "idle" /\ books[k] = {} /\ rows[k] = {}
                               /\ plan[k] = <<>> /\ at[k] = 0

MovedBy(o, row) ==
  ~copying[o] /\ \E i \in 1 .. at[o] : plan[o][i].link = row /\ disk[plan[o][i].to] = row.digest

\* RowsOK for the one that organizes.
RowsUnder(o) ==
  /\ \A r, k \in DOMAIN links : r # k => links[r].path # links[k].path
  /\ \A i \in DOMAIN plan[o] : \E r \in DOMAIN links : plan[o][i].link = links[r]
  /\ \A row \in rows[o] : \E r \in DOMAIN links : row = links[r]
  /\ \A i \in DOMAIN plan[o], r \in DOMAIN links : plan[o][i].to # links[r].path
  /\ \A r \in DOMAIN links : disk[links[r].path] = links[r].digest \/ MovedBy(o, links[r])

\* With the others idle, the rows are under the plan of one.
LEMMA OnlyOne ==
  ASSUME ShelfTypeOK, NEW o \in Organizer, OthersIdle(o)
  PROVE  RowsOK <=> RowsUnder(o)
<1>1. ASSUME NEW k \in Organizer \ {o}
      PROVE  plan[k] = <<>> /\ DOMAIN plan[k] = {} /\ rows[k] = {} /\ books[k] = {} /\ at[k] = 0
               /\ phase[k] = "idle"
  BY DEF OthersIdle
<1>2. ASSUME NEW row PROVE IsMoved(row) <=> MovedBy(o, row)
  BY <1>1 DEF IsMoved, MovedBy
<1> QED
  BY <1>1, <1>2 DEF RowsOK, RowsUnder

\* What the invariant says to the one that organizes.
LEMMA OrganizerBefore ==
  ASSUME ShelfInv, "overlap" \notin troubles, NEW o \in Organizer, phase[o] # "idle"
  PROVE  /\ ShelfTypeOK /\ OthersIdle(o) /\ PlanOK(o) /\ DiskOK(o)
         /\ troubles \subseteq {"discarded"} => RowsUnder(o)
         /\ troubles \subseteq Recoverable => NothingLost
<1>1. ShelfTypeOK /\ Alone /\ \A k \in Organizer : PlanOK(k) /\ DiskOK(k)
  BY DEF ShelfInv
<1>2. OthersIdle(o)
  BY <1>1 DEF Alone, PlanOK, OthersIdle
<1> QED
  BY <1>1, <1>2, OnlyOne DEF ShelfInv

\* OnlyOne of the state after a step.
LEMMA OrganizerAfter ==
  ASSUME ShelfTypeOK', NEW o \in Organizer, OthersIdle(o)', PlanOK(o)', DiskOK(o)',
         troubles' \subseteq {"discarded"} => RowsUnder(o)',
         troubles' \subseteq Recoverable => NothingLost'
  PROVE  ShelfInv'
<1>1. ASSUME NEW k \in Organizer \ {o}
      PROVE  /\ plan'[k] = <<>> /\ DOMAIN plan'[k] = {} /\ rows'[k] = {} /\ books'[k] = {}
             /\ at'[k] = 0 /\ phase'[k] = "idle"
  BY DEF OthersIdle
<1>2. \A k \in Organizer \ {o} : PlanOK(k)' /\ DiskOK(k)'
  BY <1>1 DEF PlanOK, DiskOK
<1>3. Alone'
  BY <1>1 DEF Alone
<1>4. ASSUME NEW row PROVE MovedBy(o, row)' => IsMoved(row)'
  BY DEF IsMoved, MovedBy
<1>5. RowsUnder(o)' => RowsOK'
  BY <1>1, <1>4 DEF RowsOK, RowsUnder
<1> QED
  BY <1>2, <1>3, <1>5 DEF ShelfInv

\* A plan and its progress are of their types.
LEMMA PlanFacts ==
  ASSUME ShelfTypeOK, NEW o \in Organizer
  PROVE  /\ Len(plan[o]) \in Nat /\ DOMAIN plan[o] = 1 .. Len(plan[o])
         /\ plan[o] \in Seq(Move) /\ at[o] \in Nat /\ at[o] <= Len(plan[o])
         /\ \A i \in DOMAIN plan[o] : /\ plan[o][i] \in Move /\ plan[o][i].from \in Path
                                      /\ plan[o][i].to \in Path
<1>1. plan[o] \in Seq(Move) /\ at[o] \in Nat /\ at[o] <= Len(plan[o])
  BY DEF ShelfTypeOK
<1>2. Len(plan[o]) \in Nat /\ DOMAIN plan[o] = 1 .. Len(plan[o])
  BY <1>1, LenProperties
<1>3. \A i \in DOMAIN plan[o] : plan[o][i] \in Move
  BY <1>1, <1>2, ElementOfSeq
<1> QED
  BY <1>1, <1>2, <1>3 DEF Move

\* An organization that ends: the others were idle, and it is.
LEMMA OrganizerRests ==
  ASSUME ShelfTypeOK, NEW o \in Organizer, OthersIdle(o), Rests(o)
  PROVE  /\ OthersIdle(o)' /\ PlanOK(o)' /\ DiskOK(o)'
         /\ RowsInPlace' => RowsUnder(o)'
<1>1. /\ phase'[o] = "idle" /\ books'[o] = {} /\ rows'[o] = {} /\ plan'[o] = <<>> /\ at'[o] = 0
      /\ DOMAIN plan'[o] = {}
  BY DEF Rests, ShelfTypeOK
<1>2. OthersIdle(o)'
  BY DEF Rests, ShelfTypeOK, OthersIdle
<1>3. PlanOK(o)' /\ DiskOK(o)'
  BY <1>1 DEF PlanOK, DiskOK
<1>4. RowsInPlace' => RowsUnder(o)'
  BY <1>1 DEF RowsInPlace, RowsUnder
<1> QED
  BY <1>2, <1>3, <1>4

\* An organization of which nothing is done.
LEMMA NothingMoved ==
  ASSUME NEW o \in Organizer, RowsUnder(o), at[o] = 0
  PROVE  RowsInPlace
<1>1. \A row : ~MovedBy(o, row)
  BY DEF MovedBy
<1> QED
  BY <1>1 DEF RowsUnder, RowsInPlace

\* An organization begins: beside another it is an overlap, else its plan is
\* empty.
LEMMA PlanBeginStep ==
  ASSUME ShelfInv, ShelfTypeOK', "overlap" \notin troubles, NEW o \in Organizer,
         NEW chosen, NEW copy, PlanBegin(o, chosen, copy)
  PROVE  ShelfInv'
<1>1. ShelfTypeOK /\ \A k \in Organizer : PlanOK(k)
  BY DEF ShelfInv
<1>2. /\ phase'[o] = "run" /\ books'[o] = chosen /\ rows'[o] = {} /\ plan'[o] = <<>>
      /\ at'[o] = 0 /\ DOMAIN plan'[o] = {} /\ DOMAIN plan[o] = {} /\ at[o] = 0
      /\ Trouble(Meddled) /\ UNCHANGED <<disk, links>>
  BY <1>1 DEF PlanBegin, PlanOK, ShelfTypeOK
<1>3. PlanOK(o)' /\ DiskOK(o)'
  BY <1>2 DEF PlanOK, DiskOK
<1>4. CASE \E k \in Organizer : phase[k] # "idle"
  <2>1. "overlap" \in troubles'
    BY <1>2, <1>4 DEF Trouble, Meddled
  <2> QED
    BY <2>1 DEF ShelfInv, Recoverable
<1>5. CASE \A k \in Organizer : phase[k] = "idle"
  <2>1. OthersIdle(o) /\ OthersIdle(o)'
    BY <1>1, <1>5 DEF PlanOK, PlanBegin, OthersIdle, ShelfTypeOK
  <2>2. troubles' = troubles
    BY <1>2, <1>5 DEF Trouble, Meddled
  <2>3. troubles \subseteq {"discarded"} => RowsUnder(o)
    BY <1>1, <2>1, OnlyOne DEF ShelfInv
  <2>4. RowsUnder(o) => RowsUnder(o)'
    <3>1. RowsUnder(o) => RowsInPlace
      BY <1>2, NothingMoved
    <3>2. RowsInPlace => RowsInPlace'
      BY <1>2 DEF RowsInPlace
    <3>3. RowsInPlace' => RowsUnder(o)'
      BY <1>2 DEF RowsInPlace, RowsUnder
    <3> QED
      BY <3>1, <3>2, <3>3
  <2>5. troubles \subseteq Recoverable => NothingLost'
    BY <1>2 DEF ShelfInv, NothingLost
  <2> HIDE DEF OthersIdle
  <2> QED
    BY <1>3, <2>1, <2>2, <2>3, <2>4, <2>5, OrganizerAfter
<1> QED
  BY <1>4, <1>5

\* The rows of the next book are listed: they are rows of the table.
LEMMA PlanBookStep ==
  ASSUME ShelfInv, ShelfTypeOK', "overlap" \notin troubles, NEW o \in Organizer,
         NEW b, PlanBook(o, b)
  PROVE  ShelfInv'
<1>1. phase[o] = "run" /\ b \in books[o]
  BY DEF PlanBook
<1>2. /\ ShelfTypeOK /\ OthersIdle(o) /\ PlanOK(o) /\ DiskOK(o)
      /\ troubles \subseteq {"discarded"} => RowsUnder(o)
      /\ troubles \subseteq Recoverable => NothingLost
  BY <1>1, OrganizerBefore
<1>3. UNCHANGED <<disk, links, phase, claimed, plan, at, copying, troubles>>
  BY DEF PlanBook
<1>4. at[o] = 0
  BY <1>1, <1>2 DEF PlanOK
<1>5. OthersIdle(o)'
  BY <1>2 DEF PlanBook, OthersIdle, ShelfTypeOK
<1>6. PlanOK(o)' /\ DiskOK(o)'
  <2>1. PlanOK(o)'
    BY <1>1, <1>2, <1>3, <1>4 DEF PlanOK
  <2>2. DiskOK(o)'
    BY <1>2, <1>3 DEF DiskOK
  <2> QED
    BY <2>1, <2>2
<1>7. RowsUnder(o) => RowsUnder(o)'
  <2>1. rows'[o] \subseteq ToSet(links)
    BY <1>2 DEF PlanBook, ShelfTypeOK
  <2>2. \A row \in rows'[o] : \E r \in DOMAIN links : row = links[r]
    BY <2>1 DEF ToSet
  <2>3. \A row : MovedBy(o, row) <=> MovedBy(o, row)'
    BY <1>3 DEF MovedBy
  <2> QED
    BY <1>3, <2>2, <2>3 DEF RowsUnder
<1>8. NothingLost => NothingLost'
  BY <1>3 DEF NothingLost
<1> QED
  BY <1>2, <1>3, <1>5, <1>6, <1>7, <1>8, OrganizerAfter

\* A file is planned: its target is free, hence no source, no path and no other
\* target.
LEMMA PlanFileStep ==
  ASSUME ShelfInv, ShelfTypeOK', "overlap" \notin troubles, NEW o \in Organizer,
         NEW row \in rows[o], PlanFile(o, row)
  PROVE  ShelfInv'
<1>1. phase[o] = "run"
  BY DEF PlanFile
<1>2. /\ ShelfTypeOK /\ OthersIdle(o) /\ PlanOK(o) /\ DiskOK(o)
      /\ troubles \subseteq {"discarded"} => RowsUnder(o)
      /\ troubles \subseteq Recoverable => NothingLost
  BY <1>1, OrganizerBefore
<1>3. UNCHANGED <<disk, links, phase, books, at, copying, troubles>>
  BY DEF PlanFile
<1>4. at[o] = 0
  BY <1>2 DEF PlanOK
<1>5. OthersIdle(o)'
  <2>1. \A k \in Organizer \ {o} : plan'[k] = plan[k]
    BY <1>2 DEF PlanFile, ShelfTypeOK
  <2>2. \A k \in Organizer \ {o} : rows'[k] = rows[k]
    BY <1>2 DEF PlanFile, ShelfTypeOK
  <2> QED
    BY <1>2, <1>3, <2>1, <2>2 DEF OthersIdle
<1>6. rows'[o] \subseteq rows[o]
  BY <1>2 DEF PlanFile, ShelfTypeOK
<1>7. NothingLost => NothingLost'
  BY <1>3 DEF NothingLost
<1>8. CASE UNCHANGED plan /\ claimed[o] \subseteq claimed'[o]
  <2>1. PlanOK(o)'
    BY <1>1, <1>2, <1>3, <1>4, <1>6, <1>8 DEF PlanOK
  <2>2. DiskOK(o)'
    BY <1>2, <1>3, <1>8 DEF DiskOK
  <2>3. RowsUnder(o) => RowsUnder(o)'
    <3>1. \A x : MovedBy(o, x) <=> MovedBy(o, x)'
      BY <1>3, <1>8 DEF MovedBy
    <3> QED
      BY <1>3, <1>6, <1>8, <3>1 DEF RowsUnder
  <2> QED
    BY <1>2, <1>3, <1>5, <1>7, <2>1, <2>2, <2>3, OrganizerAfter
<1>9. CASE ~(UNCHANGED plan /\ claimed[o] \subseteq claimed'[o])
  <2>1. PICK to \in Targets(row.path, claimed[o]) :
          /\ claimed' = [claimed EXCEPT ![o] = @ \cup {to}]
          /\ plan' = IF to = row.path THEN plan
                     ELSE [plan EXCEPT ![o] =
                             Append(@, [link |-> row, from |-> row.path, to |-> to])]
    <3>1. ~UNCHANGED <<claimed, plan>>
      BY <1>9
    <3> QED
      BY <3>1 DEF PlanFile
  <2>2. claimed'[o] = claimed[o] \cup {to}
    BY <1>2, <2>1 DEF ShelfTypeOK
  <2>3. to # row.path
    BY <1>9, <2>1, <2>2
  <2> DEFINE m == [link |-> row, from |-> row.path, to |-> to]
             n == Len(plan[o])
  <2>4. row \in LinkRow /\ row.path \in Path
    BY <1>2 DEF ShelfTypeOK, LinkRow
  <2>5. to \in Path /\ to \notin claimed[o] /\ disk[to] = NoFile
    BY <2>1, <2>3, <2>4, TargetFacts
  <2>6. disk[row.path] # NoFile
    BY <1>9, <2>1 DEF PlanFile
  <2>7. m \in Move
    BY <2>4, <2>5 DEF Move
  <2>8. /\ n \in Nat /\ DOMAIN plan[o] = 1 .. n /\ plan[o] \in Seq(Move)
    BY <1>2, PlanFacts
  <2>9. plan'[o] = Append(plan[o], m)
    BY <1>2, <2>1, <2>3 DEF ShelfTypeOK
  <2>10. /\ DOMAIN plan'[o] = 1 .. n + 1 /\ plan'[o][n + 1] = m
         /\ \A i \in 1 .. n : plan'[o][i] = plan[o][i]
    BY <2>7, <2>8, <2>9, AppendProperties, LenProperties
  <2>11. \A i \in 1 .. n : /\ plan[o][i].from = plan[o][i].link.path /\ plan[o][i].to \in claimed[o]
                           /\ disk[plan[o][i].from] # NoFile /\ disk[plan[o][i].to] = NoFile
    BY <1>1, <1>2, <1>4, <2>8 DEF PlanOK, DiskOK
  <2>12. \A i \in 1 .. n + 1 : i \in 1 .. n \/ i = n + 1
    BY <2>8
  <2>13. m.from = row.path /\ m.link = row /\ m.to = to
    OBVIOUS
  <2> HIDE DEF m, n
  <2>14. PlanOK(o)'
    <3>1. ASSUME NEW i \in 1 .. n + 1
          PROVE  plan'[o][i].from = plan'[o][i].link.path /\ plan'[o][i].to \in claimed'[o]
      BY <2>2, <2>10, <2>11, <2>12, <2>13
    <3>2. ASSUME NEW i \in 1 .. n + 1, NEW j \in 1 .. n + 1
          PROVE  plan'[o][i].to # plan'[o][j].from
      <4>1. \A k, l \in 1 .. n : plan[o][k].to # plan[o][l].from
        BY <1>2, <2>8 DEF PlanOK
      <4> QED
        BY <2>3, <2>5, <2>6, <2>10, <2>11, <2>12, <2>13, <4>1
    <3>3. ASSUME NEW i \in 1 .. n + 1, NEW j \in 1 .. n + 1, i # j
          PROVE  plan'[o][i].to # plan'[o][j].to
      <4>1. \A k, l \in 1 .. n : k # l => plan[o][k].to # plan[o][l].to
        BY <1>2, <2>8 DEF PlanOK
      <4> QED
        BY <2>5, <2>10, <2>11, <2>12, <2>13, <3>3, <4>1
    <3> QED
      BY <1>1, <1>3, <1>4, <2>10, <3>1, <3>2, <3>3 DEF PlanOK
  <2>15. DiskOK(o)'
    <3>1. \A i \in 1 .. n + 1 : disk[plan'[o][i].from] # NoFile /\ disk[plan'[o][i].to] = NoFile
      BY <2>5, <2>6, <2>10, <2>11, <2>12, <2>13
    <3>2. \A i \in DOMAIN plan'[o] : ~(i <= 0)
      BY <2>8, <2>10
    <3> QED
      BY <1>3, <1>4, <2>10, <3>1, <3>2 DEF DiskOK
  <2>16. RowsUnder(o) => RowsUnder(o)'
    <3> SUFFICES ASSUME RowsUnder(o) PROVE RowsUnder(o)'
      OBVIOUS
    <3>1. RowsInPlace
      BY <1>4, NothingMoved
    <3>2. PICK k \in DOMAIN links : row = links[k]
      BY DEF RowsUnder
    <3>3. \A r \in DOMAIN links : to # links[r].path
      BY <1>2, <2>5, <3>1, RowFacts DEF RowsInPlace
    <3>4. \A i \in 1 .. n + 1 : \E r \in DOMAIN links : plan'[o][i].link = links[r]
      BY <2>8, <2>10, <2>12, <2>13, <3>2 DEF RowsUnder
    <3>5. \A i \in 1 .. n + 1, r \in DOMAIN links : plan'[o][i].to # links[r].path
      BY <2>8, <2>10, <2>12, <2>13, <3>3 DEF RowsUnder
    <3> QED
      BY <1>3, <1>6, <2>10, <3>1, <3>4, <3>5 DEF RowsUnder, RowsInPlace
  <2> QED
    BY <1>2, <1>3, <1>5, <1>7, <2>14, <2>15, <2>16, OrganizerAfter
<1> QED
  BY <1>8, <1>9

\* A file that goes where none was is still there.
LEMMA MoveKeepsFiles ==
  ASSUME ShelfTypeOK, NEW m \in Move, NEW copy, m.to # m.from, disk[m.to] = NoFile,
         disk' = Moved(disk, m, copy), links' = links, NothingLost
  PROVE  NothingLost'
<1>0. disk \in [Path -> File] /\ m.to \in Path
  BY DEF ShelfTypeOK, Move, File
<1>1. /\ disk'[m.to] = disk[m.from] /\ m.to \in Path
      /\ \A p \in Path : p # m.to /\ p # m.from => disk'[p] = disk[p]
  BY <1>0, MovedAt
<1> SUFFICES ASSUME NEW r \in DOMAIN links PROVE \E p \in Path : disk'[p] = links[r].digest
  BY DEF NothingLost
<1>2. PICK p \in Path : disk[p] = links[r].digest
  BY DEF NothingLost
<1>3. p # m.to
  BY <1>2, RowFacts
<1>4. CASE p = m.from
  BY <1>1, <1>2, <1>4
<1>5. CASE p # m.from
  BY <1>1, <1>2, <1>3, <1>5
<1> QED
  BY <1>4, <1>5

\* A file is moved or copied: no other file of the plan or of a row is touched.
LEMMA ApplyMoveStep ==
  ASSUME ShelfInv, ShelfTypeOK', "overlap" \notin troubles, NEW o \in Organizer, ApplyMove(o)
  PROVE  ShelfInv'
<1>1. phase[o] = "run" /\ books[o] = {} /\ rows[o] = {} /\ at[o] < Len(plan[o])
  BY DEF ApplyMove, Applies
<1>2. /\ ShelfTypeOK /\ OthersIdle(o) /\ PlanOK(o) /\ DiskOK(o)
      /\ troubles \subseteq {"discarded"} => RowsUnder(o)
      /\ troubles \subseteq Recoverable => NothingLost
  BY <1>1, OrganizerBefore
<1> DEFINE n == at[o] + 1
           m == plan[o][n]
<1>3. /\ UNCHANGED <<links, phase, books, rows, claimed, plan, copying, troubles>>
      /\ disk' = Moved(disk, m, copying[o]) /\ disk[m.from] # NoFile
  BY DEF ApplyMove
<1>4. at'[o] = n
  BY <1>2 DEF ApplyMove, ShelfTypeOK
<1>5. OthersIdle(o)'
  BY <1>2 DEF ApplyMove, OthersIdle, ShelfTypeOK
<1>6. /\ Len(plan[o]) \in Nat /\ DOMAIN plan[o] = 1 .. Len(plan[o])
      /\ at[o] \in Nat /\ n \in 1 .. Len(plan[o])
      /\ m \in Move /\ m.from \in Path /\ m.to \in Path
      /\ \A i \in DOMAIN plan[o] : plan[o][i].from \in Path /\ plan[o][i].to \in Path
  <2>1. /\ Len(plan[o]) \in Nat /\ DOMAIN plan[o] = 1 .. Len(plan[o])
        /\ at[o] \in Nat /\ at[o] <= Len(plan[o])
        /\ \A i \in DOMAIN plan[o] : /\ plan[o][i] \in Move /\ plan[o][i].from \in Path
                                     /\ plan[o][i].to \in Path
    BY <1>2, PlanFacts
  <2>2. n \in 1 .. Len(plan[o])
    BY <1>1, <2>1
  <2> QED
    BY <2>1, <2>2
<1>7. \A i \in DOMAIN plan[o] : (i <= n <=> (i <= at[o] \/ i = n)) /\ (i > n => i > at[o] /\ i # n)
  BY <1>6
<1>8. \A i, j \in DOMAIN plan[o] : plan[o][i].to # plan[o][j].from
  BY <1>2 DEF PlanOK
<1>9. \A i, j \in DOMAIN plan[o] : i # j => plan[o][i].to # plan[o][j].to
  BY <1>2 DEF PlanOK
<1>10. m.to # m.from /\ disk[m.to] = NoFile /\ n > at[o]
  BY <1>1, <1>2, <1>6, <1>8 DEF DiskOK
<1>11. /\ disk'[m.to] = disk[m.from]
       /\ disk'[m.from] = IF copying[o] THEN disk[m.from] ELSE NoFile
       /\ \A p \in Path : p # m.to /\ p # m.from => disk'[p] = disk[p]
  <2>1. disk \in [Path -> File]
    BY <1>2 DEF ShelfTypeOK, File
  <2> HIDE DEF n, m
  <2> QED
    BY <1>3, <1>6, <1>10, <2>1, MovedAt
<1>12. \A i \in DOMAIN plan[o] : i <= at[o] => i # n
  BY <1>6
<1> HIDE DEF n, m
<1>m. m = plan[o][n] /\ n \in DOMAIN plan[o]
  BY <1>6 DEF m
<1>13. PlanOK(o)'
  BY <1>1, <1>2, <1>3 DEF PlanOK
<1>14. DiskOK(o)'
  <2>1. ASSUME NEW i \in DOMAIN plan[o], i > n PROVE disk'[plan[o][i].to] = NoFile
    BY <1>1, <1>2, <1>6, <1>7, <1>8, <1>9, <1>11, <1>m, <2>1 DEF DiskOK
  <2>2. ASSUME copying[o], NEW i \in DOMAIN plan[o], i <= n
        PROVE  disk'[plan[o][i].from] # NoFile /\ disk'[plan[o][i].to] = disk'[plan[o][i].from]
    <3>1. CASE i = n
      BY <1>3, <1>11, <1>m, <2>2, <3>1
    <3>2. CASE i <= at[o]
      <4>1. disk[plan[o][i].from] # NoFile /\ disk[plan[o][i].to] = disk[plan[o][i].from]
        BY <1>2, <2>2, <3>2 DEF DiskOK
      <4>2. disk'[plan[o][i].from] = disk[plan[o][i].from]
        BY <1>6, <1>8, <1>11, <1>m, <2>2
      <4>3. disk'[plan[o][i].to] = disk[plan[o][i].to]
        BY <1>6, <1>8, <1>9, <1>11, <1>12, <1>m, <3>2
      <4> QED
        BY <4>1, <4>2, <4>3
    <3> QED
      BY <1>7, <2>2, <3>1, <3>2
  <2>3. ASSUME ~copying[o], NEW i \in DOMAIN plan[o], i <= n
        PROVE  disk'[plan[o][i].from] = NoFile
    <3>1. CASE plan[o][i].from = m.from
      BY <1>11, <2>3, <3>1
    <3>2. CASE plan[o][i].from # m.from
      <4>1. i <= at[o]
        BY <1>7, <1>m, <2>3, <3>2
      <4>2. disk[plan[o][i].from] = NoFile
        BY <1>2, <2>3, <4>1 DEF DiskOK
      <4> QED
        BY <1>6, <1>8, <1>11, <1>m, <3>2, <4>2
    <3> QED
      BY <3>1, <3>2
  <2>4. ASSUME ~copying[o], NEW i \in DOMAIN plan[o], NEW j \in DOMAIN plan[o],
               i <= n, j <= n, i # j
        PROVE  plan[o][i].from # plan[o][j].from
    <3>1. \A k \in DOMAIN plan[o] : k <= at[o] => disk[plan[o][k].from] = NoFile
      BY <1>2, <2>4 DEF DiskOK
    <3>2. \A k, l \in DOMAIN plan[o] : k <= at[o] /\ l <= at[o] /\ k # l =>
            plan[o][k].from # plan[o][l].from
      BY <1>2, <2>4 DEF DiskOK
    <3> QED
      BY <1>3, <1>7, <1>m, <2>4, <3>1, <3>2
  <2>5. at'[o] # 0
    BY <1>4, <1>6 DEF n
  <2> QED
    BY <1>3, <1>4, <2>1, <2>2, <2>3, <2>4, <2>5 DEF DiskOK
<1>15. RowsUnder(o) => RowsUnder(o)'
  <2> SUFFICES ASSUME RowsUnder(o) PROVE RowsUnder(o)'
    OBVIOUS
  <2>1. /\ \A r, k \in DOMAIN links : r # k => links[r].path # links[k].path
        /\ \A i \in DOMAIN plan[o] : \E r \in DOMAIN links : plan[o][i].link = links[r]
        /\ \A i \in DOMAIN plan[o], r \in DOMAIN links : plan[o][i].to # links[r].path
        /\ \A r \in DOMAIN links : disk[links[r].path] = links[r].digest \/ MovedBy(o, links[r])
    BY DEF RowsUnder
  <2>2. \A r \in DOMAIN links : links[r].path \in Path
    BY <1>2, RowFacts
  <2>3. ASSUME NEW r \in DOMAIN links
        PROVE  disk'[links[r].path] = links[r].digest \/ MovedBy(o, links[r])'
    <3>1. CASE MovedBy(o, links[r])
      <4>1. PICK i \in 1 .. at[o] : /\ ~copying[o] /\ plan[o][i].link = links[r]
                                    /\ disk[plan[o][i].to] = links[r].digest
        BY <3>1 DEF MovedBy
      <4>2. i \in DOMAIN plan[o] /\ i # n /\ i \in 1 .. n
        BY <1>6 DEF n
      <4>3. disk'[plan[o][i].to] = disk[plan[o][i].to]
        BY <1>6, <1>8, <1>9, <1>11, <1>m, <4>2
      <4> QED
        BY <1>3, <1>4, <4>1, <4>2, <4>3 DEF MovedBy
    <3>2. CASE disk[links[r].path] = links[r].digest /\ (copying[o] \/ links[r].path # m.from)
      <4>1. links[r].path # m.to
        BY <1>m, <2>1
      <4> QED
        BY <1>11, <2>2, <3>2, <4>1
    <3>3. CASE disk[links[r].path] = links[r].digest /\ ~copying[o] /\ links[r].path = m.from
      <4>1. m.from = m.link.path
        BY <1>2, <1>m DEF PlanOK
      <4>2. m.link = links[r]
        BY <1>m, <2>1, <3>3, <4>1
      <4>3. n \in 1 .. n
        BY <1>6 DEF n
      <4> QED
        BY <1>3, <1>4, <1>11, <1>m, <3>3, <4>2, <4>3 DEF MovedBy
    <3> QED
      BY <2>1, <3>1, <3>2, <3>3
  <2> QED
    BY <1>1, <1>3, <2>1, <2>3 DEF RowsUnder
<1>16. NothingLost => NothingLost'
  BY <1>2, <1>3, <1>6, <1>10, MoveKeepsFiles
<1> QED
  BY <1>2, <1>3, <1>5, <1>13, <1>14, <1>15, <1>16, OrganizerAfter

\* A move fails: nothing is moved, or a copy is left at the target.
LEMMA ApplyFailsStep ==
  ASSUME ShelfInv, ShelfTypeOK', "overlap" \notin troubles, NEW o \in Organizer, ApplyFails(o)
  PROVE  ShelfInv'
<1>1. phase[o] = "run" /\ books[o] = {} /\ rows[o] = {}
  BY DEF ApplyFails, Applies
<1>2. /\ ShelfTypeOK /\ OthersIdle(o) /\ PlanOK(o) /\ DiskOK(o)
      /\ troubles \subseteq {"discarded"} => RowsUnder(o)
      /\ troubles \subseteq Recoverable => NothingLost
  BY <1>1, OrganizerBefore
<1>3. /\ UNCHANGED <<links, books, rows, claimed, plan, at, copying, troubles>>
      /\ phase'[o] = "undo"
  BY <1>2 DEF ApplyFails, ShelfTypeOK
<1>4. OthersIdle(o)'
  BY <1>2 DEF ApplyFails, OthersIdle, ShelfTypeOK
<1>5. PlanOK(o)'
  BY <1>1, <1>2, <1>3 DEF PlanOK
<1>6. CASE UNCHANGED disk
  <2>1. DiskOK(o)'
    BY <1>2, <1>3, <1>6 DEF DiskOK
  <2>2. \A row : MovedBy(o, row) => MovedBy(o, row)'
    BY <1>3, <1>6 DEF MovedBy
  <2>3. RowsUnder(o) => RowsUnder(o)'
    BY <1>3, <1>6, <2>2 DEF RowsUnder
  <2>4. NothingLost => NothingLost'
    BY <1>3, <1>6 DEF NothingLost
  <2> QED
    BY <1>2, <1>3, <1>4, <1>5, <2>1, <2>3, <2>4, OrganizerAfter
<1>7. CASE ~UNCHANGED disk
  <2> DEFINE n == at[o] + 1
             m == plan[o][n]
  <2>1. at[o] < Len(plan[o]) /\ ~copying[o] /\ disk' = Moved(disk, m, TRUE)
    BY <1>7 DEF ApplyFails
  <2>2. /\ Len(plan[o]) \in Nat /\ DOMAIN plan[o] = 1 .. Len(plan[o])
        /\ at[o] \in Nat
        /\ \A i \in DOMAIN plan[o] : /\ plan[o][i] \in Move /\ plan[o][i].from \in Path
                                     /\ plan[o][i].to \in Path
    BY <1>2, PlanFacts
  <2>3. n \in DOMAIN plan[o] /\ n > at[o] /\ \A i \in DOMAIN plan[o] : i <= at[o] => i # n
    BY <2>1, <2>2
  <2> HIDE DEF n
  <2>4. /\ m \in Move /\ m.to \in Path /\ m.from \in Path /\ disk[m.to] = NoFile
        /\ \A i \in DOMAIN plan[o] : m.to # plan[o][i].from
        /\ \A i \in DOMAIN plan[o] : i <= at[o] => m.to # plan[o][i].to
        /\ m.to # m.from
    <3>1. m \in Move /\ m.to \in Path /\ m.from \in Path
      BY <2>2, <2>3
    <3>2. disk[m.to] = NoFile
      BY <1>1, <1>2, <2>3 DEF DiskOK
    <3>3. /\ \A i \in DOMAIN plan[o] : m.to # plan[o][i].from
          /\ \A i \in DOMAIN plan[o] : i # n => m.to # plan[o][i].to
      BY <1>2, <2>3 DEF PlanOK
    <3>4. m.to # m.from
      BY <2>3, <3>3
    <3> QED
      BY <2>3, <3>1, <3>2, <3>3, <3>4
  <2> HIDE DEF m
  <2>5. disk \in [Path -> File]
    BY <1>2 DEF ShelfTypeOK, File
  <2>6. \A p \in Path : p # m.to => disk'[p] = disk[p]
    <3>1. /\ disk'[m.from] = disk[m.from]
          /\ \A p \in Path : p # m.to /\ p # m.from => disk'[p] = disk[p]
      BY <2>1, <2>4, <2>5, MovedAt
    <3> QED
      BY <3>1
  <2>7. DiskOK(o)'
    <3>1. \A i \in DOMAIN plan[o] : i <= at[o] => disk'[plan[o][i].from] = NoFile
      BY <1>2, <2>1, <2>2, <2>4, <2>6 DEF DiskOK
    <3> QED
      BY <1>2, <1>3, <2>1, <3>1 DEF DiskOK
  <2>8. RowsUnder(o) => RowsUnder(o)'
    <3> SUFFICES ASSUME RowsUnder(o) PROVE RowsUnder(o)'
      OBVIOUS
    <3>1. \A r \in DOMAIN links : links[r].path \in Path /\ m.to # links[r].path
      BY <1>2, <2>3, RowFacts DEF RowsUnder, m
    <3>2. ASSUME NEW row, MovedBy(o, row) PROVE MovedBy(o, row)'
      <4>1. PICK i \in 1 .. at[o] : plan[o][i].link = row /\ disk[plan[o][i].to] = row.digest
        BY <3>2 DEF MovedBy
      <4>2. i \in DOMAIN plan[o] /\ i <= at[o]
        BY <2>1, <2>2
      <4>3. disk'[plan[o][i].to] = disk[plan[o][i].to]
        BY <2>2, <2>4, <2>6, <4>2
      <4> QED
        BY <1>3, <2>1, <4>1, <4>3 DEF MovedBy
    <3>3. \A r \in DOMAIN links :
            disk'[links[r].path] = links[r].digest \/ MovedBy(o, links[r])'
      <4> SUFFICES ASSUME NEW r \in DOMAIN links
                   PROVE  disk'[links[r].path] = links[r].digest \/ MovedBy(o, links[r])'
        OBVIOUS
      <4>1. disk[links[r].path] = links[r].digest \/ MovedBy(o, links[r])
        BY DEF RowsUnder
      <4>2. disk'[links[r].path] = disk[links[r].path]
        BY <2>6, <3>1
      <4> QED
        BY <1>3, <3>2, <4>1, <4>2
    <3> QED
      BY <1>3, <3>3 DEF RowsUnder
  <2>9. NothingLost => NothingLost'
    BY <1>2, <1>3, <2>1, <2>4, MoveKeepsFiles
  <2> QED
    BY <1>2, <1>3, <1>4, <1>5, <2>7, <2>8, <2>9, OrganizerAfter
<1> QED
  BY <1>6, <1>7

\* A move is undone: the file goes back, or nothing happens where it was not
\* one's own.
LEMMA UndoMoveStep ==
  ASSUME ShelfInv, ShelfTypeOK', "overlap" \notin troubles, NEW o \in Organizer, UndoMove(o)
  PROVE  ShelfInv'
<1>1. phase[o] = "undo" /\ at[o] > 0
  BY DEF UndoMove
<1>2. /\ ShelfTypeOK /\ OthersIdle(o) /\ PlanOK(o) /\ DiskOK(o)
      /\ troubles \subseteq {"discarded"} => RowsUnder(o)
      /\ troubles \subseteq Recoverable => NothingLost
  BY <1>1, OrganizerBefore
<1> DEFINE n == at[o]
           m == plan[o][n]
<1>3. /\ UNCHANGED <<links, phase, books, rows, claimed, plan, copying>>
      /\ disk' = Undone(disk, m, copying[o])
      /\ Trouble(IF ~copying[o] /\ Stays(m) THEN {"stranded"} ELSE {})
  BY DEF UndoMove
<1>4. at'[o] = n - 1
  BY <1>2 DEF UndoMove, ShelfTypeOK
<1>5. OthersIdle(o)'
  BY <1>2 DEF UndoMove, OthersIdle, ShelfTypeOK
<1>6. /\ DOMAIN plan[o] = 1 .. Len(plan[o])
      /\ n \in Nat /\ n \in DOMAIN plan[o]
      /\ \A i \in DOMAIN plan[o] : /\ i \in Nat
                                   /\ plan[o][i] \in Move /\ plan[o][i].from \in Path
                                   /\ plan[o][i].to \in Path
  <2>1. /\ Len(plan[o]) \in Nat /\ DOMAIN plan[o] = 1 .. Len(plan[o])
        /\ at[o] \in Nat /\ at[o] <= Len(plan[o])
        /\ \A i \in DOMAIN plan[o] : /\ plan[o][i] \in Move /\ plan[o][i].from \in Path
                                     /\ plan[o][i].to \in Path
    BY <1>2, PlanFacts
  <2> QED
    BY <1>1, <2>1
<1>7. /\ \A i \in DOMAIN plan[o] : i <= n - 1 <=> i <= n /\ i # n
      /\ \A i \in DOMAIN plan[o] : i \in 1 .. n <=> i <= n
      /\ \A i \in DOMAIN plan[o] : i \in 1 .. n - 1 <=> i <= n /\ i # n
      /\ n \in 1 .. n /\ \A i \in 1 .. n : i \in DOMAIN plan[o]
  BY <1>1, <1>6
<1>8. disk \in [Path -> File]
  BY <1>2 DEF ShelfTypeOK, File
<1> HIDE DEF n
<1>9. /\ \A i \in DOMAIN plan[o] : m.to # plan[o][i].from /\ plan[o][i].to # m.from
      /\ \A i \in DOMAIN plan[o] : i # n => plan[o][i].to # m.to
      /\ m.from = m.link.path
  BY <1>2, <1>6 DEF PlanOK
<1>10. m \in Move /\ m.to \in Path /\ m.from \in Path /\ m.to # m.from
  BY <1>6, <1>9
<1>n. n = at[o]
  BY DEF n
<1>m. m = plan[o][n]
  OBVIOUS
<1> HIDE DEF m
<1>11. PlanOK(o)'
  BY <1>1, <1>2, <1>3 DEF PlanOK
<1>12. troubles' \subseteq {"discarded"} =>
         troubles \subseteq {"discarded"} /\ ~(~copying[o] /\ Stays(m))
  BY <1>3 DEF Trouble
<1>13. troubles' \subseteq Recoverable => troubles \subseteq Recoverable
  BY <1>3 DEF Trouble
<1>14. CASE copying[o]
  <2>1. /\ \A p \in Path : p # m.to => disk'[p] = disk[p]
        /\ disk'[m.to] = NoFile
    <3>1. disk' = [disk EXCEPT ![m.to] = NoFile]
      BY <1>3, <1>14 DEF Undone
    <3> QED
      BY <1>8, <1>10, <3>1
  <2>2. disk[m.from] = disk[m.to]
    BY <1>2, <1>6, <1>7, <1>14, <1>m, <1>n DEF DiskOK
  <2>3. DiskOK(o)'
    <3>1. ASSUME NEW i \in DOMAIN plan[o], i <= n - 1
          PROVE  disk'[plan[o][i].from] # NoFile /\ disk'[plan[o][i].to] = disk'[plan[o][i].from]
      <4>1. i <= n /\ i # n
        BY <1>7, <3>1
      <4>2. disk[plan[o][i].from] # NoFile /\ disk[plan[o][i].to] = disk[plan[o][i].from]
        BY <1>2, <1>14, <1>n, <4>1 DEF DiskOK
      <4> QED
        BY <1>6, <1>9, <2>1, <4>1, <4>2
    <3> QED
      BY <1>1, <1>3, <1>4, <1>14, <3>1 DEF DiskOK
  <2>4. RowsUnder(o) => RowsUnder(o)'
    <3> SUFFICES ASSUME RowsUnder(o) PROVE RowsUnder(o)'
      OBVIOUS
    <3>1. \A r \in DOMAIN links : links[r].path \in Path /\ m.to # links[r].path
      BY <1>2, <1>6, <1>m, RowFacts DEF RowsUnder
    <3>2. \A row : ~MovedBy(o, row)
      BY <1>14 DEF MovedBy
    <3> QED
      BY <1>3, <2>1, <3>1, <3>2 DEF RowsUnder
  <2>5. NothingLost => NothingLost'
    BY <1>3, <1>10, <2>1, <2>2 DEF NothingLost
  <2> QED
    BY <1>2, <1>5, <1>11, <1>12, <1>13, <2>3, <2>4, <2>5, OrganizerAfter
<1>15. CASE ~copying[o] /\ (Stays(m) \/ disk[m.to] = NoFile)
  <2>1. disk' = disk
    BY <1>3, <1>8, <1>10, <1>15, UndoneAt
  <2>2. DiskOK(o)'
    <3>1. /\ \A i \in DOMAIN plan[o] : i <= n => disk[plan[o][i].from] = NoFile
          /\ \A i, j \in DOMAIN plan[o] : i <= n /\ j <= n /\ i # j =>
               plan[o][i].from # plan[o][j].from
      BY <1>2, <1>15, <1>n DEF DiskOK
    <3>2. \A i \in DOMAIN plan[o] : i <= n - 1 => i <= n
      BY <1>7
    <3> QED
      BY <1>1, <1>3, <1>4, <1>15, <2>1, <3>1, <3>2 DEF DiskOK
  <2>3. RowsUnder(o) /\ ~Stays(m) => RowsUnder(o)'
    <3> SUFFICES ASSUME RowsUnder(o), disk[m.to] = NoFile PROVE RowsUnder(o)'
      BY <1>15
    <3>1. ASSUME NEW r \in DOMAIN links, MovedBy(o, links[r]) PROVE MovedBy(o, links[r])'
      <4>1. PICK i \in 1 .. n : /\ plan[o][i].link = links[r]
                                /\ disk[plan[o][i].to] = links[r].digest
        BY <1>n, <3>1 DEF MovedBy
      <4>2. links[r].digest # NoFile
        BY <1>2, RowFacts
      <4>3. i # n
        BY <1>m, <4>1, <4>2
      <4>4. i \in 1 .. n - 1
        BY <1>7, <4>3
      <4> QED
        BY <1>3, <1>4, <1>15, <2>1, <4>1, <4>4 DEF MovedBy
    <3> QED
      BY <1>3, <2>1, <3>1 DEF RowsUnder
  <2>4. NothingLost => NothingLost'
    BY <1>3, <2>1 DEF NothingLost
  <2> QED
    BY <1>2, <1>5, <1>11, <1>12, <1>13, <1>15, <2>2, <2>3, <2>4, OrganizerAfter
<1>16. CASE ~copying[o] /\ ~Stays(m) /\ disk[m.to] # NoFile
  <2>1. /\ disk'[m.from] = disk[m.to] /\ disk'[m.to] = NoFile
        /\ \A p \in Path : p # m.to /\ p # m.from => disk'[p] = disk[p]
    BY <1>3, <1>8, <1>10, <1>16, UndoneAt
  <2>2. /\ \A i \in DOMAIN plan[o] : i <= n => disk[plan[o][i].from] = NoFile
        /\ \A i, j \in DOMAIN plan[o] : i <= n /\ j <= n /\ i # j =>
             plan[o][i].from # plan[o][j].from
    BY <1>2, <1>16, <1>n DEF DiskOK
  <2>3. disk[m.from] = NoFile /\ n <= n
    BY <1>6, <1>7, <1>m, <2>2
  <2>4. DiskOK(o)'
    <3>1. ASSUME NEW i \in DOMAIN plan[o], i <= n - 1
          PROVE  disk'[plan[o][i].from] = NoFile
      <4>1. i <= n /\ i # n
        BY <1>7, <3>1
      <4>2. plan[o][i].from # m.from
        BY <1>6, <1>m, <2>2, <2>3, <4>1
      <4> QED
        BY <1>6, <1>9, <2>1, <2>2, <4>1, <4>2
    <3>2. ASSUME NEW i \in DOMAIN plan[o], NEW j \in DOMAIN plan[o],
                 i <= n - 1, j <= n - 1, i # j
          PROVE  plan[o][i].from # plan[o][j].from
      BY <1>7, <2>2, <3>2
    <3> QED
      BY <1>1, <1>3, <1>4, <1>16, <3>1, <3>2 DEF DiskOK
  <2>5. RowsUnder(o) => RowsUnder(o)'
    <3> SUFFICES ASSUME RowsUnder(o) PROVE RowsUnder(o)'
      OBVIOUS
    <3>1. \A r \in DOMAIN links : /\ links[r].path \in Path /\ m.to # links[r].path
                                  /\ links[r].digest # NoFile
      BY <1>2, <1>6, <1>m, RowFacts DEF RowsUnder
    <3>2. ASSUME NEW r \in DOMAIN links
          PROVE  disk'[links[r].path] = links[r].digest \/ MovedBy(o, links[r])'
      <4>1. CASE disk[links[r].path] = links[r].digest
        BY <2>1, <2>3, <3>1, <4>1
      <4>2. CASE MovedBy(o, links[r])
        <5>1. PICK i \in 1 .. n : /\ plan[o][i].link = links[r]
                                  /\ disk[plan[o][i].to] = links[r].digest
          BY <1>n, <4>2 DEF MovedBy
        <5>2. CASE i = n
          BY <1>9, <1>m, <2>1, <5>1, <5>2
        <5>3. CASE i # n
          <6>1. i \in DOMAIN plan[o] /\ i \in 1 .. n - 1
            BY <1>7, <5>3
          <6>2. disk'[plan[o][i].to] = disk[plan[o][i].to]
            BY <1>6, <1>9, <2>1, <5>3, <6>1
          <6> QED
            BY <1>3, <1>4, <1>16, <5>1, <6>1, <6>2 DEF MovedBy
        <5> QED
          BY <5>2, <5>3
      <4> QED
        BY <4>1, <4>2 DEF RowsUnder
    <3> QED
      BY <1>3, <3>2 DEF RowsUnder
  <2>6. NothingLost => NothingLost'
    <3> SUFFICES ASSUME NothingLost, NEW r \in DOMAIN links
                 PROVE  \E p \in Path : disk'[p] = links[r].digest
      BY <1>3 DEF NothingLost
    <3>1. PICK p \in Path : disk[p] = links[r].digest
      BY DEF NothingLost
    <3>2. p # m.from
      BY <1>2, <2>3, <3>1, RowFacts
    <3> QED
      BY <1>10, <2>1, <3>1, <3>2
  <2> QED
    BY <1>2, <1>5, <1>11, <1>12, <1>13, <2>4, <2>5, <2>6, OrganizerAfter
<1> QED
  BY <1>14, <1>15, <1>16

\* The transaction: each row that moved leads to its own target.
LEMMA CommitPathsStep ==
  ASSUME ShelfInv, ShelfTypeOK', "overlap" \notin troubles, NEW o \in Organizer, CommitPaths(o)
  PROVE  ShelfInv'
<1>1. phase[o] = "run" /\ at[o] = Len(plan[o]) /\ Rests(o) /\ UNCHANGED <<disk, troubles>>
  BY DEF CommitPaths, Applies
<1>2. /\ ShelfTypeOK /\ OthersIdle(o) /\ PlanOK(o) /\ DiskOK(o)
      /\ troubles \subseteq {"discarded"} => RowsUnder(o)
      /\ troubles \subseteq Recoverable => NothingLost
  BY <1>1, OrganizerBefore
<1>3. /\ OthersIdle(o)' /\ PlanOK(o)' /\ DiskOK(o)'
      /\ RowsInPlace' => RowsUnder(o)'
  BY <1>1, <1>2, OrganizerRests
<1>4. DOMAIN links' = DOMAIN links
  BY <1>2, CommitTypes
<1>5. /\ DOMAIN plan[o] = 1 .. Len(plan[o]) /\ at[o] \in Nat
      /\ \A i \in DOMAIN plan[o] : /\ i <= at[o] /\ i \in 1 .. at[o]
                                   /\ plan[o][i].to \in Path
  BY <1>1, <1>2, PlanFacts
\* A row stays, or is given the target of one of its moves.
<1>6. ASSUME NEW r \in DOMAIN links
      PROVE  /\ links'[r].digest = links[r].digest
             /\ \/ /\ links'[r] = links[r]
                   /\ \A i \in DOMAIN plan[o] : plan[o][i].link # links[r]
                \/ \E i \in DOMAIN plan[o] :
                     plan[o][i].link = links[r] /\ links'[r].path = plan[o][i].to
  <2> DEFINE mine == {m \in ToSet(plan[o]) : m.link = links[r]}
  <2>1. links'[r] = IF mine = {} THEN links[r]
                    ELSE [links[r] EXCEPT !.path = (CHOOSE m \in mine : TRUE).to]
    BY DEF CommitPaths
  <2>2. links[r] \in LinkRow
    BY <1>2, RowFacts
  <2>3. CASE mine = {}
    BY <2>1, <2>3 DEF ToSet
  <2>4. CASE mine # {}
    <3>1. PICK m : m = CHOOSE x \in mine : TRUE
      OBVIOUS
    <3>2. m \in mine
      BY <2>4, <3>1
    <3>3. PICK i \in DOMAIN plan[o] : plan[o][i] = m /\ m.link = links[r]
      BY <3>2 DEF ToSet
    <3>4. links'[r] = [links[r] EXCEPT !.path = m.to]
      BY <2>1, <2>4, <3>1
    <3>5. links'[r].path = m.to /\ links'[r].digest = links[r].digest
      BY <2>2, <3>4 DEF LinkRow
    <3> QED
      BY <3>3, <3>5
  <2> QED
    BY <2>3, <2>4
<1>7. ASSUME RowsUnder(o) PROVE RowsInPlace'
  <2>1. ASSUME NEW r \in DOMAIN links, NEW k \in DOMAIN links, r # k
        PROVE  links'[r].path # links'[k].path
    <3>1. links[r].path # links[k].path
      BY <1>7, <2>1 DEF RowsUnder
    <3>2. links[r] # links[k]
      BY <3>1
    <3>3. \A i \in DOMAIN plan[o] :
            plan[o][i].to # links[r].path /\ plan[o][i].to # links[k].path
      BY <1>7 DEF RowsUnder
    <3>4. \A i, j \in DOMAIN plan[o] : plan[o][i].link # plan[o][j].link =>
            plan[o][i].to # plan[o][j].to
      BY <1>2 DEF PlanOK
    <3>5. CASE links'[r] = links[r]
      BY <1>6, <3>1, <3>3, <3>5
    <3>6. CASE links'[k] = links[k]
      BY <1>6, <3>1, <3>3, <3>6
    <3>7. CASE links'[r] # links[r] /\ links'[k] # links[k]
      BY <1>6, <3>2, <3>4, <3>7
    <3> QED
      BY <3>5, <3>6, <3>7
  <2>2. ASSUME NEW r \in DOMAIN links PROVE disk[links'[r].path] = links'[r].digest
    <3>1. disk[links[r].path] = links[r].digest \/ MovedBy(o, links[r])
      BY <1>7 DEF RowsUnder
    <3>2. CASE links'[r] = links[r] /\ \A i \in DOMAIN plan[o] : plan[o][i].link # links[r]
      <4>1. ~MovedBy(o, links[r])
        BY <1>1, <1>5, <3>2 DEF MovedBy
      <4> QED
        BY <3>1, <3>2, <4>1
    <3>3. CASE \E i \in DOMAIN plan[o] :
                 plan[o][i].link = links[r] /\ links'[r].path = plan[o][i].to
      <4>1. PICK i \in DOMAIN plan[o] :
                   plan[o][i].link = links[r] /\ links'[r].path = plan[o][i].to
        BY <3>3
      <4>2. plan[o][i].from = links[r].path /\ i <= at[o]
        BY <1>2, <1>5, <4>1 DEF PlanOK
      <4>3. CASE copying[o]
        <5>1. ~MovedBy(o, links[r])
          BY <4>3 DEF MovedBy
        <5>2. disk[plan[o][i].to] = disk[plan[o][i].from]
          BY <1>2, <4>2, <4>3 DEF DiskOK
        <5> QED
          BY <1>6, <3>1, <4>1, <4>2, <5>1, <5>2
      <4>4. CASE ~copying[o]
        <5>1. disk[plan[o][i].from] = NoFile
          BY <1>2, <4>2, <4>4 DEF DiskOK
        <5>2. MovedBy(o, links[r])
          BY <1>2, <3>1, <4>2, <5>1, RowFacts
        <5>3. PICK j \in 1 .. at[o] : /\ plan[o][j].link = links[r]
                                      /\ disk[plan[o][j].to] = links[r].digest
          BY <5>2 DEF MovedBy
        <5>4. j \in DOMAIN plan[o] /\ j <= at[o]
          BY <1>1, <1>5
        <5>5. plan[o][j].from = plan[o][i].from
          BY <1>2, <4>1, <4>2, <5>3, <5>4 DEF PlanOK
        <5>6. j = i
          BY <1>2, <4>2, <4>4, <5>4, <5>5 DEF DiskOK
        <5> QED
          BY <1>6, <4>1, <5>3, <5>6
      <4> QED
        BY <4>3, <4>4
    <3> QED
      BY <1>6, <3>2, <3>3
  <2> QED
    BY <1>1, <1>4, <2>1, <2>2 DEF RowsInPlace
<1>8. NothingLost => NothingLost'
  BY <1>1, <1>4, <1>6 DEF NothingLost
<1> QED
  BY <1>1, <1>2, <1>3, <1>7, <1>8, OrganizerAfter

\* The last move is undone: every row has its file at its path.
LEMMA UndoEndsStep ==
  ASSUME ShelfInv, ShelfTypeOK', "overlap" \notin troubles, NEW o \in Organizer, UndoEnds(o)
  PROVE  ShelfInv'
<1>1. /\ phase[o] # "idle" /\ at[o] = 0 /\ Rests(o) /\ UNCHANGED <<disk, links, troubles>>
  BY DEF UndoEnds
<1>2. /\ ShelfTypeOK /\ OthersIdle(o)
      /\ troubles \subseteq {"discarded"} => RowsUnder(o)
      /\ troubles \subseteq Recoverable => NothingLost
  BY <1>1, OrganizerBefore
<1>3. /\ OthersIdle(o)' /\ PlanOK(o)' /\ DiskOK(o)'
      /\ RowsInPlace' => RowsUnder(o)'
  BY <1>1, <1>2, OrganizerRests
<1>4. RowsUnder(o) => RowsInPlace'
  BY <1>1, NothingMoved DEF RowsInPlace
<1>5. NothingLost => NothingLost'
  BY <1>1 DEF NothingLost
<1> QED
  BY <1>1, <1>2, <1>3, <1>4, <1>5, OrganizerAfter

\* A kill: with nothing moved the rows have their files, and else it is a
\* mishap.
LEMMA OrganizeStopsStep ==
  ASSUME ShelfInv, ShelfTypeOK', "overlap" \notin troubles, NEW o \in Organizer, OrganizeStops(o)
  PROVE  ShelfInv'
<1>1. /\ phase[o] # "idle" /\ Rests(o) /\ UNCHANGED <<disk, links>>
      /\ Trouble(IF at[o] # 0 THEN {"stopped"} ELSE {})
  BY DEF OrganizeStops
<1>2. /\ ShelfTypeOK /\ OthersIdle(o)
      /\ troubles \subseteq {"discarded"} => RowsUnder(o)
      /\ troubles \subseteq Recoverable => NothingLost
  BY <1>1, OrganizerBefore
<1>3. /\ OthersIdle(o)' /\ PlanOK(o)' /\ DiskOK(o)'
      /\ RowsInPlace' => RowsUnder(o)'
  BY <1>1, <1>2, OrganizerRests
<1>4. /\ troubles' \subseteq {"discarded"} => troubles \subseteq {"discarded"} /\ at[o] = 0
      /\ troubles' \subseteq Recoverable => troubles \subseteq Recoverable
  BY <1>1 DEF Trouble
<1>5. RowsUnder(o) /\ at[o] = 0 => RowsInPlace'
  BY <1>1, NothingMoved DEF RowsInPlace
<1>6. NothingLost => NothingLost'
  BY <1>1 DEF NothingLost
<1> QED
  BY <1>2, <1>3, <1>4, <1>5, <1>6, OrganizerAfter

-----------------------------------------------------------------------------
(* The theorems. *)

\* A library with no files.
LEMMA ShelfInitInv == ShelfInit => ShelfInv
<1> SUFFICES ASSUME ShelfInit PROVE ShelfInv
  OBVIOUS
<1>1. <<>> \in Seq(LinkRow) /\ <<>> \in Seq(Move) /\ Len(<<>>) = 0 /\ DOMAIN <<>> = {}
  BY EmptySeq
<1>2. ShelfTypeOK
  BY <1>1, ShelfAssumption DEF ShelfInit, ShelfTypeOK, Mishap
<1>3. \A k \in Organizer : /\ phase[k] = "idle" /\ books[k] = {} /\ rows[k] = {}
                           /\ plan[k] = <<>> /\ at[k] = 0 /\ DOMAIN plan[k] = {}
  BY <1>1 DEF ShelfInit
<1>4. Alone /\ \A k \in Organizer : PlanOK(k) /\ DiskOK(k)
  BY <1>3 DEF Alone, PlanOK, DiskOK
<1>5. DOMAIN links = {}
  BY DEF ShelfInit
<1>6. RowsOK /\ NothingLost
  BY <1>3, <1>5 DEF RowsOK, NothingLost
<1> QED
  BY <1>2, <1>4, <1>6 DEF ShelfInv

\* One step per command.
LEMMA ShelfNextInv ==
  ASSUME ShelfInv, ShelfNext
  PROVE  ShelfInv'
<1>1. ShelfTypeOK'
  BY TypesKept DEF ShelfInv
<1>2. "overlap" \notin troubles
  BY DEF ShelfNext, Bearable
<1>3. ASSUME NEW p \in Path, NEW c \in Digest, Download(p, c) PROVE ShelfInv'
  BY <1>1, <1>2, <1>3, DownloadStep
<1>4. ASSUME NEW p \in Path, NEW b \in Book, AddFile(b, p) PROVE ShelfInv'
  BY <1>1, <1>2, <1>4, AddFileStep
<1>5. ASSUME NEW r \in DOMAIN links, NEW delete \in BOOLEAN, RemoveFile(r, delete)
      PROVE  ShelfInv'
  BY <1>1, <1>2, <1>5, RemoveFileStep
<1>6. ASSUME NEW r \in DOMAIN links, NEW f \in Format, NEW forced \in BOOLEAN, NEW c \in Digest,
             Convert(r, f, forced, c)
      PROVE  ShelfInv'
  BY <1>1, <1>2, <1>6, ConvertStep
<1>7. ASSUME NEW o \in Organizer, NEW chosen, NEW copy, PlanBegin(o, chosen, copy)
      PROVE  ShelfInv'
  BY <1>1, <1>2, <1>7, PlanBeginStep
<1>8. ASSUME NEW o \in Organizer, NEW b \in Book, PlanBook(o, b) PROVE ShelfInv'
  BY <1>1, <1>2, <1>8, PlanBookStep
<1>9. ASSUME NEW o \in Organizer, NEW row \in rows[o], PlanFile(o, row) PROVE ShelfInv'
  BY <1>1, <1>2, <1>9, PlanFileStep
<1>10. ASSUME NEW o \in Organizer, ApplyMove(o) PROVE ShelfInv'
  BY <1>1, <1>2, <1>10, ApplyMoveStep
<1>11. ASSUME NEW o \in Organizer, CommitPaths(o) PROVE ShelfInv'
  BY <1>1, <1>2, <1>11, CommitPathsStep
<1>12. ASSUME NEW o \in Organizer, ApplyFails(o) PROVE ShelfInv'
  BY <1>1, <1>2, <1>12, ApplyFailsStep
<1>13. ASSUME NEW o \in Organizer, UndoMove(o) PROVE ShelfInv'
  BY <1>1, <1>2, <1>13, UndoMoveStep
<1>14. ASSUME NEW o \in Organizer, UndoEnds(o) PROVE ShelfInv'
  BY <1>1, <1>2, <1>14, UndoEndsStep
<1>15. ASSUME NEW o \in Organizer, OrganizeStops(o) PROVE ShelfInv'
  BY <1>1, <1>2, <1>15, OrganizeStopsStep
<1>16. ASSUME MoveToNewMachine PROVE ShelfInv'
  BY <1>1, <1>2, <1>16, NewMachineStep
<1> QED
  BY <1>3, <1>4, <1>5, <1>6, <1>7, <1>8, <1>9, <1>10, <1>11, <1>12, <1>13, <1>14, <1>15, <1>16
  DEF ShelfNext

\* Nothing happens.
LEMMA ShelfStutterInv ==
  ASSUME ShelfInv, UNCHANGED shelfVars
  PROVE  ShelfInv'
<1>1. UNCHANGED <<disk, links, across, phase, books, rows, claimed, plan, at, copying, troubles>>
  BY DEF shelfVars
<1>2. ShelfTypeOK'
  BY <1>1 DEF ShelfInv, ShelfTypeOK
<1>3. "overlap" \notin troubles => Alone' /\ \A o \in Organizer : PlanOK(o)' /\ DiskOK(o)'
  BY <1>1 DEF ShelfInv, Alone, PlanOK, DiskOK
<1>4. RowsOK => RowsOK'
  BY <1>1 DEF RowsOK, IsMoved
<1>5. NothingLost => NothingLost'
  BY <1>1 DEF NothingLost
<1> QED
  BY <1>1, <1>2, <1>3, <1>4, <1>5 DEF ShelfInv

\* The inductive invariant of the files: without an overlap one organizes at a
\* time, to places of its own, and what the disk has follows its progress.
THEOREM FileShelfInvariant == ShelfSpec => []ShelfInv
<1>1. ShelfInv /\ [ShelfNext]_shelfVars => ShelfInv'
  BY ShelfNextInv, ShelfStutterInv
<1> QED
  BY <1>1, ShelfInitInv, PTL DEF ShelfSpec

\* Each row leads to its file, or to an organization that has it; and until the
\* user discards one no file is lost, whatever is killed or undone.
THEOREM FilesAreKeptHolds == ShelfSpec => [](ShelfTypeOK /\ FilesAreKept)
<1>1. ShelfInv => ShelfTypeOK /\ FilesAreKept
  <2>1. RowsOK => \A r \in DOMAIN links :
                    disk[links[r].path] = links[r].digest \/ IsMoved(links[r])
    BY DEF RowsOK
  <2> QED
    BY <2>1 DEF ShelfInv, FilesAreKept, NothingLost, Recoverable
<1> QED
  BY <1>1, FileShelfInvariant, PTL

=============================================================================
