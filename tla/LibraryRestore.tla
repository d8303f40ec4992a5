---------------------------- MODULE LibraryRestore ----------------------------
(***************************************************************************)
(* The lossless backup of a library: export_library, and restore_library   *)
(* in merge mode (into whatever is there) and in replace mode.             *)
(*                                                                         *)
(* A library is reduced to one row of each kind that is restored by a rule *)
(* of its own: a field of a book, under its provenance; a note, under its  *)
(* clock in sync_entity_hlc and its tombstone; a setting, under the clock  *)
(* in its row; and facts, the rows that are inserted if absent (sessions,  *)
(* progress, links, files, logs).  The book has the same Goodreads id in   *)
(* every library, so archive rows find it whatever id it has.  A value is  *)
(* named by the time of the edit that wrote it.  A restore is one          *)
(* transaction; the binaries it unpacks are the subject of FileShelf.      *)
(***************************************************************************)
EXTENDS Naturals, Sequences, FiniteSets

CONSTANTS
  Home,       \* the libraries
  Enrolled,   \* those with a sync identity
  MaxTick,    \* bound on the edits
  MaxArchives \* bound on the backups

ASSUME RestoreAssumption == Enrolled \subseteq Home /\ MaxTick \in Nat /\ MaxArchives \in Nat

VARIABLES
  tick,      \* the time of the last edit
  library,   \* library[m]
  archives,  \* the backup files, oldest first
  noteOps,   \* the edits of the note by other devices, oldest (its create) first
  noteGone,  \* another device has deleted it
  known,     \* history: known[m]: the edits that reached m, here or in an archive
  bare,      \* history: bare[m]: one of the field was made without provenance
  passed,    \* history: passed[m]: a merge passed over a newer text or a tombstone
  restored   \* history: the archive that m has restored last, 0 after any change

restoreVars ==
  <<tick, library, archives, noteOps, noteGone, known, bare, passed, restored>>

Tick == 1 .. MaxTick
Time == 0 .. MaxTick

\* edit is 0 while there is no row, stamp while there is no provenance, no clock.
Cell == [edit : Time, stamp : Time]
NoteRow == [edit : Time, stamp : Time, updated : Time, dead : BOOLEAN]
Library == [field : Cell, note : NoteRow, setting : Cell, facts : SUBSET Tick]
Known == [field : SUBSET Tick, note : SUBSET Tick, setting : SUBSET Tick, dead : BOOLEAN]
Archive == [library : Library, known : Known, bare : BOOLEAN, passed : BOOLEAN]

Later(a, b) == IF a > b THEN a ELSE b

RestoreInit ==
  /\ tick = 0
  /\ library = [m \in Home |->
       [field |-> [edit |-> 0, stamp |-> 0],
        note |-> [edit |-> 0, stamp |-> 0, updated |-> 0, dead |-> FALSE],
        setting |-> [edit |-> 0, stamp |-> 0], facts |-> {}]]
  /\ archives = <<>>
  /\ noteOps = <<>> /\ noteGone = FALSE
  /\ known = [m \in Home |-> [field |-> {}, note |-> {}, setting |-> {}, dead |-> FALSE]]
  /\ bare = [m \in Home |-> FALSE] /\ passed = [m \in Home |-> FALSE]
  /\ restored = [m \in Home |-> 0]

-----------------------------------------------------------------------------
(* What changes a library. *)

Ticks == tick < MaxTick /\ tick' = tick + 1
Changed(m) == restored' = [restored EXCEPT ![m] = 0]

\* A write of the field.  Provenance comes with the op, which only an enrolled
\* library emits, or from the importer that creates the book.
EditField(m, imported) ==
  LET stamped == m \in Enrolled \/ (imported /\ library[m].field.edit = 0) IN
  /\ Ticks /\ Changed(m)
  /\ library' = [library EXCEPT ![m].field =
       [edit |-> tick', stamp |-> IF stamped THEN tick' ELSE @.stamp]]
  /\ known' = [known EXCEPT ![m].field = @ \cup {tick'}]
  /\ bare' = [bare EXCEPT ![m] = @ \/ ~stamped]
  /\ UNCHANGED <<archives, noteOps, noteGone, passed>>

NoteWritten ==
  /\ Ticks
  /\ noteOps' = Append(noteOps, tick')
  /\ UNCHANGED <<library, archives, noteGone, known, bare, passed, restored>>

NoteDeleted ==
  /\ noteOps # <<>> /\ ~noteGone
  /\ noteGone' = TRUE
  /\ UNCHANGED <<tick, library, archives, noteOps, known, bare, passed, restored>>

\* A pull merges an op of the note: the create inserts the row, without a clock;
\* anything else is merged into the row if it is past its clock.
MergeNote(m, i) ==
  LET t == noteOps[i]  note == library[m].note IN
  /\ ~note.dead /\ (note.edit = 0 => i = 1) /\ t \notin known[m].note
  /\ Changed(m)
  /\ library' = [library EXCEPT ![m].note =
       IF @.edit = 0 THEN [@ EXCEPT !.edit = t, !.updated = t]
       ELSE IF t > @.stamp THEN [@ EXCEPT !.edit = t, !.stamp = t, !.updated = tick]
       ELSE @]
  /\ known' = [known EXCEPT ![m].note = @ \cup {t}]
  /\ UNCHANGED <<tick, archives, noteOps, noteGone, bare, passed>>

MergeNoteDelete(m) ==
  /\ noteGone /\ library[m].note.edit # 0 /\ ~library[m].note.dead
  /\ Changed(m)
  /\ library' = [library EXCEPT ![m].note.dead = TRUE]
  /\ known' = [known EXCEPT ![m].dead = TRUE]
  /\ UNCHANGED <<tick, archives, noteOps, noteGone, bare, passed>>

MergeRemoteSetting(m) ==
  /\ Ticks /\ Changed(m)
  /\ library' = [library EXCEPT ![m].setting = [edit |-> tick', stamp |-> tick']]
  /\ known' = [known EXCEPT ![m].setting = @ \cup {tick'}]
  /\ UNCHANGED <<archives, noteOps, noteGone, bare, passed>>

AddFact(m) ==
  /\ Ticks /\ Changed(m)
  /\ library' = [library EXCEPT ![m].facts = @ \cup {tick'}]
  /\ UNCHANGED <<archives, noteOps, noteGone, known, bare, passed>>

\* LibraryData: every row of every table, tombstones too.
ArchiveOf(m) ==
  [library |-> library[m], known |-> known[m], bare |-> bare[m], passed |-> passed[m]]

Export(m) ==
  /\ Len(archives) < MaxArchives
  /\ archives' = Append(archives, ArchiveOf(m))
  /\ UNCHANGED <<tick, library, noteOps, noteGone, known, bare, passed, restored>>

-----------------------------------------------------------------------------
(* The rules of a merge: what becomes of a row of the library. *)

\* A faulty MergeField, to validate RestoredIsNewest: a field with provenance is
\* applied whatever the provenance here says.
MergeFieldAny(here, theirs) ==
  IF here.edit = 0 \/ theirs.stamp > 0 THEN theirs ELSE here

\* merge_book_fields: without provenance here anything newer than none is applied;
\* a field that has none in the archive never is.
Applied(here, theirs) == IF theirs.stamp > here.stamp THEN theirs ELSE here

\* restore_books: a book that is not found is inserted as it is.
MergeField(here, theirs) == IF here.edit = 0 THEN theirs ELSE Applied(here, theirs)

\* restore_entity_hlc, whatever becomes of the row.
RaisedClock(here, theirs) == Later(here.stamp, theirs.stamp)

\* restore_notes and restore_reviews compare with the clock after it was raised.
MergeNoteRow(here, theirs) ==
  LET clock == RaisedClock(here, theirs)
      newer == IF theirs.stamp > 0 THEN theirs.stamp > clock ELSE theirs.updated > here.updated
  IN  IF theirs.edit = 0 THEN here
      ELSE IF here.edit = 0 THEN theirs
      ELSE [IF newer THEN theirs ELSE here EXCEPT !.stamp = clock]

MergeSettingRow(here, theirs) ==
  IF here.edit = 0 \/ theirs.stamp > here.stamp THEN theirs ELSE here

\* A faulty MergedInto, to validate RestoreIsSettled: the rows that hang on a book
\* are inserted with the book only.
MergedIntoNewBook(here, theirs) ==
  [field |-> MergeField(here.field, theirs.field),
   note |-> MergeNoteRow(here.note, theirs.note),
   setting |-> MergeSettingRow(here.setting, theirs.setting),
   facts |-> IF here.field.edit = 0 THEN here.facts \cup theirs.facts ELSE here.facts]

\* Links, sessions and progress are inserted if absent.
MergeFacts(here, theirs) == here \cup theirs

\* restore_library.
MergedInto(here, theirs) ==
  [field |-> MergeField(here.field, theirs.field),
   note |-> MergeNoteRow(here.note, theirs.note),
   setting |-> MergeSettingRow(here.setting, theirs.setting),
   facts |-> MergeFacts(here.facts, theirs.facts)]

\* The note of the archive is newer or deleted, and the library has it already.
Overtakes(here, theirs) ==
  /\ here.edit # 0
  /\ theirs.edit > here.edit \/ (theirs.dead /\ ~here.dead)

RestoreMerge(m, i) ==
  LET a == archives[i] IN
  /\ library' = [library EXCEPT ![m] = MergedInto(@, a.library)]
  /\ known' = [known EXCEPT ![m] =
       [field |-> @.field \cup a.known.field, note |-> @.note \cup a.known.note,
        setting |-> @.setting \cup a.known.setting, dead |-> @.dead \/ a.known.dead]]
  /\ bare' = [bare EXCEPT ![m] = @ \/ a.bare]
  /\ passed' = [passed EXCEPT ![m] =
       @ \/ a.passed \/ Overtakes(library[m].note, a.library.note)]
  /\ restored' = [restored EXCEPT ![m] = i]
  /\ UNCHANGED <<tick, archives, noteOps, noteGone>>

\* clear_library empties every table but the op log and its cursor.
RestoreReplace(m, i) ==
  LET a == archives[i] IN
  /\ library' = [library EXCEPT ![m] = a.library]
  /\ known' = [known EXCEPT ![m] = a.known]
  /\ bare' = [bare EXCEPT ![m] = a.bare] /\ passed' = [passed EXCEPT ![m] = a.passed]
  /\ restored' = [restored EXCEPT ![m] = i]
  /\ UNCHANGED <<tick, archives, noteOps, noteGone>>

RestoreNext ==
  \/ NoteWritten \/ NoteDeleted
  \/ \E m \in Home :
       \/ \E imported \in BOOLEAN : EditField(m, imported)
       \/ m \in Enrolled /\ \/ \E i \in DOMAIN noteOps : MergeNote(m, i)
                            \/ MergeNoteDelete(m) \/ MergeRemoteSetting(m)
       \/ AddFact(m) \/ Export(m)
       \/ \E i \in DOMAIN archives : RestoreMerge(m, i) \/ RestoreReplace(m, i)

RestoreSpec == RestoreInit /\ [][RestoreNext]_restoreVars

-----------------------------------------------------------------------------

RestoreTypeOK ==
  /\ tick \in Time /\ noteGone \in BOOLEAN /\ noteOps \in Seq(Tick)
  /\ library \in [Home -> Library] /\ known \in [Home -> Known]
  /\ archives \in Seq(Archive) /\ Len(archives) <= MaxArchives
  /\ bare \in [Home -> BOOLEAN] /\ passed \in [Home -> BOOLEAN]
  /\ restored \in [Home -> 0 .. MaxArchives]

IsNewest(cell, edits) == \A t \in edits : t <= cell.edit /\ cell.edit \in edits

(***************************************************************************)
(* Whatever is backed up, carried over, merged and edited again, a library *)
(* shows the newest edit that reached it: a restore never puts an older    *)
(* field, note or setting over a newer one, and never leaves out a newer   *)
(* one.  Except: a field edited without provenance, that is before sync is *)
(* set up; and a note that a merge has passed over, because its clock was  *)
(* raised before it was compared.                                          *)
(***************************************************************************)
RestoredIsNewest ==
  \A m \in Home :
    /\ ~bare[m] => IsNewest(library[m].field, known[m].field)
    /\ IsNewest(library[m].setting, known[m].setting)
    /\ ~passed[m] =>
         /\ IsNewest(library[m].note, known[m].note)
         /\ library[m].note.dead = known[m].dead
         /\ library[m].note.stamp \in {0, library[m].note.edit}

(***************************************************************************)
(* A restored library holds the facts of the archive, and restoring the    *)
(* same archive again changes nothing.                                     *)
(***************************************************************************)
RestoreIsSettled ==
  \A m \in Home : \A i \in {restored[m]} \ {0} :
    /\ archives[i].library.facts \subseteq library[m].facts
    /\ MergedInto(library[m], archives[i].library) = library[m]

(***************************************************************************)
(* What export and import promise of an archive, together: restoring puts  *)
(* nothing older over something newer, brings every fact, and is done after*)
(* once.                                                                   *)
(***************************************************************************)
RestoreIsFaithful == RestoredIsNewest /\ RestoreIsSettled

=============================================================================
