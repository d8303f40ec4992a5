------------------------------ MODULE RowImport ------------------------------
(***************************************************************************)
(* What becomes of the rows of an export: import_rows of Goodreads and of  *)
(* StoryGraph, and import_calibre.  A row is refused, leads to a book that *)
(* is there, which gets its tags, or becomes a book with its status,       *)
(* rating, authors, tags and sessions.                                     *)
(*                                                                         *)
(* The export grows at its end and is imported as it is.  An import of a   *)
(* CSV file is one transaction; of a Calibre library, one per book.  Other *)
(* devices, undo and merges of books are the subject of BookImport.        *)
(* The status, rating, format, dates and cover of a book, and its series,  *)
(* are left out: nothing below depends on them.                            *)
(***************************************************************************)
EXTENDS Integers, Sequences, FiniteSets, SequencesExt

CONSTANTS
  Word,      \* the titles, but for capitals
  Author,    \* the first authors, and the contributors
  Isbn,      \* the valid ISBNs
  SourceId,  \* goodreads_id and calibre_id
  Label,     \* the names of tags,
  Tempo,     \* and of those that are a pace
  DayRead,   \* the days in use
  MaxRows,   \* bound on the rows of an export
  MaxTitles, \* bound on the books
  MaxTouches \* bound on what the user does

ASSUME RowAssumption == {MaxRows, MaxTitles, MaxTouches} \subseteq Nat

\* accented: with a capital that is not ASCII.
Title == [word : Word, caps : {"lower", "upper", "accented"}]

Perhaps(S) == {{}} \cup {{x} : x \in S}

\* A tag of a row.  Moods, warnings, the tags of the user and the answers to the
\* questions about characters come from columns of their own.
RowTag == [name : Label, type : {"mood", "content_warning", "general"}]

General == {mark \in RowTag : mark.type = "general"}

\* What is read of a session: its days, and whether they are full dates.
StorySession == [first : DayRead, last : Perhaps(DayRead), full : BOOLEAN]

Silent == [marks |-> {}, pace |-> {}, read |-> {}, contributors |-> {}, shelf |-> "read"]

\* What a row says of its book besides its name, one thing at a time.
GoodreadsDetail ==
  {[Silent EXCEPT !.marks = m] : m \in Perhaps(General)}
    \cup {[Silent EXCEPT !.shelf = s] : s \in {"to-read"} \cup Label}

StoryDetail ==
  {[Silent EXCEPT !.marks = m] : m \in Perhaps(RowTag)}
    \cup {[Silent EXCEPT !.pace = {p}] : p \in Tempo}
    \cup {[Silent EXCEPT !.read = {s}] : s \in StorySession}
    \cup {[Silent EXCEPT !.contributors = {<<a, "narrator">>}] : a \in Author}

Row(ids, titles, details) ==
  [id : ids, title : titles, author : Author, isbn : Perhaps(Isbn), says : details]

\* read_calibre_books: a book of Calibre has an id and a title.  A row of a CSV file
\* without title is refused, as is one that is not CSV.
RowOf(program) ==
  CASE program = "goodreads" ->
         Row(Perhaps(SourceId), Perhaps([word : Word, caps : {"lower"}]), GoodreadsDetail)
    [] program = "storygraph" -> Row({{}}, Perhaps(Title), StoryDetail)
    [] program = "calibre" -> Row({{i} : i \in SourceId}, {{t} : t \in Title},
                                  {[Silent EXCEPT !.marks = m] : m \in SUBSET General})

VARIABLES
  export,   \* the export: of which program, and its rows
  shelf,    \* the library
  touches   \* how often the user has done something

rowVars == <<export, shelf, touches>>

\* isbns: an ISBN and the book it leads to, one at most.  tagged: a book and a tag of
\* it.  people: a book and a contributor.  sittings: the sessions.
Empty == [books |-> <<>>, isbns |-> {}, tagged |-> {}, people |-> {}, sittings |-> <<>>]

RowInit == export = [of |-> "none", rows |-> <<>>] /\ shelf = Empty /\ touches = 0

-----------------------------------------------------------------------------
(* The pieces of a library. *)

\* INSERT OR IGNORE.
WithIsbn(lib, b, numbers) ==
  [lib EXCEPT !.isbns = @ \cup {<<n, b>> : n \in {m \in numbers : \A p \in @ : p[1] # m}}]

WithMarks(lib, b, marks) == [lib EXCEPT !.tagged = @ \cup {<<b, m>> : m \in marks}]

PaceMark(pace) == [name |-> pace, type |-> "pace"]

PaceOf(lib, b) == {t \in lib.tagged : t[1] = b /\ t[2].type = "pace"}

WithBook(lib, source, row) ==
  LET title == CHOOSE t \in row.title : TRUE
      card == [title |-> title, author |-> row.author, source |-> source, id |-> row.id,
               dead |-> FALSE]
  IN WithIsbn([lib EXCEPT !.books = Append(@, card)], Len(lib.books) + 1, row.isbn)

-----------------------------------------------------------------------------
(* A running import: the library, the names it knows books by, the report, *)
(* and whether it has failed.                                              *)

Lowered(t) == [t EXCEPT !.caps = "lower"]

\* LOWER of SQLite knows ASCII only.
LoweredBySql(t) == IF t.caps = "accented" THEN t ELSE Lowered(t)

Zero == [total |-> 0, imported |-> 0, updated |-> 0, skipped |-> 0, errors |-> 0]

\* Books are known by title and author, deleted ones too; the later of two of the
\* same name is the one.
KnownNames(lib) ==
  LET name(b) == <<LoweredBySql(lib.books[b].title), lib.books[b].author>>
      books == DOMAIN lib.books
  IN [n \in {name(b) : b \in books} |->
        CHOOSE b \in books : name(b) = n /\ \A c \in books : name(c) = n => c <= b]

Begin(lib) == [lib |-> lib, names |-> KnownNames(lib), report |-> Zero, failed |-> FALSE]

Counted(run, outcome) ==
  [run EXCEPT !.report.total = @ + 1, !.report[outcome] = @ + 1]

\* Tagging a deleted book fails, and with it the import of the file.
Tagged(run, b, marks) ==
  [run EXCEPT !.lib = WithMarks(@, b, marks),
              !.failed = @ \/ (marks # {} /\ run.lib.books[b].dead)]

Named(run, name, b) ==
  [run EXCEPT !.names = [n \in DOMAIN @ \cup {name} |-> IF n = name THEN b ELSE @[n]]]

-----------------------------------------------------------------------------
(* Goodreads. *)

\* A shelf of one's own is a tag besides.
GoodreadsTags(row) ==
  row.says.marks \cup {[name |-> s, type |-> "general"] :
                        s \in {row.says.shelf} \ {"read", "currently-reading", "to-read"}}

GoodreadsKnown(lib, row) ==
  {b \in DOMAIN lib.books :
     lib.books[b].source = "goodreads" /\ lib.books[b].id = row.id /\ row.id # {}}

GoodreadsMade(run, row) ==
  Tagged([run EXCEPT !.lib = WithBook(@, "goodreads", row)], Len(run.lib.books) + 1,
         GoodreadsTags(row))

GoodreadsInto(run, row, dry) ==
  LET known == GoodreadsKnown(run.lib, row)  tags == GoodreadsTags(row) IN
  IF row.title = {} THEN Counted(run, "errors")
  ELSE IF known # {} /\ tags = {} THEN Counted(run, "skipped")
  ELSE IF known # {} THEN
    Counted(IF dry THEN run ELSE Tagged(run, CHOOSE b \in known : TRUE, tags), "updated")
  ELSE Counted(IF dry THEN run ELSE GoodreadsMade(run, row), "imported")

-----------------------------------------------------------------------------
(* StoryGraph. *)

StoryName(row) == <<Lowered(CHOOSE t \in row.title : TRUE), row.author>>

\* detect_isbn: an identifier that is no valid ISBN counts as none.
StoryKnownByIsbn(run, row) == {p[2] : p \in {q \in run.lib.isbns : q[1] \in row.isbn}}

\* By ISBN first.
StoryKnown(run, row) ==
  IF StoryKnownByIsbn(run, row) # {} THEN StoryKnownByIsbn(run, row)
  ELSE {run.names[n] : n \in {StoryName(row)} \cap DOMAIN run.names}

\* apply_typed_tags: a book that has a pace keeps it.
StoryTyped(run, b, row) ==
  LET pace == IF PaceOf(run.lib, b) = {} THEN {PaceMark(p) : p \in row.says.pace} ELSE {}
  IN Tagged(run, b, pace \cup (row.says.marks \ General))

\* apply_general_tags, apply_character_tags.
StoryTagged(run, b, row) == Tagged(StoryTyped(run, b, row), b, row.says.marks \cap General)

\* parse_dates_read: of full dates only.
StorySittings(b, row) ==
  LET full == {s \in row.says.read : s.full} IN
  [i \in 1 .. Cardinality(full) |->
     LET s == CHOOSE s \in full : TRUE IN [book |-> b, first |-> s.first, last |-> s.last]]

\* parse_contributors.
StoryPeople(b, row) == {<<b, c>> : c \in row.says.contributors}

StoryMade(run, row) ==
  LET b == Len(run.lib.books) + 1
      told == StoryTagged([run EXCEPT !.lib = WithBook(@, "storygraph", row)], b, row)
  IN Named([told EXCEPT !.lib.sittings = @ \o StorySittings(b, row),
                        !.lib.people = @ \cup StoryPeople(b, row)], StoryName(row), b)

StoryInto(run, row, dry) ==
  IF row.title = {} THEN Counted(run, "errors")
  ELSE IF StoryKnown(run, row) # {} THEN
    Counted(IF dry THEN run
            ELSE StoryTagged(run, CHOOSE b \in StoryKnown(run, row) : TRUE, row), "updated")
  ELSE Counted(IF dry THEN run ELSE StoryMade(run, row), "imported")

-----------------------------------------------------------------------------
(* Calibre. *)

CalibreKnown(lib, row) ==
  {b \in DOMAIN lib.books : lib.books[b].source = "calibre" /\ lib.books[b].id = row.id}

\* import_single_book.
CalibreMade(run, row) ==
  Tagged([run EXCEPT !.lib = WithBook(@, "calibre", row)], Len(run.lib.books) + 1,
         row.says.marks)

CalibreInto(run, row, dry) ==
  IF CalibreKnown(run.lib, row) # {} THEN Counted(run, "skipped")
  ELSE Counted(IF dry THEN run ELSE CalibreMade(run, row), "imported")

-----------------------------------------------------------------------------

Into(program, run, row, dry) ==
  IF run.failed THEN run
  ELSE CASE program = "goodreads" -> GoodreadsInto(run, row, dry)
         [] program = "storygraph" -> StoryInto(run, row, dry)
         [] program = "calibre" -> CalibreInto(run, row, dry)

\* An import of the export into a library; one that has failed is rolled back.
Ran(program, rows, lib, dry) ==
  LET run == FoldLeft(LAMBDA r, row : Into(program, r, row, dry), Begin(lib), rows) IN
  IF run.failed THEN [run EXCEPT !.lib = lib] ELSE run

\* Calibre gives every book an id of its own.
ExportGrows(program) ==
  /\ export.of \in {"none", program} /\ Len(export.rows) < MaxRows
  /\ \E row \in RowOf(program) :
       /\ program = "calibre" => \A i \in DOMAIN export.rows : export.rows[i].id # row.id
       /\ export' = [of |-> program, rows |-> Append(export.rows, row)]
  /\ UNCHANGED <<shelf, touches>>

ImportRows ==
  /\ export.rows # <<>>
  /\ shelf' = Ran(export.of, export.rows, shelf, FALSE).lib
  /\ Len(shelf'.books) <= MaxTitles
  /\ UNCHANGED <<export, touches>>

Touch == touches < MaxTouches /\ touches' = touches + 1 /\ UNCHANGED export

\* A book of one's own.
AddTitle(row) ==
  /\ Touch /\ Len(shelf.books) < MaxTitles
  /\ shelf' = WithBook(shelf, "none", row)

DeleteTitle(b) ==
  /\ Touch /\ ~shelf.books[b].dead
  /\ shelf' = [shelf EXCEPT !.books[b].dead = TRUE]

\* set_book_pace.
PutPace(b, pace) ==
  /\ Touch /\ ~shelf.books[b].dead
  /\ shelf' = WithMarks([shelf EXCEPT !.tagged = @ \ PaceOf(shelf, b)], b, {PaceMark(pace)})

RowNext ==
  \/ \E program \in {"goodreads", "storygraph", "calibre"} : ExportGrows(program)
  \/ ImportRows
  \/ \E row \in Row({{}}, {{t} : t \in Title}, {Silent}) : AddTitle(row)
  \/ \E b \in DOMAIN shelf.books : DeleteTitle(b) \/ \E pace \in Tempo : PutPace(b, pace)

RowSpec == RowInit /\ [][RowNext]_rowVars

-----------------------------------------------------------------------------

\* The row is known again, once it was imported.
Recognized(program, row) ==
  CASE program = "goodreads" -> row.id # {}
    [] program = "storygraph" -> \A t \in row.title : t.caps # "accented"
    [] program = "calibre" -> TRUE

\* Two rows of the export are the same book.
Repeats(program, rows) ==
  \E i, j \in DOMAIN rows :
    /\ i < j /\ rows[i].title # {} /\ rows[j].title # {}
    /\ CASE program = "storygraph" -> \/ StoryName(rows[i]) = StoryName(rows[j])
                                      \/ rows[i].isbn \cap rows[j].isbn # {}
         [] OTHER -> rows[i].id \cap rows[j].id # {}

\* A row of the export leads to a book that the user has deleted.
LeadsToDeleted(program, rows, lib) ==
  \E row \in Range(rows) : row.title # {} /\
    \E b \in IF program = "goodreads" THEN GoodreadsKnown(lib, row)
             ELSE StoryKnown(Begin(lib), row) : lib.books[b].dead

(***************************************************************************)
(* Whatever is in an export and in the library, an import takes in each of *)
(* its rows as one outcome, and a second one makes no book, no session and *)
(* no tag; a dry run says beforehand what it will do.  Except: an import   *)
(* of a row that leads to a deleted book fails, when there is a tag for    *)
(* it, and the whole file with it; a row of Goodreads without id, and one  *)
(* of StoryGraph with a capital that SQLite does not lower, are not known  *)
(* again; and a dry run counts a book twice that is twice in the export.   *)
(***************************************************************************)
RowsImportOnce ==
  LET of == export.of  rows == export.rows
      run == Ran(of, rows, shelf, FALSE)  dry == Ran(of, rows, shelf, TRUE)
      again == Ran(of, rows, run.lib, FALSE)
      report == run.report
  IN rows # <<>> =>
    /\ dry.lib = shelf
    /\ run.failed => LeadsToDeleted(of, rows, shelf)
    /\ ~run.failed =>
         /\ report.total = Len(rows) /\ ~again.failed
         /\ Len(run.lib.books) = Len(shelf.books) + report.imported
         /\ (\A row \in Range(rows) : Recognized(of, row)) => again.lib = run.lib
         /\ ~Repeats(of, rows) => dry.report = report

=============================================================================
