------------------------------- MODULE FileShelf -------------------------------
(***************************************************************************)
(* The ebook files of a library: the rows of the files table beside the    *)
(* files on the disk, under toku file add, remove and organize, toku       *)
(* convert, and a backup that is restored on another machine.              *)
(*                                                                         *)
(* A path is a spot and a format.  The spots are the loose ones, where the *)
(* user's downloads are, and those that the template gives: all books here *)
(* render to one place, so the spot n is that place with the suffix " (n)" *)
(* and every organization collides.  A file is named by its digest.        *)
(***************************************************************************)
EXTENDS Naturals, Sequences, FiniteSets, SequencesExt

CONSTANTS
  Loose,     \* the spots outside the managed library
  MaxCopies, \* bound on the suffixes tried
  Format,    \* what a file can be: epub, pdf, mobi, azw3
  Digest,    \* the contents of files
  Book,
  MaxLinks,  \* bound on the rows
  Organizer, \* the processes that run toku file organize
  MaxRoom,   \* bound on the files on the disk when another is made
  MaxMishaps \* bound on the kinds of mishaps, in a behaviour that goes on

ASSUME ShelfAssumption ==
  /\ {MaxCopies, MaxLinks, MaxRoom, MaxMishaps} \subseteq Nat
  /\ 0 \notin Digest

VARIABLES
  disk,     \* disk[p]: the digest of the file at p, NoFile if there is none
  links,    \* the rows of the files table, by id
  across,   \* the managed library is on another file system
  phase,    \* phase[o]: whether o is organizing: "run", "undo", or "idle"
  books,    \* books[o]: the books that are still to be planned
  rows,     \* rows[o]: those rows of the book at hand
  claimed,  \* claimed[o]: the targets taken by the plan
  plan,     \* plan[o]: the moves
  at,       \* at[o]: how many of them are done
  copying,  \* copying[o]: the files are copied, not moved
  troubles  \* history: what has bent the promises

runVars == <<phase, books, rows, claimed, plan, at, copying>>
shelfVars == <<disk, links, across, phase, books, rows, claimed, plan, at, copying,
               troubles>>

Spot == Loose \cup (1 .. MaxCopies)
Path == Spot \X Format
NoFile == 0
Room == Cardinality({p \in Path : disk[p] # NoFile}) < MaxRoom
FormatOf(p) == p[2]
LinkRow == [book : Book, path : Path, digest : Digest]

ShelfInit ==
  /\ disk = [p \in Path |-> NoFile]
  /\ links = <<>>
  /\ across \in BOOLEAN
  /\ phase = [o \in Organizer |-> "idle"]
  /\ books = [o \in Organizer |-> {}]
  /\ rows = [o \in Organizer |-> {}]
  /\ claimed = [o \in Organizer |-> {}]
  /\ plan = [o \in Organizer |-> <<>>]
  /\ at = [o \in Organizer |-> 0]
  /\ copying = [o \in Organizer |-> FALSE]
  /\ troubles = {}

\* A process that comes in between the steps of an organization.
Meddled == IF \E k \in Organizer : phase[k] # "idle" THEN {"overlap"} ELSE {}

Trouble(more) == troubles' = troubles \cup more

-----------------------------------------------------------------------------
(* One file at a time. *)

Download(p, c) ==
  /\ p[1] \in Loose /\ disk[p] = NoFile /\ Room
  /\ disk' = [disk EXCEPT ![p] = c]
  /\ Trouble(Meddled)
  /\ UNCHANGED <<links, across, runVars>>

\* add_file: refused if the book has the digest; that the path is in use is not
\* looked at.
Linked(b, p, c) ==
  IF \E r \in DOMAIN links : links[r].book = b /\ links[r].digest = c
  THEN UNCHANGED links
  ELSE /\ Len(links) < MaxLinks
       /\ links' = Append(links, [book |-> b, path |-> p, digest |-> c])

SharesPath(p) ==
  IF \E r \in DOMAIN links : links[r].path = p THEN {"shared"} ELSE {}

AddFile(b, p) ==
  /\ disk[p] # NoFile
  /\ Linked(b, p, disk[p]) /\ links' # links
  /\ Trouble(SharesPath(p) \cup Meddled)
  /\ UNCHANGED <<disk, across, runVars>>

RemoveFile(r, delete) ==
  /\ r \in DOMAIN links
  /\ links' = RemoveAt(links, r)
  /\ disk' = IF delete THEN [disk EXCEPT ![links[r].path] = NoFile] ELSE disk
  /\ Trouble(Meddled \cup IF delete THEN {"discarded"} ELSE {})
  /\ UNCHANGED <<across, runVars>>

\* The output is next to the source, and overwrites what is there if forced.
Convert(r, f, forced, c) ==
  /\ r \in DOMAIN links /\ f # FormatOf(links[r].path)
  /\ disk[links[r].path] # NoFile /\ Room
  /\ LET to == <<links[r].path[1], f>> IN
       /\ disk[to] = NoFile \/ forced
       /\ disk' = [disk EXCEPT ![to] = c]
       /\ Linked(links[r].book, to, c)
       /\ Trouble(SharesPath(to) \cup Meddled
                    \cup IF disk[to] # NoFile THEN {"discarded"} ELSE {})
  /\ UNCHANGED <<across, runVars>>

-----------------------------------------------------------------------------
(* Organizing: plan_organize, then apply_plan. *)

Rests(o) ==
  /\ phase' = [phase EXCEPT ![o] = "idle"]
  /\ books' = [books EXCEPT ![o] = {}]
  /\ rows' = [rows EXCEPT ![o] = {}]
  /\ claimed' = [claimed EXCEPT ![o] = {}]
  /\ plan' = [plan EXCEPT ![o] = <<>>]
  /\ at' = [at EXCEPT ![o] = 0]
  /\ copying' = [copying EXCEPT ![o] = FALSE]

\* One book, or all of them.
PlanBegin(o, chosen, copy) ==
  /\ phase[o] = "idle"
  /\ phase' = [phase EXCEPT ![o] = "run"]
  /\ books' = [books EXCEPT ![o] = chosen]
  /\ copying' = [copying EXCEPT ![o] = copy]
  /\ Trouble(Meddled)
  /\ UNCHANGED <<disk, links, across, rows, claimed, plan, at>>

PlanBook(o, b) ==
  /\ phase[o] = "run" /\ rows[o] = {}
  /\ b \in books[o]
  /\ books' = [books EXCEPT ![o] = @ \ {b}]
  /\ rows' = [rows EXCEPT ![o] = {row \in ToSet(links) : row.book = b}]
  /\ UNCHANGED <<disk, links, across, phase, claimed, plan, at, copying, troubles>>

\* resolve_target: the first of the suffixes at which the file is already, or
\* that is neither on the disk nor claimed by the plan.
Fits(from, taken, n) ==
  LET p == <<n, FormatOf(from)>> IN p = from \/ (p \notin taken /\ disk[p] = NoFile)

Targets(from, taken) ==
  {<<n, FormatOf(from)>> : n \in
     {n \in 1 .. MaxCopies : Fits(from, taken, n) /\ \A k \in 1 .. n - 1 : ~Fits(from, taken, k)}}

\* A file that is missing is skipped, and one that is in place.
PlanFile(o, row) ==
  /\ phase[o] = "run"
  /\ row \in rows[o]
  /\ rows' = [rows EXCEPT ![o] = @ \ {row}]
  /\ IF disk[row.path] = NoFile THEN UNCHANGED <<claimed, plan>>
     ELSE \E to \in Targets(row.path, claimed[o]) :
            /\ claimed' = [claimed EXCEPT ![o] = @ \cup {to}]
            /\ plan' = IF to = row.path THEN plan
                       ELSE [plan EXCEPT ![o] =
                               Append(@, [link |-> row, from |-> row.path, to |-> to])]
  /\ UNCHANGED <<disk, links, across, phase, books, at, copying, troubles>>

\* The plan is complete, and is applied.
Applies(o) == phase[o] = "run" /\ books[o] = {} /\ rows[o] = {}

Moved(d, m, copy) ==
  [d EXCEPT ![m.to] = d[m.from], ![m.from] = IF copy THEN d[m.from] ELSE NoFile]

ApplyMove(o) ==
  /\ Applies(o) /\ at[o] < Len(plan[o])
  /\ LET m == plan[o][at[o] + 1] IN
       /\ disk[m.from] # NoFile
       /\ disk' = Moved(disk, m, copying[o])
  /\ at' = [at EXCEPT ![o] = @ + 1]
  /\ UNCHANGED <<links, across, phase, books, rows, claimed, plan, copying, troubles>>

\* The transaction at the end; a row that has gone is not updated.
CommitPaths(o) ==
  /\ Applies(o) /\ at[o] = Len(plan[o])
  /\ links' = [r \in DOMAIN links |->
       LET mine == {m \in ToSet(plan[o]) : m.link = links[r]} IN
       IF mine = {} THEN links[r] ELSE [links[r] EXCEPT !.path = (CHOOSE m \in mine : TRUE).to]]
  /\ Rests(o)
  /\ UNCHANGED <<disk, across, troubles>>

\* A file of another file system is copied and removed, and cannot be renamed back.
Stays(m) == across /\ m.from[1] \in Loose

\* A move that fails, as it must when the source has gone and may between the
\* copy and the removal, or the transaction.
ApplyFails(o) ==
  /\ Applies(o) /\ plan[o] # <<>>
  /\ phase' = [phase EXCEPT ![o] = "undo"]
  /\ \/ UNCHANGED disk
     \/ /\ at[o] < Len(plan[o]) /\ ~copying[o]
        /\ LET m == plan[o][at[o] + 1] IN
             /\ Stays(m) /\ disk[m.from] # NoFile
             /\ disk' = Moved(disk, m, TRUE)
  /\ UNCHANGED <<links, across, books, rows, claimed, plan, at, copying, troubles>>

\* A faulty Undone, to validate FilesAreKept: a move is undone as a copy is.
UndoneAsCopy(d, m, copy) == [d EXCEPT ![m.to] = NoFile]

\* undo_fs: a copy is removed, a move renamed back; no error is reported.
Undone(d, m, copy) ==
  IF copy THEN [d EXCEPT ![m.to] = NoFile]
  ELSE IF Stays(m) \/ d[m.to] = NoFile THEN d
  ELSE [d EXCEPT ![m.from] = d[m.to], ![m.to] = NoFile]

UndoMove(o) ==
  /\ phase[o] = "undo" /\ at[o] > 0
  /\ LET m == plan[o][at[o]] IN
       /\ disk' = Undone(disk, m, copying[o])
       /\ Trouble(IF ~copying[o] /\ Stays(m) THEN {"stranded"} ELSE {})
  /\ at' = [at EXCEPT ![o] = @ - 1]
  /\ UNCHANGED <<links, across, phase, books, rows, claimed, plan, copying>>

UndoEnds(o) ==
  /\ phase[o] = "undo" /\ at[o] = 0
  /\ Rests(o)
  /\ UNCHANGED <<disk, links, across, troubles>>

\* A dry run or a kill; the transaction that cannot begin, whose error is
\* returned with nothing undone, leaves the same.
OrganizeStops(o) ==
  /\ phase[o] # "idle"
  /\ Rests(o)
  /\ Trouble(IF at[o] # 0 THEN {"stopped"} ELSE {})
  /\ UNCHANGED <<disk, links, across>>

-----------------------------------------------------------------------------
(* The binaries of a backup, by digest and format. *)

Entry(row) == <<row.digest, FormatOf(row.path)>>

\* Only the first row with an entry is looked at, there or not.
First(r) == \A k \in 1 .. r - 1 : Entry(links[k]) # Entry(links[r])

Twins == \E r, k \in DOMAIN links :
           Entry(links[r]) = Entry(links[k]) /\ links[r].path # links[k].path

\* A backup, and its restore on a machine with no files yet.  write_backup reads
\* an entry from the path of its first row, and extract_binaries writes it there.
MoveToNewMachine ==
  /\ disk' = [p \in Path |->
       IF \E r \in DOMAIN links : First(r) /\ links[r].path = p THEN disk[p] ELSE NoFile]
  /\ Trouble(Meddled \cup (IF Twins THEN {"twins"} ELSE {})
        \cup IF troubles \cap {"stopped", "stranded", "shared", "twins"} # {} THEN {"left"} ELSE {})
  /\ UNCHANGED <<links, across, runVars>>

\* What leaves something to promise; a behaviour is followed no further than that.
Bearable == {"stopped", "stranded", "shared", "twins", "discarded"}

ShelfNext ==
  /\ troubles \subseteq Bearable /\ Cardinality(troubles) <= MaxMishaps
  /\ \/ \E p \in Path :
          \/ \E c \in Digest : Download(p, c)
          \/ \E b \in Book : AddFile(b, p)
     \/ \E r \in DOMAIN links :
          \/ \E delete \in BOOLEAN : RemoveFile(r, delete)
          \/ \E f \in Format, forced \in BOOLEAN, c \in Digest : Convert(r, f, forced, c)
     \/ \E o \in Organizer :
          \/ \E chosen \in {{b} : b \in Book} \cup {Book}, copy \in BOOLEAN :
               PlanBegin(o, chosen, copy)
          \/ \E b \in Book : PlanBook(o, b)
          \/ \E row \in rows[o] : PlanFile(o, row)
          \/ ApplyMove(o) \/ CommitPaths(o) \/ ApplyFails(o)
          \/ UndoMove(o) \/ UndoEnds(o) \/ OrganizeStops(o)
     \/ MoveToNewMachine

ShelfSpec == ShelfInit /\ [][ShelfNext]_shelfVars

-----------------------------------------------------------------------------

Mishap == {"overlap", "stopped", "stranded", "shared", "twins", "left", "discarded"}
Move == [link : LinkRow, from : Path, to : Path]

ShelfTypeOK ==
  /\ disk \in [Path -> Digest \cup {NoFile}]
  /\ links \in Seq(LinkRow) /\ Len(links) <= MaxLinks
  /\ phase \in [Organizer -> {"idle", "run", "undo"}]
  /\ books \in [Organizer -> SUBSET Book] /\ rows \in [Organizer -> SUBSET LinkRow]
  /\ claimed \in [Organizer -> SUBSET Path] /\ plan \in [Organizer -> Seq(Move)]
  /\ at \in [Organizer -> Nat] /\ copying \in [Organizer -> BOOLEAN]
  /\ \A o \in Organizer : at[o] <= Len(plan[o])
  /\ across \in BOOLEAN
  /\ troubles \subseteq Mishap

\* An organization that moves files has the file of a row at its target.
IsMoved(row) ==
  \E o \in Organizer : ~copying[o] /\
    \E i \in 1 .. at[o] : plan[o][i].link = row /\ disk[plan[o][i].to] = row.digest

(***************************************************************************)
(* Each row of the library leads to its file, with the contents it was     *)
(* linked with, or the organization that is running has the file at its    *)
(* target: through adding, converting, removing, organizing in whatever    *)
(* order with failures undone, and in a library restored elsewhere.        *)
(* Except: two rows with one path; a command run beside an organization;   *)
(* an organization killed before its transaction; one undone across file   *)
(* systems; equal files at two paths in a backup.  Killed or undone, it    *)
(* has still lost no file, until the user discards one.                    *)
(***************************************************************************)
FilesAreKept ==
  \A r \in DOMAIN links :
    /\ troubles \subseteq {"discarded"} =>
         \/ disk[links[r].path] = links[r].digest
         \/ IsMoved(links[r])
    /\ troubles \subseteq {"stopped", "stranded", "shared", "twins"} =>
         \E p \in Path : disk[p] = links[r].digest

=============================================================================
