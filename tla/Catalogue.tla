------------------------------ MODULE Catalogue -------------------------------
(***************************************************************************)
(* How a library finds its books again: by ISBN, by the words of titles    *)
(* and authors, and by the work they are editions of.                      *)
(*                                                                         *)
(* Adding a book is a statement or transaction per fact: the row with its  *)
(* op, the ISBN, the author.  An ISBN is the key of its row, so the first  *)
(* book that has one keeps it, even under a tombstone.  The words are kept *)
(* in search_text, a column that some of the writers refresh.              *)
(***************************************************************************)
EXTENDS Naturals, FiniteSets

CONSTANTS
  Desk,        \* commands that can run at the same time
  Number,      \* ISBNs
  Heading,     \* titles, of books and of works
  MaxVolumes,  \* bound on the books
  MaxWorks,    \* bound on the works
  MaxEvents    \* bound on what is not the adding of a book

Volume == 1 .. MaxVolumes
Author == "author"
None == "none"

ASSUME CatalogueAssumption ==
  /\ {MaxVolumes, MaxWorks, MaxEvents} \subseteq Nat
  /\ None \notin Number \cup Heading   \* what is not given is no ISBN and no title

VARIABLES
  volume,     \* volume[b]: the row of books and its author; text: the words in search_text
  isbns,      \* isbns[n]: the book of the row of isbns, 0 if there is none
  works,      \* the rows of works, as their titles in the order they were made
  task,       \* task[d]: what the command d has still to do
  events,     \* what has happened besides
  asked,      \* history: asked[b]: the ISBNs that the user gave for the book
  blurred,    \* history: the ISBNs that two commands added at once, or one
              \* that died, or that a tombstone had
  doubled,    \* history: the titles that two commands made a work of at once
  unindexed   \* history: the books written past search_text since it was refreshed

catalogueVars == <<volume, isbns, works, task, events, asked, blurred, doubled, unindexed>>

Unwritten == [is |-> "gone", title |-> None, by |-> {}, text |-> {}, work |-> 0]
Idle == [next |-> "none", number |-> None, title |-> None, by |-> {}, book |-> 0, work |-> 0]

CatalogueInit ==
  /\ volume = [b \in Volume |-> Unwritten]
  /\ isbns = [n \in Number |-> 0]
  /\ works = [w \in 1 .. MaxWorks |-> None]
  /\ task = [d \in Desk |-> Idle]
  /\ events = 0
  /\ asked = [b \in Volume |-> {}]
  /\ blurred = {} /\ doubled = {} /\ unindexed = {}

Event == events < MaxEvents /\ events' = events + 1

Words(v) == {v.title} \cup v.by
OnShelf(b) == volume[b].is = "live"
\* Rows are made in the order of their numbers.
IsNext(b) == volume[b] = Unwritten /\ \A c \in 1 .. b - 1 : volume[c] # Unwritten
Row(t, by, text) == [is |-> "live", title |-> t, by |-> by, text |-> text, work |-> 0]

\* A row that is gone keeps its place, as an id is never used again.
Removed(v) == [v EXCEPT !.is = "removed"]

\* find_by_isbn.
FoundBy(n) == {b \in Volume : isbns[n] = b /\ OnShelf(b)}

\* A faulty Refresh, to validate SearchFindsBooks: the authors are forgotten.
RefreshTitle(b, v) == IF v.is = "live" THEN [v EXCEPT !.text = {v.title}] ELSE v

\* update_search_text; a book with a tombstone is not found and keeps its text.
Refresh(b, v) == IF v.is = "live" THEN [v EXCEPT !.text = Words(v)] ELSE v
Refreshed(b) == IF OnShelf(b) THEN unindexed \ {b} ELSE unindexed

Adding(n) == {d \in Desk : task[d].number = n}

-----------------------------------------------------------------------------
(* toku add. *)

\* With an ISBN that is found the command adds no book.
AddBegins(d, n, t, by) ==
  /\ task[d] = Idle
  /\ n # None => FoundBy(n) = {}
  /\ task' = [task EXCEPT ![d] = [Idle EXCEPT !.next = "row", !.number = n, !.title = t, !.by = by]]
  /\ blurred' = IF n # None /\ (Adding(n) # {} \/ isbns[n] # 0) THEN blurred \cup {n} ELSE blurred
  /\ UNCHANGED <<volume, isbns, works, events, asked, doubled, unindexed>>

\* create_book.
AddWritesRow(d, b) ==
  /\ task[d].next = "row"
  /\ IsNext(b)
  /\ volume' = [volume EXCEPT ![b] = Row(task[d].title, {}, {task[d].title})]
  /\ asked' = [asked EXCEPT ![b] = {task[d].number} \cap Number]
  /\ task' = [task EXCEPT ![d] = [@ EXCEPT !.book = b,
                !.next = IF task[d].number # None THEN "number" ELSE "author"]]
  /\ UNCHANGED <<isbns, works, events, blurred, doubled, unindexed>>

\* add_isbn: ignored if the ISBN has a row, refused if the book has none any more.
AddWritesNumber(d) ==
  /\ task[d].next = "number"
  /\ IF volume[task[d].book].is = "removed"
     THEN task' = [task EXCEPT ![d] = Idle] /\ UNCHANGED isbns
     ELSE /\ isbns' = [isbns EXCEPT ![task[d].number] = IF @ = 0 THEN task[d].book ELSE @]
          /\ task' = [task EXCEPT ![d] = [@ EXCEPT !.next = "author", !.number = None]]
  /\ UNCHANGED <<volume, works, events, asked, blurred, doubled, unindexed>>

\* add_book_author, if there is an author.
AddWritesAuthor(d) ==
  LET b == task[d].book IN
  /\ task[d].next = "author"
  /\ IF task[d].by = {} \/ volume[b].is = "removed"
     THEN UNCHANGED <<volume, unindexed>>
     ELSE /\ volume' = [volume EXCEPT ![b] = Refresh(b, [@ EXCEPT !.by = task[d].by])]
          /\ unindexed' = Refreshed(b)
  /\ task' = [task EXCEPT ![d] = Idle]
  /\ UNCHANGED <<isbns, works, events, asked, blurred, doubled>>

-----------------------------------------------------------------------------
(* toku merge, toku delete and the tombstones. *)

\* A faulty Inherited, to validate NumberLeadsToItsBook: the rows cascade.
InheritedNot(keep, gone) == [n \in Number |-> IF isbns[n] = gone THEN 0 ELSE isbns[n]]

Inherited(keep, gone) == [n \in Number |-> IF isbns[n] = gone THEN keep ELSE isbns[n]]

\* merge_books but for its last statement.
MergeVolumes(d, keep, gone) ==
  /\ task[d] = Idle
  /\ Event
  /\ keep # gone /\ OnShelf(keep) /\ OnShelf(gone)
  /\ volume' = [volume EXCEPT ![gone] = Removed(volume[gone]),
                  ![keep] = [volume[keep] EXCEPT
                    !.by = volume[keep].by \cup volume[gone].by,
                    !.work = IF volume[keep].work = 0 THEN volume[gone].work ELSE volume[keep].work]]
  /\ isbns' = Inherited(keep, gone)
  /\ asked' = [asked EXCEPT ![keep] = @ \cup asked[gone], ![gone] = {}]
  /\ blurred' = blurred \cup {n \in Number : \E e \in Adding(n) : task[e].book = gone}
  /\ unindexed' = unindexed \cup {keep}
  /\ task' = [task EXCEPT ![d] = [Idle EXCEPT !.next = "refresh", !.book = keep]]
  /\ UNCHANGED <<works, doubled>>

\* The text is written anew outside of the transaction.
MergeRefreshes(d) ==
  LET b == task[d].book IN
  /\ task[d].next = "refresh"
  /\ volume' = [volume EXCEPT ![b] = Refresh(b, @)]
  /\ unindexed' = Refreshed(b)
  /\ task' = [task EXCEPT ![d] = Idle]
  /\ UNCHANGED <<isbns, works, events, asked, blurred, doubled>>

DeleteVolume(b) ==
  /\ Event
  /\ OnShelf(b)
  /\ volume' = [volume EXCEPT ![b].is = "dead"]
  /\ UNCHANGED <<isbns, works, task, asked, blurred, doubled, unindexed>>

\* purge_tombstones: what refers to the rows goes with them.
PurgeVolumes ==
  LET dead == {b \in Volume : volume[b].is = "dead"} IN
  /\ Event
  /\ dead # {}
  /\ volume' = [b \in Volume |-> IF b \in dead THEN Removed(volume[b]) ELSE volume[b]]
  /\ isbns' = [n \in Number |-> IF isbns[n] \in dead THEN 0 ELSE isbns[n]]
  /\ UNCHANGED <<works, task, asked, blurred, doubled, unindexed>>

-----------------------------------------------------------------------------
(* toku work.  The book is read first. *)

LinkFinds(d, b, t) ==
  /\ task[d] = Idle
  /\ Event
  /\ OnShelf(b)
  /\ LET found == {w \in DOMAIN works : works[w] = t} IN
     IF found = {}
     THEN /\ task' = [task EXCEPT ![d] = [Idle EXCEPT !.next = "work", !.title = t, !.book = b,
                                            !.work = volume[b].work]]
          /\ doubled' = IF \E e \in Desk : task[e].next = "work" /\ task[e].title = t
                        THEN doubled \cup {t} ELSE doubled
     ELSE /\ volume[b].work = 0
          /\ \E w \in found :
               task' = [task EXCEPT ![d] = [Idle EXCEPT !.next = "link", !.book = b, !.work = w]]
          /\ UNCHANGED doubled
  /\ UNCHANGED <<volume, isbns, works, asked, blurred, unindexed>>

\* The work stays, without an edition, if the book turns out to have another.
LinkMakesWork(d) ==
  /\ task[d].next = "work"
  /\ \E w \in DOMAIN works :
       /\ works[w] = None /\ \A v \in 1 .. w - 1 : works[v] # None
       /\ works' = [works EXCEPT ![w] = task[d].title]
       /\ task' = [task EXCEPT ![d] =
                     IF task[d].work # 0 THEN Idle
                     ELSE [Idle EXCEPT !.next = "link", !.book = task[d].book, !.work = w]]
  /\ UNCHANGED <<volume, isbns, events, asked, blurred, doubled, unindexed>>

\* Without effect if the row has gone meanwhile.
LinkWrites(d) ==
  /\ task[d].next = "link"
  /\ volume' = [volume EXCEPT ![task[d].book] =
                  IF @.is = "removed" THEN @ ELSE [@ EXCEPT !.work = task[d].work]]
  /\ task' = [task EXCEPT ![d] = Idle]
  /\ UNCHANGED <<isbns, works, events, asked, blurred, doubled, unindexed>>

UnlinkVolume(b) ==
  /\ Event
  /\ OnShelf(b) /\ volume[b].work # 0
  /\ volume' = [volume EXCEPT ![b].work = 0]
  /\ UNCHANGED <<isbns, works, task, asked, blurred, doubled, unindexed>>

\* A command that dies between two of its statements.
TaskDies(d) ==
  /\ task[d] # Idle
  /\ Event
  /\ blurred' = blurred \cup ({task[d].number} \cap Number)
  /\ task' = [task EXCEPT ![d] = Idle]
  /\ UNCHANGED <<volume, isbns, works, asked, doubled, unindexed>>

-----------------------------------------------------------------------------
(* Other writers. *)

\* The imports insert rows of their own making; that of StoryGraph has a text.
ImportVolume(b, t, by, text) ==
  /\ Event
  /\ IsNext(b)
  /\ text \in {{}, {t}}
  /\ volume' = [volume EXCEPT ![b] = Row(t, by, IF by = {} THEN text ELSE {t} \cup by)]
  /\ unindexed' = IF volume'[b].text = {} THEN unindexed \cup {b} ELSE unindexed
  /\ UNCHANGED <<isbns, works, task, asked, blurred, doubled>>

\* merge_book_create, and a snapshot: a row with no text.
PullVolume(b, t) ==
  /\ Event
  /\ IsNext(b)
  /\ volume' = [volume EXCEPT ![b] = Row(t, {}, {})]
  /\ unindexed' = unindexed \cup {b}
  /\ UNCHANGED <<isbns, works, task, asked, blurred, doubled>>

\* merge_book_update of a title.
PullTitle(b, t) ==
  /\ Event
  /\ OnShelf(b) /\ volume[b].title # t
  /\ volume' = [volume EXCEPT ![b].title = t]
  /\ unindexed' = unindexed \cup {b}
  /\ UNCHANGED <<isbns, works, task, asked, blurred, doubled>>

\* The end of restore_library, for the books that are there.
RestoreRefreshes ==
  /\ Event
  /\ volume' = [b \in Volume |-> IF volume[b].is \in {"live", "dead"}
                                 THEN [volume[b] EXCEPT !.text = Words(volume[b])] ELSE volume[b]]
  /\ unindexed' = {}
  /\ UNCHANGED <<isbns, works, task, asked, blurred, doubled>>

CatalogueNext ==
  \/ \E d \in Desk :
       \/ \E n \in Number \cup {None}, t \in Heading, by \in {{}, {Author}} : AddBegins(d, n, t, by)
       \/ \E b \in Volume :
            \/ AddWritesRow(d, b)
            \/ \E gone \in Volume : MergeVolumes(d, b, gone)
            \/ \E t \in Heading : LinkFinds(d, b, t)
       \/ AddWritesNumber(d) \/ AddWritesAuthor(d) \/ MergeRefreshes(d)
       \/ LinkMakesWork(d) \/ LinkWrites(d) \/ TaskDies(d)
  \/ \E b \in Volume :
       \/ DeleteVolume(b) \/ UnlinkVolume(b)
       \/ \E t \in Heading :
            \/ \E by \in {{}, {Author}}, text \in {{}, {t}} : ImportVolume(b, t, by, text)
            \/ PullVolume(b, t) \/ PullTitle(b, t)
  \/ PurgeVolumes \/ RestoreRefreshes

CatalogueSpec == CatalogueInit /\ [][CatalogueNext]_catalogueVars

-----------------------------------------------------------------------------

(***************************************************************************)
(* An ISBN leads to the one book that it was given for, through deletions, *)
(* merges and purges, once the command that adds it has ended; unless two  *)
(* commands added it at once, one died before it had written it, or a      *)
(* tombstone had it when it was added again.  A row of isbns is that of a  *)
(* row of books.  A title has one work, unless two commands made one at    *)
(* once, and a book is linked to a work that is there.                     *)
(***************************************************************************)
NumberLeadsToItsBook ==
  /\ \A n \in Number :
       /\ isbns[n] # 0 => volume[isbns[n]].is \in {"live", "dead"}
       /\ n \notin blurred =>
            /\ Cardinality({b \in Volume : OnShelf(b) /\ n \in asked[b]}) <= 1
            /\ Adding(n) = {} =>
                 \A b \in Volume : OnShelf(b) /\ n \in asked[b] => FoundBy(n) = {b}
  /\ \A v, w \in DOMAIN works : works[v] = works[w] => v = w \/ works[v] \in doubled \cup {None}
  /\ \A b \in Volume : volume[b].work # 0 => works[volume[b].work] # None

(***************************************************************************)
(* A search finds a book by the words of its title and its authors and by  *)
(* no others, whoever else writes to the library, unless the book came or  *)
(* was changed past the column it searches: by a pull or a snapshot, by an *)
(* import of a book without author, or by a merge whose last statement is  *)
(* still to come.                                                          *)
(***************************************************************************)
SearchFindsBooks ==
  \A b \in Volume : OnShelf(b) /\ b \notin unindexed => volume[b].text = Words(volume[b])

(***************************************************************************)
(* A reader finds a book by each of the ways there are, its ISBN and the   *)
(* words of its title and authors, and finds no other by them.             *)
(***************************************************************************)
CatalogueFinds == NumberLeadsToItsBook /\ SearchFindsBooks

=============================================================================
