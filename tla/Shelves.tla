------------------------------- MODULE Shelves --------------------------------
(***************************************************************************)
(* The shelves of a library: rows of shelves with a name each, regular or  *)
(* smart, and rows of book_shelves that put books on them.  Shelves are    *)
(* local: no op tells another device of them, and only a backup carries    *)
(* them.                                                                   *)
(*                                                                         *)
(* A name is compared exactly where a shelf is written and listed, and     *)
(* without its case where one is shown and where a smart filter looks for  *)
(* it.  Adding a book to a shelf is three statements: find the shelf,      *)
(* create it if there is none, insert the row.                             *)
(***************************************************************************)
EXTENDS Naturals, FiniteSets

CONSTANTS
  Shelved,      \* the books
  Name,         \* names of shelves
  Twin,         \* names that differ in their case only
  Adder,        \* commands that can add a book at the same time
  MaxShelves,   \* bound on the shelves ever made
  MaxUpkeeps    \* bound on removals, merges, backups and restores

ASSUME ShelvesAssumption ==
  /\ Twin \subseteq Name
  /\ MaxShelves \in Nat /\ MaxUpkeeps \in Nat

Regular == "regular"

VARIABLES
  shelf,     \* the rows of shelves; seeks: what the filter of a smart one looks for
  placed,    \* the rows of book_shelves
  shelved,   \* shelved[b]: the row of the book b
  adding,    \* adding[a]: what the command a is about to insert
  archive,   \* the backup that was made last
  made,      \* the shelves made so far
  upkeeps,   \* the removals, merges, backups and restores so far
  wanted,    \* history: wanted[n]: the books the user has on the regular shelf n
  overlaid   \* history: the smart shelves that a restore took for regular ones,
             \* and the regular ones that later had their books from those

shelvesVars == <<shelf, placed, shelved, adding, archive, made, upkeeps, wanted, overlaid>>

Waiting == [book |-> "none", name |-> "none", id |-> 0]
Library(s, p, b, w, o) == [shelf |-> s, placed |-> p, shelved |-> b, wanted |-> w, overlaid |-> o]
Bare == [n \in Name |-> {}]

ShelvesInit ==
  /\ shelf = {} /\ placed = {}
  /\ shelved = [b \in Shelved |-> "live"]
  /\ adding = [a \in Adder |-> Waiting]
  /\ archive = Library({}, {}, [b \in Shelved |-> "none"], Bare, {})
  /\ made = 0 /\ upkeeps = 0
  /\ wanted = Bare /\ overlaid = {}

Alike(m, n) == m = n \/ {m, n} \subseteq Twin
Named(n) == {s \in shelf : s.name = n}
Live == {b \in Shelved : shelved[b] = "live"}
OnIds(ids) == {b \in Live : \E i \in ids : <<b, i>> \in placed}
Ids(shelves) == {s.id : s \in shelves}

NewShelf(n, seeks) ==
  /\ made < MaxShelves
  /\ made' = made + 1
  /\ shelf' = shelf \cup {[id |-> made + 1, name |-> n, seeks |-> seeks]}

Upkeep == upkeeps < MaxUpkeeps /\ upkeeps' = upkeeps + 1

-----------------------------------------------------------------------------
(* What one sees. *)

\* The condition shelf:n of a filter.
Filtered(n) == OnIds({s.id : s \in {x \in shelf : Alike(x.name, n) /\ x.seeks = Regular}})

\* list_books_in_shelf.
Listed(n) ==
  UNION {IF s.seeks = Regular THEN OnIds({s.id}) ELSE Filtered(s.seeks) : s \in Named(n)}

\* A search restricted to the shelf n.
Searched(n) == OnIds(Ids(Named(n)))

\* The live books whose page names the shelf n.
Tagged(n) == {b \in Live : \E s \in Named(n) : <<b, s.id>> \in placed}

-----------------------------------------------------------------------------
(* What the user does. *)

CreateShelf(n, seeks) ==
  /\ Named(n) = {}
  /\ NewShelf(n, seeks)
  /\ UNCHANGED <<placed, shelved, adding, archive, upkeeps, wanted, overlaid>>

AddFinds(a, b, n) ==
  /\ adding[a] = Waiting
  /\ b \in Live
  /\ \A s \in Named(n) : s.seeks = Regular
  /\ \E i \in IF Named(n) = {} THEN {0} ELSE Ids(Named(n)) :
       adding' = [adding EXCEPT ![a] = [book |-> b, name |-> n, id |-> i]]
  /\ UNCHANGED <<shelf, placed, shelved, archive, made, upkeeps, wanted, overlaid>>

\* The name may be taken by now.
AddCreates(a) ==
  /\ adding[a].book # "none" /\ adding[a].id = 0
  /\ IF Named(adding[a].name) = {}
     THEN /\ NewShelf(adding[a].name, Regular)
          /\ adding' = [adding EXCEPT ![a].id = made']
     ELSE /\ adding' = [adding EXCEPT ![a] = Waiting]
          /\ UNCHANGED <<shelf, made>>
  /\ UNCHANGED <<placed, shelved, archive, upkeeps, wanted, overlaid>>

\* A faulty AddPlaces, to validate ShelvesAgree: without the foreign key.
AddPlacesUnchecked(a) ==
  /\ adding[a].id # 0
  /\ placed' = placed \cup {<<adding[a].book, adding[a].id>>}
  /\ wanted' = [wanted EXCEPT ![adding[a].name] = @ \cup {adding[a].book}]
  /\ adding' = [adding EXCEPT ![a] = Waiting]
  /\ UNCHANGED <<shelf, shelved, archive, made, upkeeps, overlaid>>

\* The insert is refused if the shelf or the book has gone.
AddPlaces(a) ==
  /\ adding[a].id # 0
  /\ IF adding[a].id \in Ids(shelf) /\ shelved[adding[a].book] # "none"
     THEN /\ placed' = placed \cup {<<adding[a].book, adding[a].id>>}
          /\ wanted' = [wanted EXCEPT ![adding[a].name] = @ \cup {adding[a].book}]
     ELSE UNCHANGED <<placed, wanted>>
  /\ adding' = [adding EXCEPT ![a] = Waiting]
  /\ UNCHANGED <<shelf, shelved, archive, made, upkeeps, overlaid>>

\* Of a smart shelf, the rows that a restore gave it.
RemoveFromShelf(b, n) ==
  /\ Upkeep
  /\ b \in Live /\ b \in Searched(n)
  /\ placed' = placed \ ({b} \X Ids(Named(n)))
  /\ wanted' = [wanted EXCEPT ![n] = @ \ {b}]
  /\ UNCHANGED <<shelf, shelved, adding, archive, made, overlaid>>

\* The rows of the shelf cascade.
DeleteShelf(n) ==
  /\ Upkeep
  /\ Named(n) # {}
  /\ shelf' = shelf \ Named(n)
  /\ placed' = {p \in placed : p[2] \notin Ids(Named(n))}
  /\ wanted' = [wanted EXCEPT ![n] = {}]
  /\ overlaid' = overlaid \ Ids(Named(n))
  /\ UNCHANGED <<shelved, adding, archive, made>>

DeleteBook(b) ==
  /\ Upkeep
  /\ b \in Live
  /\ shelved' = [shelved EXCEPT ![b] = "dead"]
  /\ UNCHANGED <<shelf, placed, adding, archive, made, wanted, overlaid>>

\* merge_books moves no shelf: the rows of the removed book cascade.
MergeAway(b) ==
  /\ Upkeep
  /\ b \in Live
  /\ shelved' = [shelved EXCEPT ![b] = "none"]
  /\ placed' = {p \in placed : p[1] # b}
  /\ wanted' = [n \in Name |-> wanted[n] \ {b}]
  /\ UNCHANGED <<shelf, adding, archive, made, overlaid>>

-----------------------------------------------------------------------------
(* Backups. *)

Backup ==
  /\ Upkeep
  /\ archive' = Library(shelf, placed, shelved, wanted, overlaid)
  /\ UNCHANGED <<shelf, placed, shelved, adding, made, wanted, overlaid>>

\* A shelf of the archive goes to the one of its name, whatever that is.
RestoreMerge ==
  LET back == {s \in archive.shelf : Named(s.name) = {}}
      all == shelf \cup back
      local(i) == {s.id : s \in {x \in all : \E y \in archive.shelf : y.id = i /\ y.name = x.name}}
      rows == UNION {{p[1]} \X local(p[2]) : p \in archive.placed}
  IN
  /\ Upkeep
  /\ archive.shelf # {}
  /\ shelf' = all
  /\ shelved' = [b \in Shelved |-> IF shelved[b] = "none" THEN archive.shelved[b] ELSE shelved[b]]
  /\ placed' = placed \cup rows
  /\ wanted' = [n \in Name |-> wanted[n] \cup
                  (IF \E s \in all : s.name = n /\ s.seeks = Regular THEN archive.wanted[n] ELSE {})]
  /\ overlaid' = overlaid \cup {s.id : s \in {x \in all :
                    \/ x.seeks # Regular /\ \E p \in rows : p[2] = x.id
                    \/ \E y \in archive.shelf : y.name = x.name /\ y.id \in archive.overlaid}}
  /\ UNCHANGED <<adding, archive, made>>

RestoreReplace ==
  /\ Upkeep
  /\ archive.shelf # {}
  /\ shelf' = archive.shelf /\ placed' = archive.placed
  /\ shelved' = archive.shelved /\ wanted' = archive.wanted
  /\ overlaid' = archive.overlaid
  /\ UNCHANGED <<adding, archive, made>>

ShelvesNext ==
  \/ \E n \in Name :
       \/ \E seeks \in {Regular} \cup Name : CreateShelf(n, seeks)
       \/ \E b \in Shelved :
            \/ \E a \in Adder : AddFinds(a, b, n)
            \/ RemoveFromShelf(b, n)
       \/ DeleteShelf(n)
  \/ \E a \in Adder : AddCreates(a) \/ AddPlaces(a)
  \/ \E b \in Shelved : DeleteBook(b) \/ MergeAway(b)
  \/ Backup \/ RestoreMerge \/ RestoreReplace

ShelvesSpec == ShelvesInit /\ [][ShelvesNext]_shelvesVars

-----------------------------------------------------------------------------

(***************************************************************************)
(* A regular shelf has the books the user put on it and has not taken off, *)
(* and whichever way one looks it is the same ones: listing it, searching  *)
(* within it, naming it in a filter if no other shelf has its name in      *)
(* another case, and looking at its books.  A smart shelf lists what its   *)
(* filter picks and no search within it finds anything, unless a restore   *)
(* has taken it for the regular shelf of its name; its books may come back *)
(* to a regular one by way of another backup.                              *)
(***************************************************************************)
ShelvesAgree ==
  /\ placed \subseteq {b \in Shelved : shelved[b] # "none"} \X Ids(shelf)
  /\ \A n \in Name :
       /\ Cardinality(Named(n)) <= 1
       /\ \A s \in Named(n) :
            IF s.seeks = Regular
            THEN /\ s.id \notin overlaid => Listed(n) = wanted[n] \cap Live
                 /\ Searched(n) = Listed(n) /\ Tagged(n) = Listed(n)
                 /\ (\A o \in shelf : Alike(o.name, n) => o = s) => Filtered(n) = Listed(n)
            ELSE /\ Listed(n) = Filtered(s.seeks)
                 /\ s.id \notin overlaid => Searched(n) = {} /\ Tagged(n) = {}

=============================================================================
