-------------------------------- MODULE MCBooks ------------------------------
(***************************************************************************)
(* A book's row, merged from the ops of several devices, and the files of  *)
(* the books on one of them.  A file's row refers to its book by an id     *)
(* that nothing here changes: the two share no state, so a behaviour is    *)
(* about one of them.                                                      *)
(***************************************************************************)
EXTENDS BookMerge, FileShelf, TLC

VARIABLE part

PartInit ==
  /\ Init /\ ShelfInit
  /\ part \in {"row", "shelf"}
  /\ part = "row" => ~across

\* A bound: after a mishap no row of a file is added.
NoMoreLinks == troubles # {} => Len(links') <= Len(links)

PartNext ==
  /\ \/ part = "row" /\ Next /\ UNCHANGED shelfVars
     \/ part = "shelf" /\ ShelfNext /\ NoMoreLinks /\ UNCHANGED vars
  /\ UNCHANGED part

PartSpec == PartInit /\ [][PartNext]_<<part, vars, shelfVars>>

Symmetry == Permutations(Device) \cup Permutations(Digest) \cup Permutations(Book)

=============================================================================
