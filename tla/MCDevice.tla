------------------------------- MODULE MCDevice ------------------------------
(***************************************************************************)
(* What happens on the devices besides the sync of ops and of books: the   *)
(* merge rules of the other entities, backups of the library, the          *)
(* encryption of its file, and importing.  These parts share no state, so  *)
(* a behaviour is about one of them.                                       *)
(***************************************************************************)
EXTENDS TagMerge, DocumentMerge, SettingMerge, LibraryRestore, DatabaseFile,
        BookImport, RowImport, TLC

VARIABLE part

Init ==
  /\ TagInit /\ DocInit /\ SettingInit /\ RestoreInit /\ FileInit /\ ImportInit
  /\ RowInit
  /\ part \in {"tag", "document", "setting", "restore", "file", "import", "rows"}

\* A bound: a note's merges die or its conflicts are resolved, in a behaviour.
OneTrouble == resolutions' = 0 \/ \A d \in Reader : torn'[d] = {}

Next ==
  /\ \/ /\ part = "tag" /\ TagNext
        /\ UNCHANGED <<docVars, settingVars, restoreVars, fileVars, importVars, rowVars>>
     \/ /\ part = "document" /\ DocNext /\ OneTrouble
        /\ UNCHANGED <<tagVars, settingVars, restoreVars, fileVars, importVars, rowVars>>
     \/ /\ part = "setting" /\ SettingNext
        /\ UNCHANGED <<tagVars, docVars, restoreVars, fileVars, importVars, rowVars>>
     \/ /\ part = "restore" /\ RestoreNext
        /\ UNCHANGED <<tagVars, docVars, settingVars, fileVars, importVars, rowVars>>
     \/ /\ part = "file" /\ FileNext
        /\ UNCHANGED <<tagVars, docVars, settingVars, restoreVars, importVars, rowVars>>
     \/ /\ part = "import" /\ ImportNext
        /\ UNCHANGED <<tagVars, docVars, settingVars, restoreVars, fileVars, rowVars>>
     \/ /\ part = "rows" /\ RowNext
        /\ UNCHANGED <<tagVars, docVars, settingVars, restoreVars, fileVars, importVars>>
  /\ UNCHANGED part

Spec ==
  Init /\ [][Next]_<<part, tagVars, docVars, settingVars, restoreVars, fileVars,
                     importVars, rowVars>>

\* The configuration gives the actors of all the parts the same names, and their
\* values too, so that one permutation serves all.
Symmetry == Permutations(Device) \cup Permutations(Text)

=============================================================================
