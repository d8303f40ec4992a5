----------------------------- MODULE DatabaseFile -----------------------------
(***************************************************************************)
(* The file of the local library: toku db encrypt and toku db decrypt,     *)
(* which copy it, move it aside and put the copy in its place, beside the  *)
(* commands and the server that write to it.                               *)
(*                                                                         *)
(* A conversion is a sequence of steps on the file system, the last one    *)
(* the config: the salt from which the passphrase yields the key is kept   *)
(* nowhere else.  Any program opens the file if it is there and creates an *)
(* empty one if it is not.  A file keeps its identity when it is renamed,  *)
(* so a connection goes on writing to the file it has opened.  A key is    *)
(* the number of the salt it is made with, 0 for plaintext.                *)
(***************************************************************************)
EXTENDS Naturals

CONSTANTS
  Record,  \* what is ever written to the library
  MaxFiles \* bound on the files ever created

ASSUME FileAssumption == MaxFiles \in Nat

VARIABLES
  at,       \* at[n]: the file of that name, 0 if there is none
  content,  \* content[f]: its rows and the key it is encrypted with
  files,    \* the files created so far; also numbers the salts
  dbKey,    \* the key of [encryption] in config.toml, 0 if the section is absent
  conv,     \* the running conversion
  holder,   \* the file that another process has open, 0 if none
  editor,   \* what another command has read of the config, if it will save it
  written,  \* history: the rows ever committed
  stray,    \* history: those committed while a conversion had its copy
  mishaps   \* history: what bends the promises

fileVars == <<at, content, files, dbKey, conv, holder, editor, written, stray, mishaps>>

\* toku.db, the two temporary copies, toku.db.plaintext.bak, toku.db.encrypted.bak.
Name == {"db", "encrypting", "decrypting", "plaintext", "encrypted"}
File == 1 .. MaxFiles
Key == 0 .. MaxFiles
Idle == [phase |-> "idle", from |-> 0, to |-> 0]

FileInit ==
  /\ at = [n \in Name |-> 0] /\ content = [f \in File |-> [rows |-> {}, key |-> 0]]
  /\ files = 0 /\ dbKey = 0 /\ conv = Idle
  /\ holder = 0 /\ editor = {}
  /\ written = {} /\ stray = {} /\ mishaps = {}

Converting == conv.phase \in {"copied", "moved"}

\* What a commit to the file f does.
Commit(f, r) ==
  /\ r \notin written
  /\ written' = written \cup {r}
  /\ stray' = IF Converting \/ f # at'["db"] THEN stray \cup {r} ELSE stray

\* A new file under the name n.
Create(n, rows, key) ==
  /\ files < MaxFiles
  /\ files' = files + 1
  /\ at' = [at EXCEPT ![n] = files + 1]
  /\ content' = [content EXCEPT ![files + 1] = [rows |-> rows, key |-> key]]

-----------------------------------------------------------------------------
(* What writes to the library. *)

\* A command opens the database, creating it if need be, and writes.  Under
\* another key than the config's the open fails.
Write(r) ==
  /\ \/ /\ at["db"] = 0 /\ Create("db", {r}, dbKey)
     \/ /\ at["db"] # 0 /\ content[at["db"]].key = dbKey
        /\ content' = [content EXCEPT ![at["db"]].rows = @ \cup {r}]
        /\ UNCHANGED <<at, files>>
  /\ Commit(at'["db"], r)
  /\ UNCHANGED <<dbKey, conv, holder, editor, mishaps>>

HolderOpens ==
  /\ holder = 0 /\ at["db"] # 0 /\ content[at["db"]].key = dbKey
  /\ holder' = at["db"]
  /\ UNCHANGED <<at, content, files, dbKey, conv, editor, written, stray, mishaps>>

HolderWrites(r) ==
  /\ holder # 0
  /\ content' = [content EXCEPT ![holder].rows = @ \cup {r}]
  /\ UNCHANGED at
  /\ Commit(holder, r)
  /\ UNCHANGED <<files, dbKey, conv, holder, editor, mishaps>>

HolderCloses ==
  /\ holder # 0 /\ holder' = 0
  /\ UNCHANGED <<at, content, files, dbKey, conv, editor, written, stray, mishaps>>

\* Another command that changes the config reads all of it and writes all of it.
EditorLoads ==
  /\ editor = {} /\ editor' = {dbKey}
  /\ UNCHANGED <<at, content, files, dbKey, conv, holder, written, stray, mishaps>>

EditorSaves ==
  /\ editor # {} /\ editor' = {} /\ dbKey' \in editor
  /\ mishaps' = IF dbKey' # dbKey THEN mishaps \cup {"overlap"} ELSE mishaps
  /\ UNCHANGED <<at, content, files, conv, holder, written, stray>>

\* save truncates the file before it writes; an empty file reads as the default.
EditorDies ==
  /\ editor # {} /\ editor' = {} /\ dbKey' = 0
  /\ mishaps' = IF dbKey # 0 THEN mishaps \cup {"torn"} ELSE mishaps
  /\ UNCHANGED <<at, content, files, conv, holder, written, stray>>

-----------------------------------------------------------------------------
(* The conversion: encrypt if it has a key to encrypt with, else decrypt. *)

Copy == IF conv.to # 0 THEN "encrypting" ELSE "decrypting"
Backup == IF conv.to # 0 THEN "plaintext" ELSE "encrypted"

ConvertBegin ==
  /\ conv = Idle /\ at["db"] # 0 /\ files < MaxFiles
  /\ conv' = [phase |-> "begun", from |-> dbKey, to |-> IF dbKey = 0 THEN files + 1 ELSE 0]
  /\ mishaps' = IF "halfway" \in mishaps THEN mishaps \cup {"again"} ELSE mishaps
  /\ UNCHANGED <<at, content, files, dbKey, holder, editor, written, stray>>

\* A faulty ConvertCopy, to validate RowsSurvive: a copy that is there is used.
ConvertCopyUnlessThere ==
  /\ conv.phase = "begun" /\ content[at["db"]].key = conv.from
  /\ conv' = [conv EXCEPT !.phase = "copied"]
  /\ \/ at[Copy] = 0 /\ Create(Copy, content[at["db"]].rows, conv.to)
     \/ at[Copy] # 0 /\ UNCHANGED <<at, content, files>>
  /\ UNCHANGED <<dbKey, holder, editor, written, stray, mishaps>>

\* A copy that was left is removed first; the new one is opened to verify it.
ConvertCopy ==
  /\ conv.phase = "begun" /\ content[at["db"]].key = conv.from
  /\ conv' = [conv EXCEPT !.phase = "copied"]
  /\ Create(Copy, content[at["db"]].rows, conv.to)
  /\ UNCHANGED <<dbKey, holder, editor, written, stray, mishaps>>

\* A file that is not under the key is not copied.
ConvertRefused ==
  /\ conv.phase = "begun" /\ content[at["db"]].key # conv.from
  /\ conv' = Idle
  /\ at' = [at EXCEPT ![Copy] = 0]
  /\ UNCHANGED <<content, files, dbKey, holder, editor, written, stray, mishaps>>

\* The backup of an earlier conversion is replaced.
ConvertBackup ==
  /\ conv.phase = "copied"
  /\ conv' = [conv EXCEPT !.phase = "moved"]
  /\ at' = [at EXCEPT ![Backup] = at["db"], !["db"] = 0]
  /\ UNCHANGED <<content, files, dbKey, holder, editor, written, stray, mishaps>>

\* The write-ahead log of a connection that is open stays under the name of the
\* library, and is applied to the file that is there now: it can destroy it.
ConvertInstall ==
  /\ conv.phase = "moved"
  /\ conv' = [conv EXCEPT !.phase = "installed"]
  /\ at' = [at EXCEPT !["db"] = at[Copy], ![Copy] = 0]
  /\ \/ holder = 0 /\ UNCHANGED <<content, mishaps>>
     \/ /\ holder # 0
        /\ mishaps' = mishaps \cup {"held"}
        /\ content' \in {content, [content EXCEPT ![at[Copy]].rows = {}]}
  /\ UNCHANGED <<files, dbKey, holder, editor, written, stray>>

ConvertRollback ==
  /\ conv.phase = "moved"
  /\ conv' = Idle
  /\ at' = [at EXCEPT !["db"] = at[Backup], ![Backup] = 0]
  /\ UNCHANGED <<content, files, dbKey, holder, editor, written, stray, mishaps>>

\* The config as it was loaded at the beginning, with the new section.
ConvertSave ==
  /\ conv.phase = "installed"
  /\ conv' = Idle
  /\ dbKey' = conv.to
  /\ mishaps' = IF dbKey # conv.from THEN mishaps \cup {"overlap"} ELSE mishaps
  /\ UNCHANGED <<at, content, files, holder, editor, written, stray>>

ConvertDies ==
  /\ conv # Idle
  /\ conv' = Idle
  /\ mishaps' = CASE conv.phase = "moved" -> mishaps \cup {"halfway"}
                  [] conv.phase = "installed" -> mishaps \cup {"unsaved"}
                  [] OTHER -> mishaps
  /\ UNCHANGED <<at, content, files, dbKey, holder, editor, written, stray>>

\* The user follows the advice to delete the backup once the library opens.
DeleteBackup(n) ==
  /\ n \in {"plaintext", "encrypted"} /\ at[n] # 0 /\ conv = Idle
  /\ at["db"] # 0 /\ content[at["db"]].key = dbKey /\ "halfway" \notin mishaps
  /\ at' = [at EXCEPT ![n] = 0]
  /\ UNCHANGED <<content, files, dbKey, conv, holder, editor, written, stray, mishaps>>

\* Without the salt nothing is left to promise: a behaviour is not followed further.
Ruinous == {"overlap", "torn"}

FileNext ==
  /\ mishaps \cap Ruinous = {}
  /\ \/ \E r \in Record : Write(r) \/ HolderWrites(r)
     \/ HolderOpens \/ HolderCloses
     \/ EditorLoads \/ EditorSaves \/ EditorDies
     \/ ConvertBegin \/ ConvertCopy \/ ConvertRefused \/ ConvertBackup
     \/ ConvertInstall \/ ConvertRollback \/ ConvertSave \/ ConvertDies
     \/ \E n \in Name : DeleteBackup(n)

FileSpec == FileInit /\ [][FileNext]_fileVars

-----------------------------------------------------------------------------

FileTypeOK ==
  /\ at \in [Name -> 0 .. files]
  /\ content \in [File -> [rows : SUBSET written, key : Key]]
  /\ files \in Key /\ dbKey \in Key /\ holder \in 0 .. files /\ editor \subseteq Key
  /\ conv \in [phase : {"idle", "begun", "copied", "moved", "installed"}, from : Key, to : Key]
  /\ written \subseteq Record /\ stray \subseteq written
  /\ \A n, k \in Name : n # k /\ at[n] # 0 => at[n] # at[k]

\* A file that the passphrase and what the config keeps open.
Readable(n) == at[n] # 0 /\ content[at[n]].key \in {0, dbKey}

(***************************************************************************)
(* Wherever a conversion is interrupted, and whoever writes beside it,     *)
(* every row is in a file that can be opened, and between conversions the  *)
(* library opens.  Except: rows committed to the old file while its copy   *)
(* is in the making; after a conversion died between its two renames, only *)
(* until the next one replaces the backup by the empty library that was    *)
(* created meanwhile; a library that is open elsewhere when it is renamed; *)
(* and a config that was saved over or torn, which loses the salt.         *)
(***************************************************************************)
RowsSurvive ==
  mishaps \cap ({"again", "held"} \cup Ruinous) = {} =>
    /\ \A r \in written \ stray :
         \E n \in Name :
           /\ Readable(n) \/ (conv.phase = "installed" /\ n = "db")
           /\ r \in content[at[n]].rows
    /\ conv = Idle /\ at["db"] # 0 /\ mishaps \cap {"halfway", "unsaved"} = {} =>
         Readable("db") /\ content[at["db"]].key = dbKey

=============================================================================
