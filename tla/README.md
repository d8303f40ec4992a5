# A verification of Toku

Toku is a reading tracker: a SQLite library on each device, and an optional
zero-knowledge relay server through which the devices of one library exchange
operations. This directory models the parts of it that are hard to get right
and hard to test: the synchronisation first (how operations are stamped, travel
and are merged), then the server's handlers, the commands that lead a library
onto a server, backups and files, and what a device does alone. It holds TLA+
modules, TLC configurations and TLAPS proofs. Paths are relative to
the repository, those of sources to `src/crates`.

- [The system](#the-system)
- [Modules](#modules)
- [What each run shows](#what-each-run-shows)
- [What is proved](#what-is-proved)
- [Where the code and its documents differ](#where-the-code-and-its-documents-differ)
- [What is not modelled](#what-is-not-modelled)
- [Plan](#plan)

## The system

### Components

| Component | State it keeps | Operations | Model |
|---|---|---|---|
| Hybrid clock (`toku-core/src/sync.rs`) | last physical time, u16 counter; not stored | `now_at`, `update_at`, string order | `HLC`, `HlcLog` |
| Op log (`toku-db/src/sync_repo.rs`) | `sync_ops`, `sync_cursors`, `sync_conflicts`, device identity | `emit_local_op`, `insert_remote_op`, `get_unpushed_ops`, `mark_ops_pushed`, cursors, resolution of conflicts | `HlcLog`, `SyncRelay`, `BookMerge`, `DocumentMerge`, `Onboarding` |
| Library repository (`toku-db/src/repo.rs`) | every table of the library | every local write, with its op in one transaction | partly: `BookMerge`, `TagMerge`, `BookImport`, `Reading`, `Shelves`, `Catalogue`, `Statistics`, `Figures` |
| Merge engine (`toku-db/src/merge.rs`) | the same tables, `metadata_provenance`, `sync_entity_hlc`, conflicts | `apply_op` per entity type | partly: `BookMerge`, `TagMerge`, `DocumentMerge`, `SettingMerge`, `Reading` |
| Snapshots (`toku-db/src/snapshot.rs`) | none | `export_snapshot`, `apply_snapshot` | partly: `SyncRelay`, `BookMerge` |
| Backfill (`toku-db/src/backfill.rs`) | none | ops for a library older than its sync | `Onboarding` |
| Sync client (`toku-sync-client/src`) | config, tokens, keys | push, pull, bootstrap, init, signup, login, enroll, migrate | `SyncRelay`, `Onboarding`, `LibraryLogin`, `Migration` |
| Command line (`toku-cli/src/main.rs`) | config | sync compact, purge, rekey, disable; db encrypt and decrypt; files, backups, reading, shelves, catalogue | partly, in the modules of what it calls |
| Relay: ops and snapshots (`toku-sync/src/handlers.rs`) | ops, snapshots, cursors, quotas, the rekey lock | push, pull, snapshot, salt, rekey | `SyncRelay`, `OpDelivery`, `Rekey` |
| Relay: devices and administration (`toku-sync/src/handlers.rs`) | devices, sessions, approvals | enroll, approve, remove, disable a user, backup of a user | partly: `Devices`, `Accounts`, `Rekey` |
| Relay: accounts (`toku-sync/src/auth.rs`) | users, challenges, failure counters | signup, register, challenge, verify, lockout | partly: `Login`, `Accounts`, `LibraryLogin`, `Migration` |
| Database file (`toku-db/src/{database,crypt_migrate}.rs`) | the file, its key | open, create, encrypt and decrypt in place | `DatabaseFile` |
| Whole-library import and export (`toku-db/src/library_io.rs`) | none | `export_library`, `restore_library` | `LibraryRestore`, `Shelves` |
| File organizer (`toku-files`), exporters (`toku-export`) | ebook files, the `files` table | add, remove, organize, convert, backup of the binaries | partly: `FileShelf` |
| Importers (`toku-import`) | `import_books` | Goodreads, StoryGraph, Calibre, undo | partly: `BookImport`, `RowImport`, `Catalogue` |
| Core helpers (`toku-core`) | none | smart filters, statistics | partly: `SmartFilter`, `Statistics`, `Figures` |
| Web dashboard (`toku-web`) | import session, web user | import wizard, login | partly: `ImportWizard`, `WebLogin`, `Statistics`, `Figures` |
| Foreign function interface (`toku-ffi`) | none | marshalling over the repository | where it differs: `BookMerge`, `Reading`, `Shelves`, `Statistics`, `Figures` |
| Cryptography (`toku-core/src/crypto*`) | none; the bundle on the server, the key in the keyring | keys of an account, their rotation, sealing of ops and snapshots | partly: `KeyVault` |
| Terminal and account UI, desktop shell, Apple apps, metadata lookup, server process | | | not modelled, see [below](#what-is-not-modelled) |

### How they interact

A local write runs in `with_sync_txn`: the row, the provenance of the fields it
sets and the op commit together. The op is stamped by `next_local_hlc`, a fresh
hybrid clock seeded with `MAX(hlc)` of the log. `push` sends the unpushed ops in
chunks and marks them after the last answer; the server stores them with
`INSERT OR IGNORE`. `pull` asks for ops of other devices after a cursor, stages
each in `sync_ops`, hands it to the merge engine, and saves the cursor at the
end of the page. `compact` exports the library and uploads it as a snapshot; the
server deletes every op up to the snapshot's timestamp. `bootstrap` downloads
the snapshot, inserts the rows that are not there, and pulls. `rekey` and
`migrate` download every op, encrypt them anew and have the server replace them.
Each is a command a user runs: nothing runs in the background, and nothing but
SQLite keeps two of them on one device apart.

The server's handlers run on a thread pool over one SQLite database. Some are
one transaction, most are statements that commit one by one, so two requests
interleave between any two of them and the process may stop between any two.

On the device, the commands, the dashboard and the application work on one
database file, each reading in one statement and writing in another.

### What is hard

- *Ordering.* Ops are delivered in timestamp order per page but pushed late, so
  the server's order is not the order of arrival.
- *Two clocks for one thing.* The pull cursor is an op id that is turned into a
  timestamp; provenance compares timestamps as strings; a compaction cuts at a
  timestamp.
- *Crashes between statements.* Staging, applying and saving the cursor are
  separate; so are sending and marking, the two renames of a conversion of the
  database, the requests of an enrollment, the statements of a verify.
- *Concurrency.* Devices push, pull, rekey and compact at once; requests of the
  server overlap; so do processes on one device.
- *Forgetting.* Compaction, purge, `merge_books`, snapshots and the removal of a
  setting each forget something that a later op relies on.
- *Stale reads.* A count, a counter, a status or an id is read in one statement
  and acted on in another.

`PROJECT.json` lists each hazard at the line where it bites, with the properties
that would catch it. What makes each component correct:

- *clock and log*: a local write sorts after everything its author had seen;
- *push*: nothing is marked that was not stored; *pull*: nothing at or before
  the cursor is missing or unapplied; *both*: everything arrives in the end;
- *compaction, bootstrap, rekey, migration*: what was pruned can be had from the
  snapshot, what the server holds can be decrypted, what was acknowledged stays;
- *merge*: devices that merged the same ops agree, whatever the order and the
  replays; deletes are final; no text is lost without a trace;
- *accounts and devices*: one administrator, one session per challenge, an exact
  lockout, nobody gets in unapproved, nothing is left without an owner;
- *opt-in*: once a device is configured every row has its op;
- *keys*: the owner's credentials, and no others, open everything that was sealed
  for the account, and what is opened is taken for what it was sealed as;
- *files, backups, imports*: every row leads to its file, a restore keeps the
  newer of two edits, a row of an export becomes one book, and a second import of
  it changes nothing;
- *on the device*: progress belongs to its reading, a filter keeps its meaning,
  the ways to find a book agree, the figures add up.

## Modules

| Module | Models | Extends / instantiates |
|---|---|---|
| `HLC`, `HlcLog` | the clock as pure operators; the stamping of ops by several devices | |
| `OpDelivery` | abstract: what a relay of ops promises | |
| `SyncRelay` | push, pull, bootstrap, compact and their server handlers | refines `OpDelivery` |
| `BookMerge` | local writes, merge, purge, snapshots of one book | |
| `SyncEntity` | what the merge rules of the other entities share | |
| `TagMerge`, `DocumentMerge`, `SettingMerge` | tags, notes and reviews with conflicts, settings | `SyncEntity` |
| `LibraryRestore` | whole-library export and restore | |
| `DatabaseFile` | encryption of the database in place | |
| `FileShelf` | the ebook files and their rows | |
| `BookImport` | imports, their undo, merges of duplicates, on several devices | |
| `RowImport` | what becomes of each row of an export | |
| `Rekey` | change of passphrase beside pushes and compactions | |
| `Login`, `Accounts`, `Devices` | the handlers of accounts and devices | |
| `Onboarding`, `LibraryLogin`, `Migration` | the commands that lead a library onto a server | |
| `Reading`, `Shelves`, `Catalogue` | commands that read and then write | |
| `SmartFilter` | the filter language | |
| `Statistics`, `Figures` | the statistics: what is about days, what is about books | |
| `KeyVault` | the keys of an account and what is sealed with them | |
| `ImportWizard`, `WebLogin` | the dashboard | |
| `MCSyncRelay`, `MCBookMerge`, `MCBooks`, `MCDevice`, `MCServer`, `MCLocal` | what TLC runs: symmetry, and the composition of parts | the above |
| `HlcLogProofs`, `SyncRelayProofs`, `BookProofs`, `DeviceProofs`, `BookImportProofs`, `ServerProofs`, `LibraryProofs`, `LocalProofs` | theorems | the above, `TLAPS` |

`MCBooks`, `MCDevice`, `MCServer` and `MCLocal` compose modules that share no
state: a variable `part` is chosen at the start and a behaviour is about that
part alone. Nothing is lost by it, because a step of one part neither reads nor
writes another, and the state spaces add instead of multiplying. The
configurations give the actors of all the parts the same names, so that one
permutation is a symmetry of every part. Components that do interact (push and
pull with the server, rekey with pushes and compactions, the conversion of the
file with its readers) are one module.

Faulty variants of a definition (`PushMarkAll`, `MergeCreateOverTombstone`, ...)
stand before it. No specification uses them: each is a plausible mistake that
makes one property fail, and shows that the property says something.

Variables that a comment calls *history* are read by no guard: they record what
a property needs to name, most often the cases in which the code does not
deliver and which the property therefore excepts.

### HLC and HlcLog

A timestamp is `[phys, ctr, dev]`: milliseconds, the counter, the device prefix.
`NowAt` and `UpdateAt` are `now_at` and `update_at` branch by branch, with the
u16 arithmetic of a release build. `CanonLess` is the order the code uses, that
of the printed strings: the counter is padded to four digits and has up to
five, so comparing it is not comparing numbers. `Base`, `Pad` and `CounterMax`
are 10, 10000 and 65535 in the code and 3, 3 and 4 in the runs: one more digit
in both cases.

In `HlcLog`, `EmitLocal` is `emit_local_op`, `EmitResolution` the op of
`apply_resolution`, `Receive` is `insert_remote_op`. The wall clock of each
call is arbitrary. `seen` and `via` are history: what the author's log held, and
which path stamped the op.

### SyncRelay

| Variable | In the code |
|---|---|
| `log[d]`, `unpushed[d]` | `sync_ops`, its rows with `pushed_at IS NULL` |
| `effects[d]` | what `apply_op` and `apply_snapshot` have brought into the library |
| `cursor[d]` | the timestamp of the op in `sync_cursors.pull_cursor` |
| `batch[d]`, `left[d]` | `unpushed` and the chunks not yet sent, in `push` |
| `page[d]`, `goal[d]`, `staged[d]` | `result.ops`, `result.cursor` and the position in the loop of `pull` |
| `restore[d]`, `export[d]` | the snapshot in the hands of `bootstrap`, of `compact` |
| `server`, `snapshot` | tables `ops` and `snapshots` |
| `late`, `pruned` | history: ops that arrived behind a cursor, ops compacted away |

`PushBegin`, `PushChunk`, `PushMark` and `PushFails` are `push` with the handler
`push_ops`; a lost answer is a `PushChunk` followed by `PushFails`.
`PullRequest` is the handler `pull_ops`; `PullStage`, `PullApply` and
`PullSaveCursor` are one iteration of the loops of `pull`, with a crash
(`PullFails`) possible between any two. `BootstrapReset`, `BootstrapDownload`
and `BootstrapApply` are `bootstrap` up to its `pull`; `CompactExport` and
`CompactUpload` are `toku sync compact` and `upload_snapshot`. The data of an op
is abstracted to its book and to whether it creates the book, updates it, or
inserts a row that references it: these three fail differently when the book is
not there.

A device runs at most one push and at most one of pull and bootstrap at a time
here, but all of them next to local writes and a compact. Timestamps are numbers
without collisions: what the real ones guarantee is the subject of `HlcLog`.
Two uploads within a second may keep either snapshot, because `created_at` has
no finer resolution.

### BookMerge

`book[d]` is the row, `provenance[d]` the `sync_hlc` of two of its fields,
`progress[d]` its progress entries, `snapshot` the row and entries of the last
compaction. `rating` stands for every field under plain last-write-wins;
`status` is the field that must also be a legal transition. Both an update op
and a create of a known book go through `MergeUpdate`; the fields are visited in
the alphabetical order of the JSON map, so a refused status keeps the rating.
`Merge` applies any op of the log, any number of times and in any order: that is
what late pushes, crashes and `--reset-cursor` can make of the relay's order.
`merged` and `gone` are history: the ops d has written or merged into a row,
and whether it has ever removed the row itself (`purge_tombstones`, or
`merge_books` with the book on the removed side).

### TagMerge, DocumentMerge and SettingMerge

The ops of an entity may reach a device in any order and any number of times:
what `SyncRelay` shows of the relay. `SyncEntity` holds what they share, the
bounded timestamps.

- **TagMerge.** `onBook[d]` are the rows of `book_tags`, `tagLog[d]` the ops in
  `sync_ops`. `AddTag` and `RemoveTag` are the local writes, `SetPace` is
  `set_book_pace` with the removal of every other pace in one transaction;
  `StageTagOp` and `MergeTag` are `insert_remote_op` and `merge_tag`, which
  compares no timestamp. `disordered[d]` (history) are the tags of which d merged
  an older op after a newer one: for all others the book has what the newest op
  says.
- **DocumentMerge.** `doc[d]` is the row of one note with its row of
  `sync_entity_hlc`, `conflicts[d]` the rows of `sync_conflicts`, at most one for
  each remote timestamp (`V13`: `UNIQUE (entity_type, entity_id, field_name,
  remote_hlc)`). `MergeNew`, `MergeNewer`, `MergeOlder` and `MergeGone` are the
  branches of `merge_note`; the writes of text, timestamp and conflict commit one
  by one and `MergeDies` stops between them. `Resolve` is `resolve_conflict`;
  `SweepBegin`, `SweepApply`, `SweepMark` are `resolve_all_conflicts`, which
  reads the open conflicts, applies them one by one, and marks every open row at
  the end; `SweepDies` stops it anywhere. The edits come from clients outside of
  the repository (`Editor`).
- **SettingMerge.** `setting[d]` is the row of one key with its timestamp.
  `MergeUpsert` compares it, `MergeRemove` deletes the row with it, so a replayed
  older write returns; `shuffled` (history) records who merged out of order.

### LibraryRestore

`library[m]` holds one row for each rule by which a table is restored: a field
under its provenance, a note under its clock and tombstone, a setting under the
clock of its row, and facts, inserted if absent. A value is named by the time of
the edit that wrote it. `Export` is `export_library`; `RestoreMerge` applies
`MergeField`, `MergeNoteRow`, `MergeSettingRow` and `MergeFacts` in the order of
`restore_library`, whose clocks are written first; `RestoreReplace` replaces.
`EditField`, `MergeNote`, `MergeNoteDelete` and `MergeRemoteSetting` are what
happens between a backup and its restore.

### DatabaseFile

`at[n]` is the file under a name (the database, the copy, the two kinds of
backup), `content[f]` its rows and key, `dbKey` the salt in `config.toml`,
`conv` the running conversion. `ConvertBegin`, `ConvertCopy`, `ConvertBackup`,
`ConvertInstall` and `ConvertSave` are the steps of `toku db encrypt` and
`decrypt`, `ConvertRollback` and `ConvertDies` what happens when one fails or the
process does. Beside them any program creates and writes the file
(`Write`, `Create`), another process holds it open across a rename
(`HolderOpens`, `HolderWrites`, `HolderCloses`: the write-ahead log is modelled
only by the fact that an open connection writes to the file it opened), and
another command loads and saves the config (`EditorLoads`, `EditorSaves`).

### FileShelf, BookImport and RowImport

- **FileShelf.** `disk[p]` is the digest of the file at a path, `links` the rows
  of `files`. A `toku file organize` goes from book to book (`PlanBegin`,
  `PlanBook`), from row to row (`PlanFile`: `rows[o]` is what `list_files` gave it,
  `claimed[o]` the targets taken so far) and then through its `plan[o]`
  (`ApplyMove`, where `at[o]` are done) to the transaction (`CommitPaths`). A
  failure (`ApplyFails`) leads to the undo in reverse order (`UndoMove`,
  `UndoEnds`); `OrganizeStops` is a dry run or a kill. Beside it are `AddFile`,
  `RemoveFile`, `Convert`, what the user puts on the disk (`Download`), and
  `MoveToNewMachine`: `write_backup` followed by `extract_binaries`.
- **BookImport.** `book[d]` are the rows, `ids[d]` the source ids they carry,
  `logged[d]` the rows of `import_books`, `walk[d]` the Calibre import that runs.
  `ImportGoodreads` and `ImportStoryGraph` are one transaction, `CalibreBegin`,
  `CalibreBook`, `CalibreEnds` one per book; `UndoImport`, `MergeBooks` and
  `DeleteBook` are what a user does about the result; `PullBook` merges the log
  of another machine in its order, and an op after those that its machine had
  merged when it sent it. That order is the code's: a page is sorted by
  timestamp, and a timestamp is past all that its device has seen. With two
  machines it comes by itself, so the run cannot tell; the proof attempt found
  that a third one loses a book without it (it is told of the delete of a
  duplicate before it is told of the book that was kept), and with a third
  `Machine` TLC finds that too.
- **RowImport.** One device, and what its imports make of the rows. `ExportGrows`
  adds a row to the `export`, `ImportRows` imports it as it is, and the user adds
  and deletes books and sets a pace in between. `Ran` folds `GoodreadsInto`,
  `StoryInto` or `CalibreInto` over the rows, with the library, the names it
  knows (`KnownNames`), the report and whether it has failed; `dry` is
  `--dry-run`. A row has its id, title, author and ISBN, and says one thing
  besides. A capital of a title is ASCII or not, which is what the two ways of
  lowering it tell apart.

### Rekey

`server` is the ops table with the key of each op, `salt` and `lock` the columns
of `libraries`, `client[c]` a running `toku sync rekey`, `handler[n]` the server's
handler of the n-th request, `push[c]` a running push. `RekeySalt`, `RekeyFetch`,
`RekeyLock`, `RekeyReplace`, `RekeyUnlock`, `RekeyDownload`, `RekeyUpload` and
`RekeyStoreKey` are the steps in their order, `RekeyFails` and `HandlerDies` end
them anywhere, so a lock may stay. `PushCheck` reads the lock and the quota
before `PushStore` stores. `Compact`, `Backup` and `Restore` are
`upload_snapshot` and the administrator's bundle.

### Login, Accounts and Devices

Each handler is the sequence of statements it commits; a handler that is one
transaction is a read and a commit, and the commit fails if another writer has
committed since (SQLite's snapshot rule, `Outdated`, `OutdatedCalls`).

- **Login.** `VerifyLoad`, `VerifyConsume`, `VerifyWrong` or `VerifyRight`,
  `VerifyIssue` are `account_verify`; `ServerStops` ends a request between two of
  them. The handler drops the errors of its DELETE and of its two UPDATEs of the
  count: in `VerifyConsumeFails`, `VerifyWrongFails` and `VerifyRightFails` the
  statement fails and the request goes on. The proof's correctness is a Boolean.
  History: `crossed` (a count was written over one it had not seen, or not
  written), `served` (how many failures a lock served for), `twice` (the
  challenges read twice) and `undeleted` (those that a failed DELETE has left).
- **Accounts.** `SignupRead`, `SignupCommit`, `SignupFails` are `account_signup`;
  `RegisterCheck`, `SrpEnrollCheck`, `MakeLibrary`, `MakeVerifier`, `MakeDevice`,
  `StampLibrary`, `StampDevice` the older ways; `SetUserStatus`, `SetRegistration`
  the administrator's. `loose` is history: requests that nothing bound to a user.
- **Devices.** `EnrollRead`, `EnrollCommit`; `DecideRead`, `DecideWrite`,
  `DecideRevoke` (approve and reject); `SessionRead`, `SessionWrite`; `RemoveRead`,
  `RemoveSessions`, `RemoveDevice`. A call is authorised when it arrives and runs
  on afterwards. `DisableUser` and `DisableSessions` are the first and the last
  commit of `set_user_status`; `DisableFails` is a stop or a failing DELETE in
  between, after which the user is disabled, another disabling does nothing, and
  the sessions there were (`held`) last until they expire or `EnableUser` undoes
  the whole. `slipped` are the sessions given by calls authorised before.

### Onboarding, LibraryLogin and Migration

Sequences of requests and local writes that may be cut off between any two.

- **Onboarding.** `phase` is the next step of the running command. Signup:
  `SignupAccount`, `JoinFresh`, `KeepToken`, `KeepIdentity`, `KeepConfig`,
  `Backfill`, `BackfillPush`, `Mark`; login and enroll branch off; `Recover` is
  the bootstrap of a joining device, `Disable` `toku sync disable`. A row stands
  for the create op it should have.
- **LibraryLogin.** `InitEnrolls` on the first machine, `InitChallenges`,
  `InitVerifies`, `InitRegisters` on the others, then `InitNames` and
  `InitConfigures`. `bound[t]` is the device in whose name the session t is:
  `srp_verify` takes the newest one, `register` binds it anew.
- **Migration.** `MigrateSignup`, `MigrateSession`, `MigrateFetch`,
  `MigrateReplace`, `MigrateSnapshot`, `MigrateStoreKey`, `MigrateConfig`, beside
  `MachineWrites`, `PushSealed`, `CompactSealed` of machines that still have the
  old key. A rekey with no op is refused, and the command ends there. `keeper`, `opstore` and `blob` say which key the account's bundle
  holds and under which key each op and the snapshot are.

### Reading, Shelves, Catalogue, SmartFilter, Statistics, Figures

- **Reading.** A command reads the status, then writes rating, status and session
  in transactions of their own (`job[s]` is what it has still to do).
  `Active` is `get_active_session`: the unfinished session that began last. No
  session is ever finished by a command. `unclear` is history.
- **Shelves.** Adding a book to a shelf is `AddFinds`, `AddCreates`, `AddPlaces`;
  `RestoreMerge` and `RestoreReplace` find shelves by name. `Listed`, `Searched`,
  `Tagged` and `Filtered` are the four ways to look at one.
- **Catalogue.** `toku add` is `AddBegins`, `AddWritesRow`, `AddWritesNumber`,
  `AddWritesAuthor`; `LinkFinds`, `LinkMakesWork`, `LinkWrites` are `toku work
  link`. `isbns` has the first book that had the ISBN, `text` is `search_text`.
- **SmartFilter.** The user types one token after the other; `Parse` is the
  recursive descent of `filter.rs`, `Shown` its `Display`, `Where` the condition
  built from the tree. Checked against `Grammatical` and `Picked`, which define
  what a filter means without a parser.
- **Statistics.** `Streaks`, `MonthlyFinished` and the totals of `stats.rs` over
  facts logged by commands, peers and imports; checked against runs of days and
  sums over sets, for all years and for each. `ActivityDates` is the activity in
  a report about everything, of a year or of all; `ActivityOf` that in a report
  about an author, which is of all years whatever the report is. A year has two
  months of two days.
- **Figures.** What a report counts by status, format, rating, tag and author,
  its averages, moods and pages. `StatsInput` is the input of a report, about
  everything (`OfAll`) or about an author's books (`OfAuthor`), `Stats` is
  `compute_stats`, `Gathered` the report of the application. `MergeTomes` is what
  `merge_books` does to what is counted, with `Taken` for the rows it moves.
  Books on hold are in the total and under no status; a report about everything
  counts the tags, authors and sessions of deleted books too, one about an author
  does not: the property names both (`OfBuried`).

### KeyVault

`bundles[a]` are the `AccountKeys` of an account on the server, `kit[a]` the
password and the Secret Key that its owner has, `fetched[m]` the bundle that a
login on the machine m has in hand, `keyring[m]` the data key it has stored,
`envelopes` what the server holds sealed. `SignUp` is `AccountKeys::create`,
`FetchBundle` and `Unlock` the two halves of a login (another machine may change
the bundle between them), `Rotate` is `rotate_unlock_credentials`; `EncryptOp`,
`EncryptSnapshot`, `DecryptOp` and `DecryptSnapshot` are the sealing of fields and
snapshots with the associated data of each. Ciphers are symbolic: what was sealed
under a key opens under that key with the same associated data, and not
otherwise; every random draw is a number of its own. No command calls the
rotation yet. `sealings` and `readings` are history.

### ImportWizard and WebLogin

- **ImportWizard.** One session under a mutex, a thread per started import and a
  broadcast channel that drops the oldest events of a receiver that is behind
  (`Kept`). `StoreRow` and `SendRow` are the two halves of the progress callback;
  `Subscribe` is the stream's first answer, `Show` what the page does.
- **WebLogin.** `LoginReads` reads the counter, `RecordFailure` writes the one it
  read plus one, `LoginResets` clears it, `LoginOpensSession` ends the request.

## What each run shows

Each run finishes with `tlc -workers 2` in less than a minute. Where a cfg
says `CHECK_DEADLOCK FALSE`, the bounds end every behaviour, and the program
itself stops when its users stop.

| Run | Distinct states | Shows |
|---|---|---|
| `relay_safety` | 0.8 million | the cursor passes nothing undelivered or unapplied |
| `relay_recovery` | 0.7 million | refinement of `OpDelivery`, with crashes, resets and compactions; among it that what is marked was stored |
| `relay_liveness` | 0.2 million | every op arrives, libraries converge |
| `book_rows_and_files` | 0.8 million | last-write-wins, final deletes, monotonic progress, harmless replay; every row of a file leads to it |
| `device_parts` | 0.5 million | tags, notes, settings merged in every order with merges that die; restores into libraries that moved on; the database encrypted with crashes at every step; imports, undone and merged; exports that grow and are imported again |
| `server_parts` | 1.2 million | rekey, login, accounts, devices, opt-in, init, migration, statement by statement |
| `local_parts` | 1.0 million | the stamping of ops, reading, shelves, catalogue, filters, statistics, import wizard, login of the dashboard, keys and envelopes |
| `hlc_width`, `cursor_skew`, `refused_cursor`, `compact_loss`, `status_lww` | violation | see [below](#where-the-code-and-its-documents-differ) |

The bounds, and why they are enough to be interesting:

- **relay_safety**: 3 devices (2 write), 1 book, 3 ops, chunk 2, page 2, 1
  crash. Three ops in chunks and pages of two give a second chunk and a second
  page; two writers and a follower are what a late push needs.
  **relay_recovery**: 2 devices, 1 book, 2 ops, chunk and page 1, 1 crash, 1
  reset, 2 compactions, 3 of them in a behaviour (`FewTroubles`): what a
  re-pushed, pruned op and a stale snapshot need. **relay_liveness**: as
  `relay_safety` without a crash. `PageSize` and `ChunkSize` are 1000 in the
  code.
- **book_rows_and_files**: 2 devices, 3 ops, 2 ratings, 1 status (two are what
  `status_lww` is about), 2 progress values: a create, a concurrent change and a
  delete, in any order and with replays. Files: 2 books, 2 rows, 2 formats, 2
  digests, 1 loose spot and 2 suffixes (so that every organization collides), 1
  organizer, and behaviours that go on after 1 kind of mishap, with no further
  row (`NoMoreLinks`).
- **device_parts**: 4 timestamps, 2 devices that edit and 1 that merges, 3 edits
  and, for a note, a resolution or 1 merge that dies (`OneTrouble`); 3 tags, 2
  of them paces; 1 id and 2 values of a setting. Backups: 2 homes, one enrolled,
  times to 2, 2 archives. Database: 4 files (original, copy and two created by
  others), 2 rows. Imports: 2 machines, one row of each source, 3 books, 2
  imports, 1 change by the user. Rows: exports of 2 rows with 1 title in three
  spellings, 1 author, 1 ISBN, 1 id, 1 tag and 2 paces, 2 books, 1 thing that
  the user does.
- **server_parts**: rekey with 2 clients, 2 ops, a quota of 1, 1 rekey and 2
  troubles (a rekey that dies, a client that meets its lock); login with 2
  challenges, 2 requests at once, a limit of 2, and 2 requests that stop or
  statements that fail (with one failure a challenge can be used twice, with two
  also a count missed and a reset lost); 2 users, 2 signups and 2
  registrations at once on 1 library; 2 devices and 2 calls at once; 2 rows, 2
  libraries, 3 enrollments and 1 cut of an opt-in; 2 machines, 2 devices, 2
  sessions, 2 ops and 1 slip of an init; 2 machines that migrate, 3 ops, 2 fresh
  keys, 2 kills.
- **local_parts**: the log with 2 devices, 4 ops, walls 1..2, counters 0..4,
  which reach both the wide counter and saturation; reading with 2 shells, 2
  readings, 2 sessions, 1 entry, times to 3, 1 event from outside; filters of 7
  tokens, 4 if one is odd; shelves with 2 books, 2 names that differ in case, 2
  shelves, 2 upkeeps; statistics with 2 books, 3 facts, 4 days; figures with 2
  books, 3 changes, 2 sessions, 2 names that differ in case, 2 days, each a
  year; catalogue with 2 books, 2 works, 1 ISBN, 1 event; wizard with 2 pages, 2
  runs, 2 rows, a channel of 2; login with 2 visitors and a limit of 3; keys
  with 2 accounts, 2 machines, 1 password and the empty one, 4 random draws (a
  signup and two rotations, or two signups) and 2 envelopes.

Symmetry is used where values are interchangeable and only invariants, action
properties (`ReplayIsHarmless`, `ReplayKeepsText`) and `ImplementsDelivery` are
checked: `OpDelivery` has no fairness, and treats all devices alike. The liveness
properties are checked without it.

**Liveness and fairness.** Nothing schedules sync: a user runs push and pull.
`Fairness` of `SyncRelay` says that a running command takes its next step in the
end, and is run again while there is something to do. It is weak fairness per
device and step; nothing is assumed of local writes, failures, resets or
compactions. The liveness properties exclude what the code really cannot
deliver: ops behind a device's cursor, and a device that misses the creation of
a book (a child of that book then fails every pull). No other module states
fairness: what the other commands do is started by a user, once.

## What is proved

The proof modules are checked by TLAPS for every value of the constants under
the modules' named assumptions, which say what the constants are: naturals,
positive sizes, subsets, and that two kinds of names do not overlap
(`SyncEntity` bounds and the like are any natural; `DocumentMerge` assumes that
the programs of the repository are no editors). TLC evaluates each of them on
the runs.

| Theorem | Property | Statement |
|---|---|---|
| `HlcLogProofs!CausalOrdering` |  | Away from the two limiting counters a local write sorts after every op its author had seen: the seed is MAX(hlc) and the string order is transitive across widths. |
| `HlcLogProofs!UpdateDominance` |  | update_at of any two reached timestamps is later than both, unless the remote counter is saturated. |
| `HlcLogProofs!ClockOrder` | `ClocksKeepOrder` | Both: an op sorts after everything its author had seen, except at the two limits, and update_at never goes back. |
| `SyncRelayProofs!Invariant` |  | The inductive invariant of the relay: where a page, a staged op, a cursor and an unpushed op stand relative to the server and to the log. |
| `SyncRelayProofs!DeliveryUpToCursor` | `DeliveredUpToCursor` | Every op of another device that the server holds at or before the pull cursor has reached the log, or arrived behind the cursor. |
| `SyncRelayProofs!AcknowledgedIsStored` |  | An op marked as pushed was stored by the server. |
| `SyncRelayProofs!Refinement` | `ImplementsDelivery` | The relay implements OpDelivery: every step of every command is a step of the abstract delivery or a stutter. |
| `BookProofs!Invariant` |  | The inductive invariant of BookMerge: the provenance of the rating is the newest merged op that set it, and the row agrees with it. |
| `BookProofs!LastWriteWins` | `RatingIsNewest` | Whatever the order, the replays and the snapshots, the rating of a live book is that of the newest merged op that set it. |
| `BookProofs!DeleteIsFinal` | `DeletedStaysDeleted` | No op and no snapshot brings back a book whose delete a device has merged, while it keeps the tombstone. |
| `BookProofs!ProgressIsMonotonic` | `HighestProgressKept` | Some kept progress entry is at least as high as every merged one. |
| `BookProofs!ReplayChangesNothing` | `ReplayIsHarmless` | Merging an op a second time, with any ops in between, leaves rating, deletion and progress as they are. |
| `BookProofs!FilesAreKeptHolds` | `FilesAreKept` | For any paths, files, rows and plans: each row leads to its file, or to an organization that has it at its target, through failures that are undone; and whatever is killed or stranded no file is lost before the user discards one. |
| `SyncRelayProofs!EffectInvariant` |  | The inductive invariant of what the ops in the log have done to the library: which effects are there, and why one may be missing. |
| `SyncRelayProofs!EffectsUpToCursor` | `EffectiveUpToCursor` | Every op at or before the pull cursor has had its effect on the library, but for the cases that the property names. |
| `ServerProofs!LoginInvariant` |  | The inductive invariant of the login: challenges, stops and failure counts of the running requests, for every set of challenges and requests and every limit. |
| `ServerProofs!ChallengeIsSingleUse` | `OneSessionPerChallenge` | However many verify requests race, fail and stop, a challenge yields one session at most, but for one that two requests read before it was deleted and one whose DELETE failed. |
| `ServerProofs!LockoutHolds` | `LockoutIsExact` | failed_attempts is the number of consecutive failures, and at the limit the account is locked, unless since the last written success failures crossed or one was not written, or a lock has run out. |
| `DeviceProofs!TagInvariant` |  | The inductive invariant of TagMerge, for every set of devices, tags and paces. |
| `DeviceProofs!OrderKeepsTags` | `TagsKeepOrder` | Both of these: what merging in order is worth. |
| `DeviceProofs!SettingInvariant` |  | The inductive invariant of SettingMerge, for every set of replicas, writers, settings and options. |
| `DeviceProofs!SettingsConverge` | `SettingIsNewest` | A setting has the value of the newest merged op, unless a delete lost its tombstone. |
| `DeviceProofs!DocumentInvariant` |  | The inductive invariant of DocumentMerge: what the row's timestamp and text stand for, and what trace every overwritten text has left. |
| `DeviceProofs!DocumentFollowsNewest` | `DocumentIsNewest` | A note whose merges are complete has the text of the newest op merged, whatever the order, the repetitions and the merges that died. |
| `DeviceProofs!ConflictsStay` | `ConflictsAreKept` | No text of another device is lost without a trace, and no conflict is closed that nobody decided, but for one stored during a resolve_all. |
| `DeviceProofs!ReplayIsQuiet` | `ReplayKeepsText` | Merging a merged op again changes no text. |
| `DeviceProofs!FileInvariant` |  | The inductive invariant of DatabaseFile: where the rows are at each statement of a conversion or a recovery. |
| `DeviceProofs!RowsAlwaysSurvive` | `RowsSurvive` | Wherever a conversion of the database is interrupted, every row is in a file that can be opened, and between conversions the library opens, but for the cases that the property names. |
| `DeviceProofs!RestoreInvariant` |  | The inductive invariant of LibraryRestore, in the library and in every archive: what is shown is the newest edit that reached it, and the clock of a row is that of what it shows. |
| `DeviceProofs!RestoreFaithful` | `RestoreIsFaithful` | For any number of libraries, edits, archives and restores, a restore puts nothing older over something newer, brings every fact, and has nothing left to do after once. |
| `BookImportProofs!ImportInvariant` |  | The inductive invariant of BookImport, for every set of devices, finite set of rows and bound: whoever knows a cut of the logs that is closed under what its ops came after has a live book for every row of them. |
| `BookImportProofs!ImportStaysConsistent` | `ImportIsConsistent` | However imports, undos, merges of duplicates and pulls interleave on any number of devices, a row of an export is one book: none is lost and none is there twice, but for the cases that the property names. |
| `ServerProofs!AccountsInvariant` |  | The inductive invariant of the accounts: what every signup has read, what every request has left behind, for every set of users, signups and requests. |
| `ServerProofs!AccountsStaySound` | `AccountsAreSound` | However signups and registrations overlap there is one administrator, which no step disables, and what has no owner belongs to a request that is still running or was never bound to a user. |
| `ServerProofs!DevicesInvariant` |  | The inductive invariant of the devices of a library, for every set of devices and concurrent calls. |
| `ServerProofs!OneGetsInUnapproved` | `OneUnapproved` | While approvals are required one device at most becomes active that nobody approved, however enrollments overlap. |
| `ServerProofs!DecisionsAreSingle` | `DecidedOnce` | A device is approved or rejected once, and a rejected one has no session, unless two decisions overlapped. |
| `ServerProofs!DisablingSignsOut` | `DisabledIsSignedOut` | At every moment the device sessions of a disabled user are those that a call in flight issued and, until the last commit of set_user_status, which it may never reach, those that were there. |
| `LibraryProofs!OnboardingInvariant` |  | The inductive invariant of Onboarding: what is marked as given up to the op log is stored, op by op. |
| `LibraryProofs!OptInCompletes` | `OptInIsComplete` | However often the backfill of a library dies and is repeated, once a device is configured every row has its op, and what is marked as pushed the relay has. |
| `LibraryProofs!RekeyInvariant` |  | The inductive invariant of Rekey, for every set of clients, re-keyers and compactors and every quota. |
| `LibraryProofs!LibraryStaysWhole` | `LibraryIsWhole` | Whatever re-keys, compactions and pushes overlap or die, what the relay has can be read with the present key and covers what was pruned. |
| `LibraryProofs!PushesAreHonoured` | `PushIsHonoured` | A push that was answered is kept through a re-key, and no push exceeds the quota. |
| `LibraryProofs!MigrationInvariant` |  | The inductive invariant of Migration: which keys the headers and the wrapped copies are under at each statement. |
| `LibraryProofs!KeysAreHeld` | `NoKeyIsLost` | However often migrations are cut off and repeated, what the server holds can be decrypted by someone, and once the ops are replaced by the account itself, but for the cases that the property names. |
| `LibraryProofs!LibraryLoginInvariant` |  | The inductive invariant of LibraryLogin: whose session, device and cursor a machine has. |
| `LibraryProofs!NothingStaysHidden` | `NothingIsHidden` | Every op that the cursor of a machine has passed is its own or was pulled, unless it was left with a session in another's name. |
| `LocalProofs!WebLoginInvariant` |  | The inductive invariant of the dashboard's login, for every set of visitors and every limit. |
| `LocalProofs!ReadingInvariant` |  | The inductive invariant of Reading: the reading of the book has a session dated after all others or will have one, unless it is unclear. |
| `LocalProofs!ProgressFindsItsReading` | `ProgressJoinsItsReading` | For any number of shells, readings and sessions, progress refers to the session of the reading it was logged for, unless that reading is unclear. |
| `LocalProofs!WebLockoutHolds` | `WebLockoutIsExact` | The counter of the dashboard is the number of failures in a row, and at the limit the login is locked, unless requests crossed. |
| `LocalProofs!ShelvesInvariant` |  | The inductive invariant of Shelves, in the library and in its archive: one shelf of a name, rows that refer to books and shelves, and on a regular shelf the books that are wanted there. |
| `LocalProofs!EveryWayAgrees` | `ShelvesAgree` | For any number of books, names, shelves, additions at a time and backups, the ways to look at a shelf agree with what was put there. |
| `LocalProofs!CatalogueInvariant` |  | The inductive invariant of Catalogue: what a command has still to write has its row, an ISBN is free while it is added, and a title has one work. |
| `LocalProofs!BooksAreFound` | `CatalogueFinds` | However many commands add, merge, delete and link at the same time, an ISBN leads to its book, and the search to the words that it has. |
| `LocalProofs!WizardInvariant` |  | The inductive invariant of ImportWizard: the channel of a browser holds what its run has sent and nobody read, in order, and what ends it is sent last. |
| `LocalProofs!EveryPageIsTold` | `NobodyWaitsInVain` | For any number of browsers, rows and runs, a browser that follows an import never waits for an event that nobody will send. |
| `LocalProofs!KeyVaultInvariant` |  | The inductive invariant of KeyVault: which key each bundle, login and machine holds, and that no draw repeats. |
| `LocalProofs!KeysAlwaysOpen` | `KeysOpenTheLibrary` | For any accounts, machines, passwords and rotations, the owner's present credentials and no others open the bundle, and what they open is the key of every machine that is logged in and of everything sealed. |
| `LocalProofs!EnvelopesAreBound` | `OpenedAsSealed` | For any accounts, machines and envelopes, in whichever row they come, what a machine opens is what was sealed for its account, as that op or as a snapshot. |

An invariant that a run checks says what a user cares about, and is seldom
inductive: it speaks of the result and not of the request that is half way. Each
proof therefore states the strengthening as named conjuncts, and TLC has checked
the conjunction on the bounds of the run (with smaller ones where it was too
large) before it was proved.

**HlcLog.** `CausalOrderBelowLimits` is inductive together with the type
invariant. The work is in two lemmas: the string order is transitive even
across widths (`CanonLessTransitive`), and `update_at` yields a timestamp past
its seed in the string order unless the counter is at a limit
(`SeededIsLarger`). With the seed the maximum of the log, transitivity carries
the order to the whole log.

**SyncRelay.** `DeliveredUpToCursor` says nothing of a page that is being
applied. `IInv` adds `PageCoversGap` (up to the end of the page everything is in
the log, late, or still in the page), `StagedIsLogged`, `UniqueHlc` and
`StoredIsEmitted`; for acknowledgement `UploadedIsStored` (what a push has sent of
its batch is stored) and `PageIsStored`. `Refinement` maps `LocalWrite` to
`Emit`, `PushChunk` to `Store`, `PushMark` to `Acknowledge`, `PullStage` to
`Deliver`, the others to stutters; `CompactUpload` is a stutter because pruned
ops stay stored. `EffectInv` is about what the ops have done to the library:
`ShownUpToCursor` is the property's heart, `GapIsShown` says the same of a page
that is being applied, `EffectsHaveReasons` that an effect without its op came
with a snapshot, `CreationIsFirst` and `UploadedInOrder` that a book's create
has the smallest timestamp of its ops and is on the relay before them, which is
what makes an update find its book, and `NothingToRestore` and `ShownInv` carry
both over a bootstrap.

**BookMerge.** `RatingIsNewest` speaks of the row only. `RowInv` ties it to the
provenance: that of the rating is at least the timestamp of every merged op that
set it and, unless it is none, equals that of one whose value the row shows
(`RatingProvenance`); a device that has merged anything has a row unless it
removed it (`MergedHasRow`); a live row has seen no delete (`NoDeleteIn`); some
progress entry is as high as every merged one (`HighestKept`). Replay then
changes nothing because the comparison with the provenance is strict.

**FileShelf.** `FilesAreKept` speaks of the rows and the disk; what an
organization will still do is in its plan. `PlanOK` says that a plan leads each
file to a target of its own, which it has claimed and which is nobody's source;
`DiskOK` what the disk has for the moves that are done, and that the targets of
the others are free; `RowsOK` that the rows have paths of their own, that plans
are about rows that are there, and that a row's file is at its path or at the
target of a move that is done. Unless two commands overlapped one process
organizes (`Alone`), so that the undo finds what its moves have left. That no
file is lost (`NothingLost`) is a part of its own, because it survives the kills
after which `RowsOK` does not hold. That a backup gives each row its file rests on
a least element: of the rows with one digest and format one is the first.

**DeviceProofs.** `TagInv`: an op is in a log before it is merged (`Contained`),
a device's own timestamps go up (`OwnTimestamps`), and a tag is on the book
exactly if the newest merged op says so or the device is `disordered` for it
(`BookFollowsOps`, with `AdditionsClear` for the paces). `SettingInv` is the same
for one key. `DocInv`: what is merged was emitted, in an order (`OpsAreEmitted`,
`OpsAreOrdered`), every row and every conflict comes from ops (`NotesAreCreated`,
`RowsHaveOps`), a sweep has what was open when it began (`SweepCovers`), what is
resolved was decided (`ResolvedWasDecided`), and `RowFollowsOps` in three parts:
the row's timestamp is that of the newest op merged (`StampIsNewest`), its text is
one known for it (`TextIsKnown`), and every text that was overwritten is in a
conflict or named by a merge that died (`TextsAreTraced`). `FileInv` says where
the rows are at each step of a conversion: the file to be replaced is in place
until its backup (`InPlace`), then on its way under another name (`OnTheWay`), and
what a kill leaves behind has all rows under a key that the config still has or
never lost (`LeftBehind`, `KnowsTheKey`); `NoneGetsFar` excludes a conversion that
found no file. `RestoreInv` says of a library and of every archive that each of
their rows shows the newest edit known for it and has its clock (`LibrariesHold`,
`ArchivesHold`), that a note without a clock is still what its create wrote
(`HoldsNote`, which needs `NotesGrow`), that nothing is known before it was
written (`KnownSoFar`), and that merging the archive of the last restore again
changes nothing, which holds because each rule is idempotent and every later
write resets `restored`.

**BookImportProofs.** `RowsAreCovered` speaks of what a device has, and the next
op that it merges may be a delete. `CutsCover` speaks of what any device could
know: of a cut of the logs that has everything its ops came after (`Whole`), and
says that for each row of a book created in it there is a book created and not
deleted in it that stands for the row. A merge of duplicates keeps that, because
its delete comes after the create of the book that takes over, and that book is
deleted nowhere, or the rows are recorded as `crossed`. What a device has is what
the ops it knows say (`RowsFollowOps`), apart from what it has undone, and an undo
takes only books whose rows it may take (`LogIsOfImport`). `OneBookPerRow` is the
other half: a row that is not `recurring` is one book's, which is known by it on
the device that made it, so that no later import there makes another one.

**ServerProofs.** `AccountsInv`: a signup that may still commit has counted the
users that there are (`CountIsCurrent`), enabled users have accounts, and a
request has left behind exactly what its step says (`Progressed`); what has no
owner belongs to one that runs (`NothingOrphaned`), and nobody is loose without
being recorded (`NobodyIsLoose`). `AccountsAreSound`, which the run checks, is one
administrator and nothing orphaned together. `DevicesInv` relates what a call has read to
what the tables still say, unless another call wrote since; of a disabled user it
says at every moment whose sessions may be left (`SignedOut`), a handler that was
cut off included. `LoginInv`: a challenge is in the hands of the requests that
read it (`OneEach`, `Alone`), one that was used is gone unless its DELETE failed
(`UsedIsGone`), the counter a request has read is the present one unless failures
crossed (`Current`), and the two halves of the property (`CountsFailures`,
`LockedAtLimit`); every statement may fail.

**LibraryProofs.** `OnboardingInv`: each enrollment is one device of one
library, the cursor has seen what it passed (`SeenTo`), once configured every row
is covered (`CoveredOnceConfigured`), and marked is stored (`MarkedIsStored`).
`RekeyInv`: keys are numbered once, a handler replaces with a copy that has all
that was stored when it was fetched but for what raced (`CopiesAreWhole`), what a
rekey has uploaded is readable with its key (`UploadedIsReadable`), and a snapshot
is dated so that it prunes only what it covers (`SnapshotsAreDated`).
`MigrationInv` is a statement for each phase: which keys are held before and
after the ops are replaced (`KeysBefore`, `KeysAfter`), with one data key per
account (`OneDataKey`). `LibraryLoginInv`: a session is bound to one device of
one machine (`OwnDevices`, `OneHolder`, `SessionIsOwn`) and a cursor is behind the
ops of others that were not pulled (`CursorIsBehind`).

**LocalProofs.** `ReadingInv`: the reading of the book has an unfinished session
dated after all others, or a command that is about to write it
(`ReadingHasSession`), and what an update found is the session of the reading it
checked (`FoundIsOf`). `WebInv`: unless requests crossed, a login at work is alone
and has read the counter as it is (`ServedAlone`). `ShelvesInv`: in the library
and in its archive alike (`Orderly`), a row refers to a book and a shelf, a name
has one shelf, and a regular shelf that no restored one was laid over has the
books that are wanted there; what is about to be inserted goes to a regular shelf
(`AdditionsAreRegular`). The proof found the property too strong as it was first
stated: a restore that merges gives the books of a regular shelf to the smart one
that has its name, and another backup can take them from there to a regular shelf
(`overlaid`).
`CatalogueInv`: what a command still has to write has its row (`TasksHaveRows`),
an ISBN is nobody's while one command adds it (`NumbersAreTaken`), and a title is
without a work while one command makes it (`WorksAreMadeOnce`), unless two
commands read before either wrote (`blurred`, `doubled`). `WizardInv`: what a
channel has for a page are rows that its run has stored (`RowsAreSent`), nothing
comes after the event that ends it (`ChannelIsLast`), a page that watches is told
by a run that goes on or has the end before it (`IsTold`), and unless the import
was started twice the rows go up (`GoesForward`). `VaultInv`: every bundle is
locked with its owner's credentials and wraps the account's one key
(`BundlesFit`), a bundle fetched before a rotation still wraps that key
(`FetchedFit`), and every stored key and envelope is of it (`KeysFit`,
`EnvelopesFit`). It rests on a lemma about the symbolic ciphers: credentials
open a bundle only if it was locked with them (`OnlyItsOwn`).

**Only model-checked.** Liveness (`EventualDelivery`, `EventualConvergence`) is
out of the prover's reach, and so are statements about enabledness.
`SmartFilter`, `Statistics` and `Figures` compute their results from the whole of
their inputs, and `RowImport` folds over the rows of an export:
`FilterKeepsMeaning`, `ReportsAddUp` and `RowsImportOnce` would need induction over
data.
The type invariants are proved and not run: those of `SyncRelay`, `BookMerge` and
`HlcLog` as theorems, those of the other proved modules inside their inductive
invariants.

## Where the code and its documents differ

Five are runs that TLC refutes:

- `hlc_width`: "Lexicographic string comparison produces correct causal
  ordering" (`sync.rs`, ADR 008) fails at counter 10000 and at 65535.
- `cursor_skew`: "Cursors are op IDs, not timestamps - immune to clock skew"
  (ADR 008): the server filters by the timestamp of the cursor's op, and an op
  pushed late is never pulled.
- `refused_cursor`: "Pull cursor not found: full re-sync from latest snapshot"
  (ADR 008): the client reports the error and keeps the cursor.
- `compact_loss`: compaction discards "superseded ops" (ADR 008): a device that
  has not pulled prunes ops its snapshot does not contain.
- `status_lww`: "Last-write-wins per field" (`merge.rs`, ADR 006): an illegal
  status transition is refused on merge and allowed on write, so devices that
  merged the same ops differ.

The others were met while modelling. Their model contains what the code does,
and the property that is checked excepts exactly that, by a history variable or
a precondition; without the exception TLC refutes it. `PROJECT.json` quotes the
lines.

- *Merging.* Tags are not applied "in HLC order" (`TagsKeepOrder`). A conflict
  stored while `resolve_all_conflicts` runs is marked as resolved with no side
  applied, and a merge that dies between the text and its conflict loses one
  version (`ConflictsAreKept`).
- *Rekey and quota.* A retry of a push that was stored can be refused by the
  quota; the rekey lock stays when the server stops, or its release fails, in
  between; the lock does not cover the download, so an acknowledged push can be
  deleted (`PushIsHonoured`). The snapshot that is uploaded again prunes again;
  restoring a bundle after a rekey brings back ops that no device can decrypt
  (`LibraryIsWhole`).
- *Accounts.* "Single-use: always delete the challenge": the error of that DELETE
  is dropped, and the challenge it leaves can be verified again
  (`OneSessionPerChallenge`). Disabling a user revokes "every device sync
  session", in a commit after that of the status: cut off in between the sessions
  stay, and disabling again does nothing (`DisabledIsSignedOut`).
- *Onto a server.* A signup cut off before the backfill leaves rows that never
  get an op; a second enrollment after `disable` uploads nothing
  (`OptInIsComplete`). A migration cannot be run again, and not at all of an
  instance without ops (`NoKeyIsLost`). An init
  that is cut off before `register` keeps a session in another device's name and
  never pulls that device's ops (`NothingIsHidden`).
- *Backups and files.* A restore raises the clocks first and so passes over
  every note that is there; a field without provenance is overwritten by an older
  one (`RestoreIsFaithful`). Killed between the two renames, `db encrypt` leaves
  a library that the next command replaces by an empty one, and a second run
  removes the last copy (`RowsSurvive`). The undo of `organize` does not undo
  across file systems, and a backup restores one of two equal ebooks
  (`FilesAreKept`).
- *Imports.* `merge_books` fails where source ids or notes are on the removed
  book, and mixes what an undo removes (`ImportIsConsistent`). A row that leads to
  a deleted book and has tags makes the re-import of its whole file fail; a
  StoryGraph book without ISBN whose title has a capital outside of ASCII is
  imported again every time; a dry run counts a book twice that is twice in the
  export (`RowsImportOnce`).
- *On the device.* No command ends a reading session
  (`ProgressJoinsItsReading`); a quoted value is a token only at its beginning,
  and is shown without quotes (`FilterKeepsMeaning`); shelves are not moved by
  `merge_books` and are compared with and without case (`ShelvesAgree`); days
  are UTC, today is local, the months of a year's report are not all 12 but those
  from the first to the last with a finished book, and the activity in an
  author's report is that of all years (`ReportsAddUp`); books pulled, bootstrapped or imported
  without an author have no search text, and an ISBN of a tombstone is lost
  (`CatalogueFinds`); an import can be started twice (`NobodyWaitsInVain`).
- *No run shows these three*: the statuses documented for
  `toku_update_book_status`, the `work_id` that a snapshot ships though a comment
  says it does not, and the StoryGraph reviews dropped for want of a table that
  exists.

## What is not modelled

- Of the cryptography: encodings, versions of envelopes, parameters of the key
  derivation, the text of the emergency kit. `KeyVault` takes its ciphers to be
  ideal; elsewhere an encrypted op is its plaintext with the number of its key, and
  SRP is a Boolean.
- What SQLite does: transactions are atomic and durable, statements serial, a
  transaction that reads first may not write after another has. The write-ahead
  log is modelled only in that an open connection writes to the file it opened.
- The server's process: routing, rate limits, mail, the audit log, the hooks of
  the managed runtime, the device quota, key bundles, listings.
- The client's plumbing: wire types, and whether secrets are in a keyring or a
  file.
- A panic in the thread of an import (`ImportWizard`). Of smart filters, values
  that hold parentheses or begin with an operator: they are shown without quotes,
  so their text means something else, as with a blank.
- Queries that only present rows, the writers of CSV, JSON and Markdown, covers,
  the parsers of the importers, metadata lookup (I/O against OpenLibrary).
- Terminal, account and web views, the desktop shell, the Apple applications.
- Authors, works and series as sync entities: they are inserted once, by the
  rule that `SyncRelay` follows for ops without timestamp comparison.
- Schema migrations on opening, and the foreign keys inside `apply_snapshot`.

In `BookMerge` an update of an unknown book, which the code skips, leaves no
trace, so the merge properties speak of ops merged into a row. In `SyncRelay`
export is one step, although `export_snapshot` reads table by table: the hazard
is listed without a property.

## Plan

Modelled, in this order: the clock and log, the relay and its refinement, books;
the other entities with conflicts; rekey, login, accounts, devices; opt-in, init,
migration; backups, the database file, ebook files, imports; what a device does
alone; the dashboard. Proved: the safety of the relay and of the merge
rules, and the invariants of what the server, the commands and a device do.

What is left, most important first:

1. A composition of `SyncRelay` and `BookMerge`: convergence of rows after a
   bootstrap, provenance lost in snapshots, resurrection after a purge. Its state
   space needs the abstractions the parts have justified.
2. `export_snapshot` table by table beside writes, and `apply_snapshot` with its
   foreign keys.
3. Review entities with their two fields, authors, works and series in the merge.
