----------------------------- MODULE Migration --------------------------------
(***************************************************************************)
(* Moving a library from the passphrase, or from plaintext, to an account: *)
(* toku sync migrate.                                                      *)
(*                                                                         *)
(* The command makes a fresh data key, signs the account up with the key   *)
(* wrapped in its bundle, gets sessions, downloads every op, re-encrypts   *)
(* and replaces them (the server's rekey, the subject of Rekey), does the  *)
(* same to the snapshot, and last stores the key and the config.  Other    *)
(* machines keep the old key until they log in to the account, and they    *)
(* push and compact meanwhile.                                             *)
(*                                                                         *)
(* A key is a number.  Who can still decrypt what the server holds is the  *)
(* question; an op is its position in the order of writing.                *)
(***************************************************************************)
EXTENDS Naturals, FiniteSets

CONSTANTS
  Migrator,    \* the machines of the library
  MaxWrites,   \* bound on the ops
  MaxFresh,    \* bound on the runs of migrate that make a data key
  MaxKills     \* bound on the runs that are cut off

ASSUME MigrationAssumption ==
  MaxWrites \in Nat \ {0} /\ MaxFresh \in Nat /\ MaxKills \in Nat

VARIABLES
  \* the server
  keeper,    \* the data key in the bundle of the account, Plain for no account
  opstore,     \* the ops table: the key under which each op is stored
  blob,      \* the key of the snapshot, as a set of one or none
  salted,    \* libraries.salt is still the one the passphrase was used with
  \* a machine
  unsent,    \* unsent[m]: its ops with pushed_at NULL
  vault,     \* vault[m]: the key in its token store
  sealed,    \* sealed[m]: encryption in its config
  migrating, \* migrating[m]: the running migrate
  \* bounds and history
  writes, fresh, kills,
  strayed    \* what was stored under another key after the library's was
             \* replaced: ops, and "blob" as 0

migrationVars == <<keeper, opstore, blob, salted, unsent, vault, sealed, migrating,
                   writes, fresh, kills, strayed>>

-----------------------------------------------------------------------------

Plain      == 0
Passphrase == 1
DataKey    == 2 .. MaxFresh + 1
Blob       == 0

NoMigration == [phase |-> "idle", old |-> Plain, new |-> Plain, ops |-> {}]

At(m, phase) == migrating[m].phase = phase
MoveTo(m, phase) == migrating' = [migrating EXCEPT ![m].phase = phase]
GiveUp(m) == migrating' = [migrating EXCEPT ![m] = NoMigration]

\* The library as an earlier version left it, with an op and perhaps a snapshot.
MigrationInit ==
  /\ \E key \in {Plain, Passphrase} :
       /\ opstore = [h \in {1} |-> key]
       /\ blob \in {{}, {key}}
       /\ vault = [m \in Migrator |-> key]
       /\ sealed = [m \in Migrator |-> key # Plain]
  /\ keeper = Plain /\ salted = TRUE
  /\ unsent = [m \in Migrator |-> {}]
  /\ migrating = [m \in Migrator |-> NoMigration]
  /\ writes = 1 /\ fresh = 0 /\ kills = 0 /\ strayed = {}

-----------------------------------------------------------------------------
(* What goes on beside a migration *)

\* load_encryption_key: none if the config says so.
KeyOf(m) == IF sealed[m] THEN vault[m] ELSE Plain

MachineWrites(m) ==
  /\ writes < MaxWrites
  /\ writes' = writes + 1
  /\ unsent' = [unsent EXCEPT ![m] = @ \cup {writes + 1}]
  /\ UNCHANGED <<keeper, opstore, blob, salted, vault, sealed, migrating, fresh, kills,
                 strayed>>

\* push, and push_ops: require_ciphertext refuses what is not an envelope, and
\* any envelope will do.
PushSealed(m) ==
  /\ unsent[m] # {} /\ KeyOf(m) # Plain
  /\ opstore' = [h \in DOMAIN opstore \cup unsent[m] |->
                 IF h \in DOMAIN opstore THEN opstore[h] ELSE KeyOf(m)]
  /\ strayed' = IF ~salted /\ KeyOf(m) # keeper
                  THEN strayed \cup (unsent[m] \ DOMAIN opstore) ELSE strayed
  /\ unsent' = [unsent EXCEPT ![m] = {}]
  /\ UNCHANGED <<keeper, blob, salted, vault, sealed, migrating, writes, fresh, kills>>

\* compact: a snapshot under the machine's key takes the place of the ops.
CompactSealed(m) ==
  /\ KeyOf(m) # Plain /\ DOMAIN opstore # {}
  /\ blob' = {KeyOf(m)}
  /\ opstore' = [h \in {} |-> Plain]
  /\ strayed' = IF ~salted /\ KeyOf(m) # keeper THEN {Blob} ELSE {}
  /\ UNCHANGED <<keeper, salted, unsent, vault, sealed, migrating, writes, fresh, kills>>

\* store_sync_key: over the one that was there.
StoresKey(m, key) == vault' = [vault EXCEPT ![m] = key]

\* account_keys refuses an account without a bundle.
Provisioned == keeper # Plain

\* login: the data key of the account.
LogIn(m) ==
  /\ At(m, "idle") /\ Provisioned
  /\ StoresKey(m, keeper)
  /\ UNCHANGED <<keeper, opstore, blob, salted, unsent, sealed, migrating, writes, fresh,
                 kills, strayed>>

-----------------------------------------------------------------------------
(* migrate *)

MigrateBegin(m) ==
  /\ At(m, "idle") /\ fresh < MaxFresh
  /\ fresh' = fresh + 1
  /\ migrating' = [migrating EXCEPT ![m] =
       [phase |-> "keyed", old |-> KeyOf(m), new |-> fresh + 2, ops |-> {}]]
  /\ UNCHANGED <<keeper, opstore, blob, salted, unsent, vault, sealed, writes, kills,
                 strayed>>

\* A faulty MigrateSignup, to validate NoKeyIsLost: an account that is there
\* takes the new bundle.
MigrateSignupAgain(m) ==
  /\ At(m, "keyed")
  /\ keeper' = migrating[m].new
  /\ MoveTo(m, "account")
  /\ UNCHANGED <<opstore, blob, salted, unsent, vault, sealed, writes, fresh, kills, strayed>>

\* account_signup: an email that is taken ends the command.
MigrateSignup(m) ==
  /\ At(m, "keyed")
  /\ IF keeper = Plain THEN keeper' = migrating[m].new /\ MoveTo(m, "account")
                       ELSE UNCHANGED keeper /\ GiveUp(m)
  /\ UNCHANGED <<opstore, blob, salted, unsent, vault, sealed, writes, fresh, kills, strayed>>

\* account_srp_login and create_device_session, for push, pull and rekey.
MigrateSession(m) ==
  /\ At(m, "account") /\ MoveTo(m, "session")
  /\ UNCHANGED <<keeper, opstore, blob, salted, unsent, vault, sealed, writes, fresh,
                 kills, strayed>>

\* reencrypt_wire_op: plaintext is encrypted for the first time; what the old
\* key does not decrypt ends the command.
Reencrypts(m, key) == key = Plain \/ key = migrating[m].old

MigrateFetch(m) ==
  /\ At(m, "session")
  /\ IF \A h \in DOMAIN opstore : Reencrypts(m, opstore[h])
       THEN migrating' = [migrating EXCEPT ![m].phase = "fetched", ![m].ops = DOMAIN opstore]
       ELSE GiveUp(m)
  /\ UNCHANGED <<keeper, opstore, blob, salted, unsent, vault, sealed, writes, fresh,
                 kills, strayed>>

\* rekey: the ops and the salt in one transaction.  The snapshot is behind
\* until it is uploaded, and a plaintext one stays what it is.  "ops array is
\* empty" ends the command.
MigrateReplace(m) ==
  /\ At(m, "fetched")
  /\ IF migrating[m].ops = {} THEN GiveUp(m) /\ UNCHANGED <<opstore, salted, strayed>>
     ELSE /\ MoveTo(m, "replaced")
          /\ opstore' = [h \in migrating[m].ops |-> migrating[m].new]
          /\ salted' = FALSE
          /\ strayed' = IF blob \subseteq {Plain} THEN {} ELSE {Blob}
  /\ UNCHANGED <<keeper, blob, unsent, vault, sealed, writes, fresh, kills>>

\* download_snapshot and upload_snapshot, if there was an old key: of a snapshot
\* it does not decrypt the command dies.
MigrateSnapshot(m) ==
  /\ At(m, "replaced")
  /\ IF migrating[m].old = Plain \/ blob = {}
       THEN MoveTo(m, "stored") /\ UNCHANGED <<blob, strayed>>
       ELSE IF blob = {migrating[m].old}
              THEN /\ blob' = {migrating[m].new} /\ MoveTo(m, "stored")
                   /\ strayed' = strayed \ {Blob}
              ELSE GiveUp(m) /\ UNCHANGED <<blob, strayed>>
  /\ UNCHANGED <<keeper, opstore, salted, unsent, vault, sealed, writes, fresh, kills>>

MigrateStoreKey(m) ==
  /\ At(m, "stored") /\ MoveTo(m, "configuring")
  /\ StoresKey(m, migrating[m].new)
  /\ UNCHANGED <<keeper, opstore, blob, salted, unsent, sealed, writes, fresh, kills, strayed>>

MigrateConfig(m) ==
  /\ At(m, "configuring") /\ GiveUp(m)
  /\ sealed' = [sealed EXCEPT ![m] = TRUE]
  /\ UNCHANGED <<keeper, opstore, blob, salted, unsent, vault, writes, fresh, kills, strayed>>

\* A request fails, its answer is lost, or the process is killed.
MigrateCut(m) ==
  /\ ~At(m, "idle") /\ GiveUp(m)
  /\ kills < MaxKills /\ kills' = kills + 1
  /\ UNCHANGED <<keeper, opstore, blob, salted, unsent, vault, sealed, writes, fresh, strayed>>

MigrationNext ==
  \E m \in Migrator :
    \/ MachineWrites(m) \/ PushSealed(m) \/ CompactSealed(m) \/ LogIn(m)
    \/ MigrateBegin(m) \/ MigrateSignup(m) \/ MigrateSession(m) \/ MigrateFetch(m)
    \/ MigrateReplace(m) \/ MigrateSnapshot(m) \/ MigrateStoreKey(m)
    \/ MigrateConfig(m) \/ MigrateCut(m)

MigrationSpec == MigrationInit /\ [][MigrationNext]_migrationVars

-----------------------------------------------------------------------------

MigrationTypeOK ==
  /\ keeper \in {Plain} \cup DataKey /\ Cardinality(blob) <= 1
  /\ DOMAIN opstore \subseteq 1 .. writes
  /\ (~salted => keeper # Plain)
  /\ \A m \in Migrator : At(m, "fetched") => migrating[m].new = keeper

\* The keys from which somebody can still decrypt: the bundle's, those in token
\* stores, and the passphrase's while the server has its salt.
Held ==
  {Plain, keeper} \cup {vault[m] : m \in Migrator}
    \cup (IF salted THEN {Passphrase} ELSE {})

(***************************************************************************)
(* However migrations are cut off and repeated, and whatever other         *)
(* machines push, compact and log in meanwhile: what the server holds can  *)
(* be decrypted by someone, and once the ops are replaced the account      *)
(* itself can, from the bundle alone.  Excepted is what a machine with the *)
(* old key stores after that, and the snapshot of a migration that ends    *)
(* between the ops and the snapshot.                                       *)
(***************************************************************************)
NoKeyIsLost ==
  /\ \A h \in DOMAIN opstore \ strayed :
       opstore[h] \in (IF salted THEN Held ELSE {keeper})
  /\ Blob \notin strayed => \A key \in blob : key \in (IF salted THEN Held ELSE {Plain, keeper})

=============================================================================
