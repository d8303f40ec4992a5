------------------------------- MODULE Rekey ---------------------------------
(***************************************************************************)
(* Changing the passphrase of a library: toku sync rekey, the server's     *)
(* rekey handler and its lock, and what runs beside them.                  *)
(*                                                                         *)
(* The client asks for the salt, downloads every op, re-encrypts them and  *)
(* sends them back; the handler takes the lock, replaces all ops and the   *)
(* salt in one transaction and releases the lock; the client then fetches  *)
(* the snapshot, re-encrypts and re-uploads it, and last stores the new    *)
(* key.  Pushes and compactions of every device go on meanwhile.  A push   *)
(* checks the lock and the quota before the transaction that stores.       *)
(*                                                                         *)
(* A key is the number of the rekey that made it, 0 the first one; an op   *)
(* is its timestamp.  Pulls, and compactions by a device that is behind,   *)
(* are the subject of SyncRelay: here the device that compacts has all.    *)
(***************************************************************************)
EXTENDS Naturals, FiniteSets

CONSTANTS
  Client,          \* the devices of one library
  Rekeyer,         \* bound: those that rekey
  Compactor,       \* bound: those that compact
  MaxOp,           \* bound on timestamps
  Quota,           \* the op quotas an account may have
  MaxRekeys,       \* bound on rekeys
  MaxTroubles      \* bound on compactions, restores, and requests, clients
                   \* and handlers that die, together

ASSUME RekeyAssumption ==
  /\ Rekeyer \subseteq Client /\ Compactor \subseteq Client
  /\ MaxOp \in Nat /\ Quota \subseteq Nat /\ MaxRekeys \in Nat
  /\ MaxTroubles \in Nat

VARIABLES
  own,        \* own[c]: the ops c has emitted
  unpushed,   \* unpushed[c]: those with pushed_at NULL
  key,        \* key[c]: the key c has stored
  push,       \* push[c]: the running push
  client,     \* client[c]: the running toku sync rekey
  handler,    \* handler[n]: the server's handler of the n-th rekey request
  server,     \* the ops table: the key under which each op is stored
  salt,       \* libraries.salt: the number of the key it belongs to
  lock,       \* libraries.rekey_in_progress
  snapshot,   \* the latest snapshot
  quota,      \* the ops the account may store
  bundle,     \* the ops in the administrator's backup of the account
  rekeys, troubles,   \* what the bounds count
  pruned,     \* history: the ops that an uploaded snapshot has deleted
  late,       \* history: the ops put on the server behind a snapshot
  raced,      \* history: the ops whose push had passed its checks before the
              \* handler started, stored when a rekey had copied the ops
  stale,      \* history: the ops last stored under a key not the salt's
  events      \* history: what the properties except

deviceVars == <<own, unpushed, key>>
serverVars == <<server, salt, lock, snapshot>>
counters == <<quota, rekeys, troubles, bundle>>
history == <<pruned, late, raced, stale, events>>
rekeyVars == <<own, unpushed, key, push, client, handler, server, salt, lock,
               snapshot, quota, bundle, rekeys, troubles,
               pruned, late, raced, stale, events>>

-----------------------------------------------------------------------------

Stamp == 1 .. MaxOp
Key == 0 .. MaxRekeys
Rekeys == 1 .. MaxRekeys
Event == {"died", "overlap", "crowded", "superseded", "tied", "outdated", "restored"}

NoPush == [phase |-> "idle", ops |-> {}, key |-> 0, seen |-> 0, calm |-> FALSE]
NoRekey == [phase |-> "idle", old |-> 0, new |-> 0, ops |-> {},
            stamp |-> 0, covers |-> {}]
NoHandler == [phase |-> "none", ops |-> {}, done |-> FALSE]
NoSnapshot == [stamp |-> 0, covers |-> {}, key |-> 0]

Stored == DOMAIN server

\* A rekey holds its copy of the ops until the server has replaced them.
CopyHeld ==
  \/ \E c \in Client : client[c].phase = "fetched"
  \/ \E n \in Rekeys : handler[n].phase = "locked"

Running == {n \in Rekeys : handler[n].phase # "none"}

RekeyInit ==
  /\ own = [c \in Client |-> {}] /\ unpushed = [c \in Client |-> {}]
  /\ key = [c \in Client |-> 0]
  /\ push = [c \in Client |-> NoPush]
  /\ client = [c \in Client |-> NoRekey]
  /\ handler = [n \in Rekeys |-> NoHandler]
  /\ server = [h \in {} |-> 0]
  /\ salt = 0 /\ lock = FALSE /\ snapshot = NoSnapshot
  /\ quota \in Quota
  /\ bundle = [h \in {} |-> 0]
  /\ rekeys = 0 /\ troubles = 0
  /\ pruned = {} /\ late = {} /\ raced = {} /\ stale = {} /\ events = {}

Trouble ==
  /\ troubles < MaxTroubles
  /\ troubles' = troubles + 1
  /\ UNCHANGED <<quota, bundle, rekeys>>

-----------------------------------------------------------------------------
(* Local writes and push. *)

Emit(c, h) ==
  /\ \A q \in own[c] : q < h
  /\ \A d \in Client : h \notin own[d]
  /\ own' = [own EXCEPT ![c] = @ \cup {h}]
  /\ unpushed' = [unpushed EXCEPT ![c] = @ \cup {h}]
  /\ UNCHANGED <<key, push, client, handler, serverVars, counters, history>>

\* A faulty PushCheck, to validate RekeyKeepsPushed: it ignores the lock.
PushCheckUnlocked(c) ==
  /\ push[c].phase = "idle" /\ unpushed[c] # {}
  /\ Cardinality(Stored) + Cardinality(unpushed[c]) <= quota
  /\ push' = [push EXCEPT ![c] = [phase |-> "checked", ops |-> unpushed[c],
                                  key |-> key[c], seen |-> Cardinality(Stored),
                                  calm |-> Running = {}]]
  /\ UNCHANGED <<deviceVars, client, handler, serverVars, counters, history>>

\* A faulty PushCheck, to validate QuotaRespected: the last op is not counted.
PushCheckOffByOne(c) ==
  /\ push[c].phase = "idle" /\ unpushed[c] # {}
  /\ ~lock
  /\ Cardinality(Stored) + Cardinality(unpushed[c]) <= quota + 1
  /\ push' = [push EXCEPT ![c] = [phase |-> "checked", ops |-> unpushed[c],
                                  key |-> key[c], seen |-> Cardinality(Stored),
                                  calm |-> Running = {}]]
  /\ UNCHANGED <<deviceVars, client, handler, serverVars, counters, history>>

\* enforce_user_quota: the batch, duplicates included, fits beside what is stored.
QuotaAllows(c) == Cardinality(Stored) + Cardinality(unpushed[c]) <= quota

\* push encrypts with the stored key; push_ops refuses while the lock is set
\* and when the batch does not fit the quota.
PushCheck(c) ==
  /\ push[c].phase = "idle" /\ unpushed[c] # {}
  /\ ~lock
  /\ QuotaAllows(c)
  /\ push' = [push EXCEPT ![c] = [phase |-> "checked", ops |-> unpushed[c],
                                  key |-> key[c], seen |-> Cardinality(Stored),
                                  calm |-> Running = {}]]
  /\ UNCHANGED <<deviceVars, client, handler, serverVars, counters, history>>

\* The transaction, after the checks: INSERT OR IGNORE.
PushStore(c) ==
  /\ push[c].phase = "checked"
  /\ LET new == push[c].ops \ Stored
     IN  /\ server' = [h \in Stored \cup new |->
                         IF h \in new THEN push[c].key ELSE server[h]]
         /\ late' = late \cup {h \in new : h <= snapshot.stamp}
         /\ raced' = IF CopyHeld /\ push[c].calm THEN raced \cup new ELSE raced
         /\ stale' = IF push[c].key = salt THEN stale \ new ELSE stale \cup new
  /\ events' = IF Cardinality(Stored) > push[c].seen
                 THEN events \cup {"crowded"} ELSE events
  /\ push' = [push EXCEPT ![c].phase = "stored"]
  /\ UNCHANGED <<deviceVars, client, handler, salt, lock, snapshot, counters, pruned>>

PushMark(c) ==
  /\ push[c].phase = "stored"
  /\ unpushed' = [unpushed EXCEPT ![c] = @ \ push[c].ops]
  /\ push' = [push EXCEPT ![c] = NoPush]
  /\ UNCHANGED <<own, key, client, handler, serverVars, counters, history>>

\* The answer is lost.  (A request that dies before it stores changes nothing.)
PushFails(c) ==
  /\ push[c].phase = "stored"
  /\ push' = [push EXCEPT ![c] = NoPush]
  /\ Trouble
  /\ UNCHANGED <<deviceVars, client, handler, serverVars, history>>

-----------------------------------------------------------------------------
(* Snapshots. *)

\* upload_snapshot: store, prune, keep the latest.  Snapshots are dated to the
\* second, and of two in one second the older row may be kept.  Neither the
\* lock nor the number of ops matters.
Upload(new) ==
  /\ LET old == {h \in Stored : h <= new.stamp}
     IN  /\ server' = [h \in Stored \ old |-> server[h]]
         /\ pruned' = pruned \cup old
  /\ \/ snapshot' = new
     \/ snapshot # NoSnapshot /\ UNCHANGED snapshot

\* compact, by a device that holds all there is, at any time of its clock.
Compact(c, h) ==
  /\ Trouble
  /\ Upload([stamp |-> h, covers |-> Stored \cup pruned \cup own[c], key |-> key[c]])
  /\ events' = events
       \cup (IF snapshot' = snapshot THEN {"tied"} ELSE {})
       \cup (IF key[c] # salt THEN {"outdated"} ELSE {})
  /\ UNCHANGED <<deviceVars, push, client, handler, salt, lock, late, raced, stale>>

-----------------------------------------------------------------------------
(* The administrator's backup of an account. *)

\* admin_backup_user.  One backup is enough for the questions asked.
Backup ==
  /\ troubles < MaxTroubles
  /\ Stored # {} /\ DOMAIN bundle = {}
  /\ bundle' = server
  /\ UNCHANGED <<deviceVars, push, client, handler, serverVars, quota, rekeys,
                 troubles, history>>

\* admin_restore_user: INSERT OR IGNORE of every op, as it was encrypted then;
\* the library keeps its salt.  A snapshot of the bundle is never the latest.
Restore ==
  /\ DOMAIN bundle # {}
  /\ Trouble
  /\ LET new == DOMAIN bundle \ Stored
     IN  /\ server' = [h \in Stored \cup new |->
                         IF h \in new THEN bundle[h] ELSE server[h]]
         /\ late' = late \cup {h \in new : h <= snapshot.stamp}
         /\ stale' = (stale \ new) \cup {h \in new : bundle[h] # salt}
         /\ events' = IF new # {} THEN events \cup {"restored"} ELSE events
  /\ UNCHANGED <<deviceVars, push, client, handler, salt, lock, snapshot, pruned,
                 raced>>

-----------------------------------------------------------------------------
(* toku sync rekey. *)

\* get_salt.  The user knows the passphrase that belongs to the salt.
RekeySalt(c) ==
  /\ client[c].phase = "idle" /\ rekeys < MaxRekeys
  /\ client' = [client EXCEPT ![c] = [NoRekey EXCEPT !.phase = "salted", !.old = salt]]
  /\ UNCHANGED <<deviceVars, push, handler, serverVars, counters, history>>

\* pull_all_ops and the re-encryption: without ops, or with one that the old
\* key does not decrypt, the command ends.
RekeyFetch(c) ==
  /\ client[c].phase = "salted" /\ rekeys < MaxRekeys
  /\ Stored # {}
  /\ \A h \in Stored : server[h] = client[c].old
  /\ rekeys' = rekeys + 1
  /\ client' = [client EXCEPT ![c] = [@ EXCEPT !.phase = "fetched", !.ops = Stored,
                                               !.new = rekeys + 1]]
  /\ UNCHANGED <<deviceVars, push, handler, serverVars, quota, bundle,
                 troubles, history>>

\* The client that waits for the answer of the n-th rekey.
Waits(c, n) == client[c].phase = "requested" /\ client[c].new = n

\* The request: the handler sets the lock, in a statement of its own.
RekeyLock(c) ==
  /\ client[c].phase = "fetched"
  /\ client' = [client EXCEPT ![c].phase = "requested"]
  /\ handler' = [handler EXCEPT ![client[c].new] =
                   [phase |-> "locked", ops |-> client[c].ops, done |-> FALSE]]
  /\ lock' = TRUE
  /\ events' = IF Running # {} THEN events \cup {"overlap"} ELSE events
  /\ UNCHANGED <<deviceVars, push, server, salt, snapshot, counters,
                 pruned, late, raced, stale>>

\* A faulty RekeyReplace, to validate ServerReadable: the salt is left alone.
RekeyReplaceKeepsSalt(n) ==
  /\ handler[n].phase = "locked"
  /\ server' = [h \in handler[n].ops |-> n]
  /\ handler' = [handler EXCEPT ![n] = [@ EXCEPT !.phase = "unlocking", !.done = TRUE]]
  /\ late' = late \cup {h \in handler[n].ops \ Stored : h <= snapshot.stamp}
  /\ stale' = {}
  /\ UNCHANGED <<deviceVars, push, client, salt, lock, snapshot, counters,
                 pruned, raced, events>>

\* The transaction: every op of the library, then the salt.
RekeyReplace(n) ==
  /\ handler[n].phase = "locked"
  /\ server' = [h \in handler[n].ops |-> n]
  /\ salt' = n
  /\ handler' = [handler EXCEPT ![n] = [@ EXCEPT !.phase = "unlocking", !.done = TRUE]]
  /\ late' = late \cup {h \in handler[n].ops \ Stored : h <= snapshot.stamp}
  /\ stale' = {}
  /\ UNCHANGED <<deviceVars, push, client, lock, snapshot, counters,
                 pruned, raced, events>>

\* The transaction fails and is rolled back.
RekeyReplaceFails(n) ==
  /\ handler[n].phase = "locked"
  /\ handler' = [handler EXCEPT ![n].phase = "unlocking"]
  /\ Trouble
  /\ UNCHANGED <<deviceVars, push, client, serverVars, history>>

\* A faulty RekeyUnlock, to validate LockReleased: only a success unlocks.
RekeyUnlockOnSuccess(n) ==
  /\ handler[n].phase = "unlocking"
  /\ lock' = ~handler[n].done
  /\ handler' = [handler EXCEPT ![n] = NoHandler]
  /\ client' = [c \in Client |->
                   IF ~Waits(c, n) THEN client[c]
                   ELSE IF handler[n].done THEN [client[c] EXCEPT !.phase = "answered"]
                   ELSE NoRekey]
  /\ UNCHANGED <<deviceVars, push, server, salt, snapshot, counters, history>>

\* The lock is released, and the answer reaches the client if it still waits.
RekeyUnlock(n) ==
  /\ handler[n].phase = "unlocking"
  /\ lock' = FALSE
  /\ handler' = [handler EXCEPT ![n] = NoHandler]
  /\ client' = [c \in Client |->
                   IF ~Waits(c, n) THEN client[c]
                   ELSE IF handler[n].done THEN [client[c] EXCEPT !.phase = "answered"]
                   ELSE NoRekey]
  /\ UNCHANGED <<deviceVars, push, server, salt, snapshot, counters, history>>

\* download_snapshot: what the old key does not decrypt ends the command.
RekeyDownload(c) ==
  /\ client[c].phase = "answered"
  /\ snapshot # NoSnapshot
  /\ client' = [client EXCEPT ![c] =
       IF snapshot.key = client[c].old
         THEN [@ EXCEPT !.phase = "downloaded", !.stamp = snapshot.stamp,
                        !.covers = snapshot.covers]
         ELSE NoRekey]
  /\ UNCHANGED <<deviceVars, push, handler, serverVars, counters, history>>

\* The snapshot is still the one that c has downloaded.
Downloaded(c) ==
  snapshot = [stamp |-> client[c].stamp, covers |-> client[c].covers, key |-> client[c].old]

\* A faulty RekeyUpload, to validate SnapshotReadable: the blob as it came.
RekeyUploadAsFound(c) ==
  /\ client[c].phase = "downloaded"
  /\ Upload([stamp |-> client[c].stamp, covers |-> client[c].covers,
             key |-> client[c].old])
  /\ events' = events
       \cup (IF Downloaded(c) THEN {} ELSE {"superseded"})
  /\ client' = [client EXCEPT ![c].phase = "uploaded"]
  /\ UNCHANGED <<deviceVars, push, handler, salt, lock, counters, late, raced, stale>>

\* A faulty RekeyUpload, to validate PrunedIsCovered: the blob is dated anew.
RekeyUploadDatedAnew(c) ==
  /\ client[c].phase = "downloaded"
  /\ Upload([stamp |-> MaxOp, covers |-> client[c].covers, key |-> client[c].new])
  /\ events' = events
       \cup (IF snapshot' = snapshot THEN {"tied"} ELSE {})
       \cup (IF Downloaded(c) THEN {} ELSE {"superseded"})
  /\ client' = [client EXCEPT ![c].phase = "uploaded"]
  /\ UNCHANGED <<deviceVars, push, handler, salt, lock, counters, late, raced, stale>>

\* The snapshot goes back under the new key and with its old timestamp.
RekeyUpload(c) ==
  /\ client[c].phase = "downloaded"
  /\ Upload([stamp |-> client[c].stamp, covers |-> client[c].covers,
             key |-> client[c].new])
  /\ events' = events
       \cup (IF snapshot' = snapshot THEN {"tied"} ELSE {})
       \cup (IF Downloaded(c) THEN {} ELSE {"superseded"})
  /\ client' = [client EXCEPT ![c].phase = "uploaded"]
  /\ UNCHANGED <<deviceVars, push, handler, salt, lock, counters, late, raced, stale>>

\* A faulty RekeyStoreKey, to validate RekeyTypeOK: the key of the next rekey.
RekeyStoreKeyAhead(c) ==
  /\ \/ client[c].phase = "uploaded"
     \/ client[c].phase = "answered" /\ snapshot = NoSnapshot
  /\ key' = [key EXCEPT ![c] = client[c].new + 1]
  /\ client' = [client EXCEPT ![c] = NoRekey]
  /\ UNCHANGED <<own, unpushed, push, handler, serverVars, counters, history>>

\* store_sync_key.
RekeyStoreKey(c) ==
  /\ \/ client[c].phase = "uploaded"
     \/ client[c].phase = "answered" /\ snapshot = NoSnapshot
  /\ key' = [key EXCEPT ![c] = client[c].new]
  /\ client' = [client EXCEPT ![c] = NoRekey]
  /\ UNCHANGED <<own, unpushed, push, handler, serverVars, counters, history>>

\* The client dies or loses an answer, once it has sent the request; a handler
\* it started goes on.
RekeyFails(c) ==
  /\ client[c].phase \notin {"idle", "salted", "fetched"}
  /\ client' = [client EXCEPT ![c] = NoRekey]
  /\ Trouble
  /\ UNCHANGED <<deviceVars, push, handler, serverVars, history>>

\* The server dies between two statements, or the unlock fails: its error is
\* dropped.  Nothing resets the lock when the server starts.
HandlerDies(n) ==
  /\ handler[n].phase # "none"
  /\ handler' = [handler EXCEPT ![n] = NoHandler]
  /\ client' = [c \in Client |-> IF Waits(c, n) THEN NoRekey ELSE client[c]]
  /\ events' = events \cup {"died"}
  /\ Trouble
  /\ UNCHANGED <<deviceVars, push, serverVars, pruned, late, raced, stale>>

RekeyNext ==
  \/ Backup \/ Restore
  \/ \E c \in Client :
       \/ \E h \in Stamp : Emit(c, h)
       \/ PushCheck(c) \/ PushStore(c) \/ PushMark(c) \/ PushFails(c)
  \/ \E c \in Compactor, h \in Stamp : Compact(c, h)
  \/ \E c \in Rekeyer :
       \/ RekeySalt(c) \/ RekeyFetch(c) \/ RekeyLock(c)
       \/ RekeyDownload(c) \/ RekeyUpload(c) \/ RekeyStoreKey(c)
       \/ RekeyFails(c)
  \/ \E n \in Rekeys :
       \/ RekeyReplace(n) \/ RekeyReplaceFails(n) \/ RekeyUnlock(n)
       \/ HandlerDies(n)

RekeySpec == RekeyInit /\ [][RekeyNext]_rekeyVars

-----------------------------------------------------------------------------

RekeyTypeOK ==
  /\ own \in [Client -> SUBSET Stamp] /\ key \in [Client -> Key]
  /\ \A c \in Client :
       /\ push[c].ops \subseteq unpushed[c] /\ unpushed[c] \subseteq own[c]
       /\ client[c].phase = "requested" => client[c].new \in Running
  /\ Stored \subseteq Stamp /\ \A h \in Stored : server[h] \in Key
  /\ salt \in Key /\ lock \in BOOLEAN
  /\ snapshot \in [stamp : 0 .. MaxOp, covers : SUBSET Stamp, key : Key]
  /\ events \subseteq Event

(***************************************************************************)
(* "Rejects push requests while a rekey is in progress to prevent          *)
(* corruption" (the lock of push_ops and rekey): whatever a device has     *)
(* marked as pushed is on the server or under a snapshot, except what was  *)
(* stored after a rekey had copied the ops and checked before its handler  *)
(* had the lock, and unless two rekeys overlap.                            *)
(***************************************************************************)
RekeyKeepsPushed ==
  \/ \A c \in Client : own[c] \ unpushed[c] \subseteq Stored \cup pruned \cup raced
  \/ "overlap" \in events

(***************************************************************************)
(* The rekey transaction replaces the ops and the salt together: however   *)
(* rekeys, pushes and crashes interleave, the key that belongs to the salt *)
(* decrypts every op but those that a push stored under another one.       *)
(***************************************************************************)
ServerReadable == \A h \in Stored \ stale : server[h] = salt

(***************************************************************************)
(* The snapshot follows the ops to the new key: once the device that chose *)
(* the new key has stored it, that key decrypts the snapshot, unless a     *)
(* device with an older key has compacted, or a snapshot came between the  *)
(* rekey's download and upload or in the same second.                      *)
(***************************************************************************)
SnapshotReadable ==
  \/ snapshot.key = salt \/ snapshot = NoSnapshot
  \/ \A c \in Client : key[c] # salt
  \/ events \cap {"superseded", "tied", "outdated"} # {}

(***************************************************************************)
(* "Re-uploading prunes nothing extra": what compactions and rekeys delete *)
(* is in the snapshot a new device starts from, except the ops that came   *)
(* behind a snapshot, and unless a rekey put its copy over a newer one.    *)
(***************************************************************************)
PrunedIsCovered ==
  \/ pruned \subseteq snapshot.covers \cup late
  \/ events \cap {"superseded", "tied"} # {}

(***************************************************************************)
(* "Always release the rekey lock, even on failure": while no handler is   *)
(* running the lock is free, unless a handler died or its unlock failed.   *)
(***************************************************************************)
LockReleased == lock => Running # {} \/ "died" \in events

(***************************************************************************)
(* The op quota of an account holds through retries, compactions and       *)
(* rekeys, as long as no two pushes are between check and transaction at   *)
(* once and no backup is restored.                                         *)
(***************************************************************************)
QuotaRespected ==
  Cardinality(Stored) <= quota \/ events \cap {"crowded", "restored"} # {}

(***************************************************************************)
(* A device that enrolls with the newest key gets the whole library: it can*)
(* read the ops and the snapshot that it downloads, and no op is missing   *)
(* from both, whatever a rekey was cut off in.                             *)
(***************************************************************************)
LibraryIsWhole == ServerReadable /\ SnapshotReadable /\ PrunedIsCovered

(***************************************************************************)
(* A push means what it answers, beside compactions, rekeys, crashes and   *)
(* retries: what it accepted is kept, the lock that refuses it is released *)
(* again, and the quota that refuses it holds.                             *)
(***************************************************************************)
PushIsHonoured == RekeyKeepsPushed /\ LockReleased /\ QuotaRespected

=============================================================================
