----------------------------- MODULE Onboarding ------------------------------
(***************************************************************************)
(* How a library that exists on one machine gets onto a relay server:      *)
(* toku sync signup, enroll and login, the backfill of the op log on the   *)
(* first opt-in, the bootstrap of a joining device, disable and a second   *)
(* enrollment from the same data directory.                                *)
(*                                                                         *)
(* Every command is a sequence of requests and local writes; it may be cut *)
(* off between any two.  A row stands for the create op it should have;    *)
(* enrollments are numbered, and the n-th is one device of the server.     *)
(* Pushes and pulls are single steps here (SyncRelay takes them apart).    *)
(***************************************************************************)
EXTENDS Naturals

CONSTANTS
  Row,        \* the rows that are ever written, by this device or by others
  Library,    \* the libraries that are ever created on the server
  MaxEnrolls, \* bound on the enrollments of this machine
  MaxCuts     \* bound on the commands that are cut off

ASSUME OnboardingAssumption == MaxEnrolls \in Nat /\ MaxCuts \in Nat

VARIABLES
  \* the server
  account,    \* the account exists
  stored,     \* stored[l]: the rows whose create op library l holds
  created,    \* the libraries that exist
  enrolled,   \* enrolled[n]: library and status of the n-th enrollment
  guarded,    \* device_approvals_required
  \* the data directory
  rows,       \* the rows of its database
  mine,       \* those written here
  logged,     \* those with a create op in sync_ops
  pushed,     \* those whose op is marked as pushed
  identity,   \* sync_device: the enrollment it was made for, 0 if none
  provisioned,\* sync_device.bootstrapped_at is set
  config,     \* the enrollment that [sync] of config.toml names, 0 if none
  session,    \* the enrollment whose session token is kept, 0 if none
  cursor,     \* the libraries of the op that pull_cursor names: one or none
  \* the running command
  phase,      \* its next step, "idle" if none runs
  joining,    \* the enrollment it works on
  enrolls, cuts, \* what the bounds count
  mishap      \* history: what bends the promise of the backfill

onboardingVars ==
  <<account, stored, created, enrolled, guarded, rows, mine, logged, pushed,
    identity, provisioned, config, session, cursor, phase, joining, enrolls,
    cuts, mishap>>

remote == <<account, stored, created, enrolled, guarded>>
local  == <<rows, mine, logged, pushed, identity, provisioned, config, session, cursor>>
bounds == <<enrolls, cuts>>

-----------------------------------------------------------------------------

NoDevice == [library |-> {}, status |-> "none", fresh |-> FALSE]
Enrolled == 1 .. enrolls

OnboardingInit ==
  /\ account = FALSE /\ created = {} /\ guarded \in BOOLEAN
  /\ stored = [l \in Library |-> {}]
  /\ enrolled = [n \in 0 .. MaxEnrolls |-> NoDevice]
  /\ rows \in SUBSET Row /\ mine = rows /\ logged = {} /\ pushed = {}
  /\ identity = 0 /\ provisioned = FALSE /\ config = 0 /\ session = 0 /\ cursor = {}
  /\ phase = "idle" /\ joining = 0 /\ enrolls = 0 /\ cuts = 0 /\ mishap = {}

Unlogged == rows \ logged
Elsewhere == Row \ (rows \cup UNION {stored[l] : l \in Library})

Goto(from, to) == phase = from /\ phase' = to

-----------------------------------------------------------------------------
(* The library in use. *)

\* A repository write: it emits its op once the database has an identity.
UserWrites(x) ==
  /\ x \in Elsewhere
  /\ rows' = rows \cup {x} /\ mine' = mine \cup {x}
  /\ logged' = IF identity = 0 THEN logged ELSE logged \cup {x}
  /\ UNCHANGED <<remote, pushed, identity, provisioned, config, session, cursor,
                 phase, joining, bounds, mishap>>

\* Another device of the account.
OthersPush(l, x) ==
  /\ l \in created /\ x \in Elsewhere
  /\ stored' = [stored EXCEPT ![l] = @ \cup {x}]
  /\ UNCHANGED <<account, created, enrolled, guarded, local, phase, joining, bounds,
                 mishap>>

\* push: the library is that of the session, whatever the config says.
Push ==
  /\ session # 0
  /\ stored' = [l \in Library |-> IF l \in enrolled[session].library
                                    THEN stored[l] \cup (logged \ pushed) ELSE stored[l]]
  /\ pushed' = logged
  /\ mishap' = IF session = config \/ logged = pushed THEN mishap
               ELSE mishap \cup {"astray"}
  /\ UNCHANGED <<account, created, enrolled, guarded, rows, mine, logged, identity,
                 provisioned, config, session, cursor, joining, bounds>>

\* pull: the ops of other devices, that is of other ids than the session's.
Pull ==
  /\ session # 0 /\ config # 0
  /\ cursor \subseteq enrolled[session].library
  /\ LET held    == UNION {stored[l] : l \in enrolled[session].library}
         foreign == IF session = identity THEN held \ mine ELSE held
     IN  /\ rows' = rows \cup foreign
         /\ logged' = logged \cup foreign
         /\ pushed' = pushed \cup foreign
         /\ cursor' = IF foreign = {} THEN cursor ELSE enrolled[session].library
  /\ UNCHANGED <<remote, mine, identity, provisioned, config, session, joining,
                 bounds, mishap>>

RunPush == phase = "idle" /\ config # 0 /\ Push /\ UNCHANGED phase
RunPull == phase = "idle" /\ Pull /\ UNCHANGED phase

-----------------------------------------------------------------------------
(* signup and enroll *)

\* account_signup: the first request of signup, refused for a known address.
SignupAccount ==
  /\ Goto("idle", "account")
  /\ ~account /\ account' = TRUE
  /\ UNCHANGED <<stored, created, enrolled, guarded, local, joining, bounds, mishap>>

\* Login and enroll_device: a new library, or one of the account.
Join(library, fresh) ==
  /\ account /\ enrolls < MaxEnrolls
  /\ phase = "account" => fresh
  /\ phase \in {"idle", "account"} /\ phase' = "token"
  /\ enrolls' = enrolls + 1 /\ joining' = enrolls + 1
  /\ created' = created \cup library
  /\ LET peers == \E n \in Enrolled : enrolled[n].library = library
                                      /\ enrolled[n].status = "active"
     IN  enrolled' = [enrolled EXCEPT ![enrolls + 1] =
           [library |-> library, fresh |-> fresh,
            status |-> IF guarded /\ peers THEN "pending" ELSE "active"]]
  /\ UNCHANGED <<account, stored, guarded, local, cuts, mishap>>

JoinFresh(l) == l \notin created /\ Join({l}, TRUE)
JoinExisting(l) == l \in created /\ Join({l}, FALSE)

\* finalize_device: the session token if there is one and the data key.
KeepToken ==
  /\ Goto("token", "identity")
  /\ session' = IF enrolled[joining].status = "active" THEN joining ELSE session
  /\ UNCHANGED <<remote, rows, mine, logged, pushed, identity, provisioned, config,
                 cursor, joining, bounds, mishap>>

\* get_or_create_device_with_id: an identity that exists stays.
KeepIdentity ==
  /\ Goto("identity", "config")
  /\ identity' = IF identity = 0 THEN joining ELSE identity
  /\ UNCHANGED <<remote, rows, mine, logged, pushed, provisioned, config, session,
                 cursor, joining, bounds, mishap>>

\* The config, and which way the command goes on: what it had pushed to
\* another library stays marked, and the rows it had before a join have no op.
KeepConfig ==
  /\ phase = "config"
  /\ phase' = IF enrolled[joining].status # "active" THEN "idle"
              ELSE IF enrolled[joining].fresh THEN "backfill" ELSE "restore"
  /\ config' = joining
  /\ mishap' = mishap
       \cup (IF \E l \in Library \ enrolled[joining].library :
                   stored[l] \cap pushed \cap mine # {} THEN {"moved"} ELSE {})
       \cup (IF ~enrolled[joining].fresh /\ Unlogged # {} THEN {"joined"} ELSE {})
  /\ UNCHANGED <<remote, rows, mine, logged, pushed, identity, provisioned, session,
                 cursor, joining, bounds>>

\* A faulty Backfill, to validate OptInCovers: rows are backfilled only while
\* the op log is empty.
BackfillOnce ==
  /\ phase = "backfill"
  /\ phase' = IF logged = {} /\ Unlogged # {} THEN "push" ELSE "mark"
  /\ logged' = IF logged = {} THEN rows ELSE logged
  /\ mishap' = mishap \ {"joined", "cut"}
  /\ UNCHANGED <<remote, rows, mine, pushed, identity, provisioned, config, session,
                 cursor, joining, bounds>>

\* A faulty Backfill, to validate LibraryHoldsPushed: the ops are staged the way
\* those of other devices are, as pushed.
BackfillAsRemote ==
  /\ phase = "backfill"
  /\ phase' = IF Unlogged = {} THEN "mark" ELSE "push"
  /\ logged' = rows /\ pushed' = pushed \cup Unlogged
  /\ mishap' = mishap \ {"joined", "cut"}
  /\ UNCHANGED <<remote, rows, mine, identity, provisioned, config, session,
                 cursor, joining, bounds>>

\* backfill_sync_ops, one transaction: the rows that have no create op.
Backfill ==
  /\ phase = "backfill"
  /\ phase' = IF Unlogged = {} THEN "mark" ELSE "push"
  /\ logged' = rows
  /\ mishap' = mishap \ {"joined", "cut"}
  /\ UNCHANGED <<remote, rows, mine, pushed, identity, provisioned, config, session,
                 cursor, joining, bounds>>

BackfillPush == Push /\ Goto("push", "mark")

Mark ==
  /\ Goto("mark", "idle")
  /\ provisioned' = TRUE
  /\ UNCHANGED <<remote, rows, mine, logged, pushed, identity, config, session, cursor,
                 joining, bounds, mishap>>

\* bootstrap: the snapshot is one more way to hold the ops of the library.
Recover == Pull /\ Goto("restore", "mark")

\* "cursor op_id not found": the cursor names an op of another library.
RecoverRefused ==
  /\ Goto("restore", "idle")
  /\ ~(cursor \subseteq enrolled[session].library)
  /\ UNCHANGED <<remote, local, joining, bounds, mishap>>

\* toku sync bootstrap --reset-cursor.
ResetCursor ==
  /\ Goto("idle", "restore")
  /\ config # 0 /\ session # 0
  /\ cursor' = {}
  /\ UNCHANGED <<remote, rows, mine, logged, pushed, identity, provisioned, config,
                 session, joining, bounds, mishap>>

\* The command is cut off, or a request fails.
Cut ==
  /\ phase # "idle" /\ cuts < MaxCuts
  /\ phase' = "idle" /\ cuts' = cuts + 1
  /\ mishap' = IF phase = "backfill" /\ Unlogged # {}
                 THEN mishap \cup {"cut"} ELSE mishap
  /\ UNCHANGED <<remote, local, joining, enrolls>>

-----------------------------------------------------------------------------
(* login, approval, disable *)

\* login mints a session for the configured device; the first one restores.
Login ==
  /\ phase = "idle" /\ account
  /\ config # 0 /\ enrolled[config].status = "active"
  /\ session' = config
  /\ phase' = IF provisioned THEN "idle" ELSE "restore"
  /\ UNCHANGED <<remote, rows, mine, logged, pushed, identity, provisioned, config,
                 cursor, joining, bounds, mishap>>

Approve(n) ==
  /\ enrolled[n].status = "pending"
  /\ enrolled' = [enrolled EXCEPT ![n].status = "active"]
  /\ UNCHANGED <<account, stored, created, guarded, local, phase, joining, bounds,
                 mishap>>

\* toku sync disable: the tokens and the config go, the database stays.
Disable ==
  /\ phase = "idle" /\ config # 0
  /\ config' = 0 /\ session' = 0
  /\ UNCHANGED <<remote, rows, mine, logged, pushed, identity, provisioned, cursor,
                 phase, joining, bounds, mishap>>

OnboardingNext ==
  \/ \E x \in Row :
       \/ UserWrites(x)
       \/ \E l \in Library : OthersPush(l, x)
  \/ RunPush \/ RunPull \/ SignupAccount
  \/ \E l \in Library : JoinFresh(l) \/ JoinExisting(l)
  \/ KeepToken \/ KeepIdentity \/ KeepConfig
  \/ Backfill \/ BackfillPush \/ Mark \/ Recover \/ RecoverRefused \/ ResetCursor
  \/ Cut \/ Login \/ Disable
  \/ \E n \in Enrolled : Approve(n)

OnboardingSpec == OnboardingInit /\ [][OnboardingNext]_onboardingVars

-----------------------------------------------------------------------------

OnboardingTypeOK ==
  /\ pushed \subseteq logged /\ logged \subseteq rows /\ mine \subseteq rows
  /\ {identity, config, session, joining} \subseteq 0 .. enrolls
  /\ \A n \in Enrolled : enrolled[n].library \subseteq created
  /\ \A l \in Library \ created : stored[l] = {}
  /\ identity = 0 => logged = {} /\ ~provisioned

(***************************************************************************)
(* "after first opt-in, everything sync covers is on the server" (ADR-013, *)
(* D2): once the device counts as provisioned every row has a create op,   *)
(* unless rows were there when it joined an existing library, or an opt-in *)
(* was cut off before the backfill and a login took its place; the next    *)
(* backfill makes up for both.                                             *)
(***************************************************************************)
OptInCovers ==
  provisioned /\ phase = "idle" => Unlogged = {} \/ mishap \cap {"joined", "cut"} # {}

(***************************************************************************)
(* What a device has marked as pushed is in the library it now syncs with, *)
(* unless it enrolled into another one after pushing, or pushed with the   *)
(* session of the old one while the new one waited for approval: nothing   *)
(* pushes those ops again.                                                 *)
(***************************************************************************)
LibraryHoldsPushed ==
  config # 0 =>
    \/ \A l \in enrolled[config].library : pushed \cap mine \subseteq stored[l]
    \/ mishap \cap {"moved", "astray"} # {}

(***************************************************************************)
(* The opt-in is complete: every row of the library has its op, and what is*)
(* marked as pushed is in the library that the device syncs with.          *)
(***************************************************************************)
OptInIsComplete == OptInCovers /\ LibraryHoldsPushed

=============================================================================
