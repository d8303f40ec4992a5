------------------------------ MODULE Accounts -------------------------------
(***************************************************************************)
(* The accounts of a relay server and who owns its libraries: the first    *)
(* signup, which makes the administrator and adopts what was there before, *)
(* beside the older ways to register a library without an account.         *)
(*                                                                         *)
(* account_signup is a transaction that reads before it writes: SQLite     *)
(* lets it write only if nobody else has written since its first read.     *)
(* register and srp_enroll are sequences of statements that commit one by  *)
(* one.  A device is named by the request that creates it.                 *)
(***************************************************************************)
EXTENDS Naturals, FiniteSets

CONSTANTS
  User,        \* the accounts that are ever created
  Signup,      \* the signup requests that run at the same time
  Registering, \* the register and srp_enroll requests, each runs once
  Shelf,       \* the libraries they name
  Nobody       \* no user: a NULL user_id, a request without a session

ASSUME AccountsAssumption == Nobody \notin User

VARIABLES
  role,         \* role[u]: users.role, "none" before u signs up
  enabled,      \* the users whose status is active
  open,         \* instance_config.registration_open
  minProtocol,  \* instance_config.min_protocol
  signup,       \* signup[s]: the transaction s
  relay,        \* relay[r]: the request r
  libraryOwner, \* libraryOwner[l]: {} while there is no row, else its owner
  deviceOwner,  \* deviceOwner[r]: the same for the device of r
  verifiers,    \* the libraries with a row in accounts
  loose         \* history: the requests that nothing bound to an owner

accountsVars == <<role, enabled, open, minProtocol, signup, relay, libraryOwner,
                  deviceOwner, verifiers, loose>>

-----------------------------------------------------------------------------

NoSignup == [phase |-> "idle", first |-> FALSE, current |-> FALSE]
NewRequest == [phase |-> "new", srp |-> FALSE, library |-> {}, as |-> Nobody]

Users == {u \in User : role[u] # "none"}
UnfinishedRequests == {r \in Registering : relay[r].phase \notin {"new", "done"}}
Orphans == {l \in Shelf : libraryOwner[l] = {Nobody}}
OrphanDevices == {r \in Registering : deviceOwner[r] = {Nobody}}

AccountsInit ==
  /\ role = [u \in User |-> "none"] /\ enabled = {}
  /\ open = FALSE /\ minProtocol = 1
  /\ signup = [s \in Signup |-> NoSignup]
  /\ relay = [r \in Registering |-> NewRequest]
  /\ libraryOwner = [l \in Shelf |-> {}]
  /\ deviceOwner = [r \in Registering |-> {}]
  /\ verifiers = {} /\ loose = {}

\* Someone has written: no other transaction that has read may still write.
Outdated == [s \in Signup |-> [signup[s] EXCEPT !.current = FALSE]]

-----------------------------------------------------------------------------
(* account_signup *)

SignupRead(s) ==
  /\ signup[s].phase = "idle"
  /\ Users = {} \/ open
  /\ signup' = [signup EXCEPT ![s] =
       [phase |-> "read", first |-> Users = {}, current |-> TRUE]]
  /\ UNCHANGED <<role, enabled, open, minProtocol, relay, libraryOwner,
                 deviceOwner, verifiers, loose>>

\* Only the account is written: nothing, or the first signup's adoption.
Adopt(u) ==
  /\ libraryOwner' = [l \in Shelf |-> IF l \in Orphans THEN {u} ELSE libraryOwner[l]]
  /\ deviceOwner' = [r \in Registering |->
                       IF r \in OrphanDevices THEN {u} ELSE deviceOwner[r]]
  /\ minProtocol' = IF Orphans # {} \/ OrphanDevices # {} THEN 2 ELSE minProtocol

\* A faulty SignupCommit, to validate OneAdmin: the count is read outside the
\* transaction.
SignupCommitUnguarded(s, u) ==
  /\ signup[s].phase = "read"
  /\ role[u] = "none"
  /\ role' = [role EXCEPT ![u] = IF signup[s].first THEN "admin" ELSE "user"]
  /\ enabled' = enabled \cup {u}
  /\ IF signup[s].first THEN Adopt(u)
     ELSE UNCHANGED <<libraryOwner, deviceOwner, minProtocol>>
  /\ loose' = IF signup[s].first THEN loose \cup UnfinishedRequests ELSE loose
  /\ signup' = [Outdated EXCEPT ![s] = NoSignup]
  /\ UNCHANGED <<open, relay, verifiers>>

\* A faulty SignupCommit, to validate NothingOrphaned: libraries only.
SignupCommitKeepsDevices(s, u) ==
  /\ signup[s].phase = "read" /\ signup[s].current
  /\ role[u] = "none"
  /\ role' = [role EXCEPT ![u] = IF signup[s].first THEN "admin" ELSE "user"]
  /\ enabled' = enabled \cup {u}
  /\ libraryOwner' = IF signup[s].first
       THEN [l \in Shelf |-> IF l \in Orphans THEN {u} ELSE libraryOwner[l]]
       ELSE libraryOwner
  /\ loose' = IF signup[s].first THEN loose \cup UnfinishedRequests ELSE loose
  /\ signup' = [Outdated EXCEPT ![s] = NoSignup]
  /\ UNCHANGED <<open, minProtocol, relay, deviceOwner, verifiers>>

\* The first account is the administrator and adopts what has no owner.
SignupCommit(s, u) ==
  /\ signup[s].phase = "read" /\ signup[s].current
  /\ role[u] = "none"
  /\ role' = [role EXCEPT ![u] = IF signup[s].first THEN "admin" ELSE "user"]
  /\ enabled' = enabled \cup {u}
  /\ IF signup[s].first THEN Adopt(u)
     ELSE UNCHANGED <<libraryOwner, deviceOwner, minProtocol>>
  /\ loose' = IF signup[s].first THEN loose \cup UnfinishedRequests ELSE loose
  /\ signup' = [Outdated EXCEPT ![s] = NoSignup]
  /\ UNCHANGED <<open, relay, verifiers>>

\* SQLITE_BUSY at the first write, or the server stops: nothing was written.
SignupFails(s) ==
  /\ signup[s].phase = "read"
  /\ signup' = [signup EXCEPT ![s] = NoSignup]
  /\ UNCHANGED <<role, enabled, open, minProtocol, relay, libraryOwner,
                 deviceOwner, verifiers, loose>>

-----------------------------------------------------------------------------
(* The administrator. *)

SetRegistration ==
  /\ \E u \in enabled : role[u] = "admin"
  /\ open' = ~open
  /\ signup' = Outdated
  /\ UNCHANGED <<role, enabled, minProtocol, relay, libraryOwner, deviceOwner,
                 verifiers, loose>>

\* set_user_status: not one's own, and not that of the last administrator.
SetUserStatus(actor, u) ==
  /\ actor \in enabled /\ role[actor] = "admin" /\ role[u] # "none"
  /\ u \in enabled =>
       /\ u # actor
       /\ role[u] = "admin" => \E v \in enabled \ {u} : role[v] = "admin"
  /\ enabled' = IF u \in enabled THEN enabled \ {u} ELSE enabled \cup {u}
  /\ signup' = Outdated
  /\ UNCHANGED <<role, open, minProtocol, relay, libraryOwner, deviceOwner,
                 verifiers, loose>>

-----------------------------------------------------------------------------
(* register and srp_enroll *)

Step(r, from, to) ==
  /\ relay[r].phase = from
  /\ relay' = [relay EXCEPT ![r].phase = to]

\* register: the checks, each a read of its own.  A library with a verifier
\* wants a session of that library, which is no session of a user; without
\* one, only a user's session passes once there are accounts.
RegisterCheck(r, l, as) ==
  /\ relay[r].phase = "new"
  /\ as \in enabled \cup {Nobody}
  /\ IF l \in verifiers THEN as = Nobody ELSE Users # {} => as \in enabled
  /\ relay' = [relay EXCEPT ![r] =
       [phase |-> "checked", srp |-> FALSE, library |-> {l}, as |-> as]]
  /\ loose' = IF l \in verifiers THEN loose \cup {r} ELSE loose
  /\ UNCHANGED <<role, enabled, open, minProtocol, signup, libraryOwner,
                 deviceOwner, verifiers>>

\* srp_enroll: only that the library has no verifier yet.
SrpEnrollCheck(r, l, as) ==
  /\ relay[r].phase = "new"
  /\ as \in enabled \cup {Nobody}
  /\ l \notin verifiers
  /\ relay' = [relay EXCEPT ![r] =
       [phase |-> "checked", srp |-> TRUE, library |-> {l}, as |-> as]]
  /\ loose' = IF as = Nobody /\ Users # {} THEN loose \cup {r} ELSE loose
  /\ UNCHANGED <<role, enabled, open, minProtocol, signup, libraryOwner,
                 deviceOwner, verifiers>>

\* INSERT OR IGNORE INTO libraries.
MakeLibrary(r) ==
  /\ Step(r, "checked", "library")
  /\ libraryOwner' = [l \in Shelf |->
       IF l \in relay[r].library /\ libraryOwner[l] = {} THEN {Nobody}
       ELSE libraryOwner[l]]
  /\ signup' = Outdated
  /\ UNCHANGED <<role, enabled, open, minProtocol, deviceOwner, verifiers, loose>>

\* INSERT INTO accounts, in srp_enroll: it fails if another was faster.
MakeVerifier(r) ==
  /\ relay[r].phase = "library" /\ relay[r].srp
  /\ IF relay[r].library \subseteq verifiers
       THEN /\ relay' = [relay EXCEPT ![r].phase = "done"]
            /\ loose' = loose \cup {r}
            /\ UNCHANGED <<signup, verifiers>>
       ELSE /\ relay' = [relay EXCEPT ![r].phase = "verifier"]
            /\ verifiers' = verifiers \cup relay[r].library
            /\ signup' = Outdated
            /\ UNCHANGED loose
  /\ UNCHANGED <<role, enabled, open, minProtocol, libraryOwner, deviceOwner>>

MakeDevice(r) ==
  /\ Step(r, IF relay[r].srp THEN "verifier" ELSE "library", "device")
  /\ deviceOwner' = [deviceOwner EXCEPT ![r] = {Nobody}]
  /\ signup' = Outdated
  /\ UNCHANGED <<role, enabled, open, minProtocol, libraryOwner, verifiers, loose>>

\* The session is looked up again: a user disabled since then owns nothing.
StampLibrary(r) ==
  /\ relay[r].as \in enabled
  /\ Step(r, "device", "stamped")
  /\ libraryOwner' = [l \in Shelf |->
       IF l \in relay[r].library /\ libraryOwner[l] = {Nobody} THEN {relay[r].as}
       ELSE libraryOwner[l]]
  /\ signup' = Outdated
  /\ UNCHANGED <<role, enabled, open, minProtocol, deviceOwner, verifiers, loose>>

StampDevice(r) ==
  /\ Step(r, "stamped", "done")
  /\ deviceOwner' = [deviceOwner EXCEPT ![r] = {relay[r].as}]
  /\ signup' = Outdated
  /\ UNCHANGED <<role, enabled, open, minProtocol, libraryOwner, verifiers, loose>>

StampsNothing(r) ==
  /\ relay[r].as \notin enabled
  /\ Step(r, "device", "done")
  /\ loose' = IF relay[r].as # Nobody THEN loose \cup {r} ELSE loose
  /\ UNCHANGED <<role, enabled, open, minProtocol, signup, libraryOwner,
                 deviceOwner, verifiers>>

\* The server stops between two statements.
RequestDies(r) ==
  /\ relay[r].phase \notin {"new", "done"}
  /\ relay' = [relay EXCEPT ![r].phase = "done"]
  /\ loose' = IF relay[r].as # Nobody \/ Users # {} THEN loose \cup {r} ELSE loose
  /\ UNCHANGED <<role, enabled, open, minProtocol, signup, libraryOwner,
                 deviceOwner, verifiers>>

AccountsNext ==
  \/ \E s \in Signup :
       \/ SignupRead(s) \/ SignupFails(s)
       \/ \E u \in User : SignupCommit(s, u)
  \/ SetRegistration
  \/ \E actor, u \in User : SetUserStatus(actor, u)
  \/ \E r \in Registering :
       \/ \E l \in Shelf, as \in User \cup {Nobody} :
            RegisterCheck(r, l, as) \/ SrpEnrollCheck(r, l, as)
       \/ MakeLibrary(r) \/ MakeVerifier(r) \/ MakeDevice(r)
       \/ StampLibrary(r) \/ StampDevice(r) \/ StampsNothing(r)
       \/ RequestDies(r)

AccountsSpec == AccountsInit /\ [][AccountsNext]_accountsVars

-----------------------------------------------------------------------------

AccountsTypeOK ==
  /\ role \in [User -> {"none", "admin", "user"}] /\ enabled \subseteq Users
  /\ open \in BOOLEAN /\ minProtocol \in {1, 2}
  /\ \A s \in Signup : signup[s].phase \in {"idle", "read"}
  /\ \A r \in Registering :
       /\ deviceOwner[r] # {} => relay[r].phase \in {"device", "stamped", "done"}
       /\ relay[r].phase \in {"library", "verifier", "device", "stamped"} =>
            \A l \in relay[r].library : libraryOwner[l] # {}
  /\ \A l \in verifiers : libraryOwner[l] # {}

(***************************************************************************)
(* "two concurrent first signups can't both become admin" (account_signup),*)
(* and the guards of set_user_status: once there are accounts, exactly one *)
(* is an administrator, and it is enabled.                                 *)
(***************************************************************************)
OneAdmin ==
  Users # {} => \E u \in enabled : {v \in User : role[v] = "admin"} = {u}

(***************************************************************************)
(* The first signup adopts every library and device without an owner, and  *)
(* register then refuses to make another: one without an owner is left by  *)
(* a request that had passed its check before that signup, that stopped or *)
(* lost its user on the way, or that register and srp_enroll admit without *)
(* a user's session.                                                       *)
(***************************************************************************)
NothingOrphaned ==
  Users # {} =>
    /\ OrphanDevices \subseteq loose \cup UnfinishedRequests
    /\ \A l \in Orphans : \E r \in loose \cup UnfinishedRequests : relay[r].library = {l}

\* Both: what a first signup settles stays settled.
AccountsAreSound == OneAdmin /\ NothingOrphaned

=============================================================================
