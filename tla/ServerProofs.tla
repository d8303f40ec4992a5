------------------------------ MODULE ServerProofs ------------------------------
(***************************************************************************)
(* Theorems about Accounts, Devices and Login for every set of users,      *)
(* requests, libraries, devices, calls and challenges, every number of     *)
(* attempts and every number of stops.                                     *)
(***************************************************************************)
EXTENDS Accounts, Devices, Login, FiniteSetTheorems, TLAPS

-----------------------------------------------------------------------------
(* Accounts: the inductive invariant, in parts. *)

Owners == {{}} \cup {{u} : u \in User \cup {Nobody}}

AccountTypes ==
  /\ role \in [User -> {"none", "admin", "user"}] /\ enabled \subseteq User
  /\ signup \in [Signup -> [phase : {"idle", "read"}, first : BOOLEAN, current : BOOLEAN]]
  /\ relay \in [Registering ->
       [phase : {"new", "checked", "library", "verifier", "device", "stamped", "done"},
        srp : BOOLEAN, library : SUBSET Shelf, as : User \cup {Nobody}]]
  /\ libraryOwner \in [Shelf -> Owners] /\ deviceOwner \in [Registering -> Owners]
  /\ loose \subseteq Registering

\* Only who has an account is enabled.
EnabledHaveAccounts == \A u \in enabled : role[u] # "none"

\* A transaction that may still write has counted right.
CountIsCurrent ==
  \A s \in Signup : signup[s].phase = "read" /\ signup[s].current =>
    (signup[s].first <=> Users = {})

\* How far a request is, and what it has left behind.
Progressed ==
  \A r \in Registering :
    /\ relay[r].phase = "new" => relay[r].library = {}
    /\ relay[r].phase # "new" => \E l \in Shelf : relay[r].library = {l}
    /\ relay[r].phase \in {"library", "verifier", "device"} =>
         \A l \in relay[r].library : libraryOwner[l] # {}
    /\ relay[r].phase = "stamped" =>
         /\ relay[r].as # Nobody
         /\ \A l \in relay[r].library : libraryOwner[l] # {} /\ l \notin Orphans
    /\ r \in OrphanDevices => relay[r].phase \in {"device", "stamped", "done"}

\* Without a user a request only gets through while there are no accounts.
NobodyIsLoose ==
  Users # {} => \A r \in UnfinishedRequests : relay[r].as = Nobody => r \in loose

AccountsInv ==
  /\ AccountTypes /\ EnabledHaveAccounts /\ CountIsCurrent /\ OneAdmin
  /\ Progressed /\ NobodyIsLoose /\ NothingOrphaned

-----------------------------------------------------------------------------

\* Initially there is no account and no request.
LEMMA AccountsInitInv == AccountsInit => AccountsInv
<1> SUFFICES ASSUME AccountsInit PROVE AccountsInv
  OBVIOUS
<1>1. Users = {}
  BY DEF AccountsInit, Users
<1>2. AccountTypes
  BY DEF AccountsInit, AccountTypes, Owners, NoSignup, NewRequest
<1>3. \A r \in Registering : 
        relay[r].phase = "new" /\ relay[r].library = {} /\ r \notin OrphanDevices
  BY DEF AccountsInit, NewRequest, OrphanDevices
<1>4. EnabledHaveAccounts /\ CountIsCurrent
  BY DEF AccountsInit, EnabledHaveAccounts, CountIsCurrent, NoSignup
<1> QED
  BY <1>1, <1>2, <1>3, <1>4
     DEF AccountsInv, OneAdmin, Progressed, NobodyIsLoose, NothingOrphaned

\* Steps that leave the accounts and who is the administrator alone.
LEMMA SameAdmin ==
  ASSUME AccountsInv, UNCHANGED <<role, enabled>>
  PROVE  EnabledHaveAccounts' /\ OneAdmin' /\ Users' = Users
BY DEF AccountsInv, EnabledHaveAccounts, OneAdmin, Users

\* Marking the counts as old changes nothing else of a signup.
LEMMA OutdatedTypes ==
  ASSUME AccountsInv
  PROVE  /\ Outdated \in [Signup -> [phase : {"idle", "read"}, first : BOOLEAN, current : BOOLEAN]]
         /\ \A s \in Signup : ~Outdated[s].current
<1>1. /\ signup \in [Signup -> [phase : {"idle", "read"}, first : BOOLEAN, current : BOOLEAN]]
      /\ Outdated = [s \in Signup |-> [signup[s] EXCEPT !.current = FALSE]]
  BY DEF AccountsInv, AccountTypes, Outdated
<1>2. ASSUME NEW s \in Signup
      PROVE  /\ Outdated[s] \in [phase : {"idle", "read"}, first : BOOLEAN, current : BOOLEAN]
             /\ ~Outdated[s].current
  <2>1. Outdated[s] = [signup[s] EXCEPT !.current = FALSE]
    BY <1>1
  <2> QED
    BY <1>1, <2>1
<1> QED
  BY <1>1, <1>2

\* The count that a signup read is marked as old, or no account was made since.
LEMMA OutdatedCounts ==
  ASSUME AccountsInv, signup' = Outdated \/ signup' = signup, UNCHANGED role
  PROVE  /\ CountIsCurrent'
         /\ signup' \in [Signup -> [phase : {"idle", "read"}, first : BOOLEAN, current : BOOLEAN]]
<1>1. Users' = Users
  BY DEF Users
<1>2. CASE signup' = signup
  BY <1>1, <1>2 DEF AccountsInv, AccountTypes, CountIsCurrent
<1>3. CASE signup' = Outdated
  BY <1>3, OutdatedTypes DEF CountIsCurrent
<1> QED
  BY <1>2, <1>3

(***************************************************************************)
(* A request that moves on and leaves something without an owner behind is *)
(* still there, or known to have been loose.                               *)
(***************************************************************************)
LEMMA Witness ==
  ASSUME AccountsInv, NEW r \in UnfinishedRequests,
         \A q \in Registering \ {r} : relay'[q] = relay[q],
         relay'[r].library = relay[r].library, relay'[r].as = relay[r].as,
         relay'[r].phase # "new", loose \subseteq loose', Users' = Users,
         Orphans' \subseteq Orphans \cup relay[r].library,
         OrphanDevices' \subseteq OrphanDevices \cup {r},
         \/ relay'[r].phase # "done" \/ r \in loose' \/ Users = {}
         \/ /\ r \notin OrphanDevices'
            /\ \A l \in relay[r].library : l \notin Orphans'
  PROVE  NobodyIsLoose' /\ NothingOrphaned'
<1>1. /\ r \in Registering /\ UnfinishedRequests \subseteq UnfinishedRequests' \cup {r}
      /\ UnfinishedRequests' \subseteq UnfinishedRequests
      /\ relay'[r].phase # "done" => r \in UnfinishedRequests'
  BY DEF UnfinishedRequests
<1>2. \A q \in Registering : relay'[q].library = relay[q].library /\ relay'[q].as = relay[q].as
  OBVIOUS
<1>3. NobodyIsLoose'
  BY <1>1, <1>2 DEF AccountsInv, NobodyIsLoose, UnfinishedRequests
<1>4. PICK l \in Shelf : relay[r].library = {l}
  BY DEF AccountsInv, Progressed, UnfinishedRequests
<1>5. NothingOrphaned'
  <2> SUFFICES ASSUME Users # {}
               PROVE  /\ OrphanDevices' \subseteq loose' \cup UnfinishedRequests'
                      /\ \A m \in Orphans' : \E q \in loose' \cup UnfinishedRequests' :
                           relay'[q].library = {m}
    BY DEF NothingOrphaned
  <2>1. OrphanDevices' \subseteq loose' \cup UnfinishedRequests'
    <3>1. OrphanDevices \subseteq loose \cup UnfinishedRequests
      BY DEF AccountsInv, NothingOrphaned
    <3> QED
      BY <1>1, <3>1
  <2>2. ASSUME NEW m \in Orphans'
        PROVE  \E q \in loose' \cup UnfinishedRequests' : relay'[q].library = {m}
    <3>1. CASE m = l
      <4>1. CASE r \in loose' \cup UnfinishedRequests'
        BY <1>2, <1>1, <1>4, <3>1, <4>1
      <4>2. CASE r \notin loose' \cup UnfinishedRequests'
        BY <1>1, <1>4, <3>1, <4>2
      <4> QED
        BY <4>1, <4>2
    <3>2. CASE m # l
      <4>1. PICK q \in loose \cup UnfinishedRequests : relay[q].library = {m}
        BY <1>4, <3>2 DEF AccountsInv, NothingOrphaned
      <4>2. q # r /\ q \in Registering
        BY <1>4, <3>2, <4>1 DEF AccountsInv, AccountTypes, UnfinishedRequests
      <4> QED
        BY <1>1, <1>2, <4>1, <4>2
    <3> QED
      BY <3>1, <3>2
  <2> QED
    BY <2>1, <2>2
<1> QED
  BY <1>3, <1>5

\* A signup counts the accounts, or fails: no account is made.
LEMMA SignupReadStep ==
  ASSUME AccountsInv, NEW s \in Signup, SignupRead(s) \/ SignupFails(s)
  PROVE  AccountsInv'
<1>1. UNCHANGED <<role, enabled, relay, libraryOwner, deviceOwner, loose>>
  BY DEF SignupRead, SignupFails
<1>2. EnabledHaveAccounts' /\ OneAdmin' /\ Users' = Users
  BY <1>1, SameAdmin
<1>3. CountIsCurrent' /\ AccountTypes'
  <2>1. CASE SignupRead(s)
    <3>1. [phase |-> "read", first |-> Users = {}, current |-> TRUE]
            \in [phase : {"idle", "read"}, first : BOOLEAN, current : BOOLEAN]
      OBVIOUS
    <3>2. signup' = [signup EXCEPT ![s] =
            [phase |-> "read", first |-> Users = {}, current |-> TRUE]]
      BY <2>1 DEF SignupRead
    <3> QED
      BY <1>1, <1>2, <3>1, <3>2 DEF AccountsInv, AccountTypes, CountIsCurrent
  <2>2. CASE SignupFails(s)
    BY <1>1, <1>2, <2>2 DEF AccountsInv, AccountTypes, CountIsCurrent, SignupFails, NoSignup
  <2> QED
    BY <2>1, <2>2
<1>4. Progressed' /\ NobodyIsLoose' /\ NothingOrphaned'
  BY <1>1, <1>2 DEF AccountsInv, Progressed, NobodyIsLoose, NothingOrphaned, Orphans,
                     OrphanDevices, UnfinishedRequests
<1> QED
  BY <1>2, <1>3, <1>4 DEF AccountsInv

(***************************************************************************)
(* The first account becomes the administrator, and nothing is left        *)
(* without an owner; a later one changes neither.                          *)
(***************************************************************************)
LEMMA SignupCommitStep ==
  ASSUME AccountsInv, NEW s \in Signup, NEW u \in User, SignupCommit(s, u)
  PROVE  AccountsInv'
<1>1. /\ signup[s].phase = "read" /\ signup[s].current /\ role[u] = "none"
      /\ role' = [role EXCEPT ![u] = IF signup[s].first THEN "admin" ELSE "user"]
      /\ enabled' = enabled \cup {u}
      /\ signup' = [Outdated EXCEPT ![s] = NoSignup]
      /\ loose' = IF signup[s].first THEN loose \cup UnfinishedRequests ELSE loose
      /\ relay' = relay /\ UnfinishedRequests \subseteq Registering
  BY DEF SignupCommit, UnfinishedRequests
<1>2. signup[s].first <=> Users = {}
  BY <1>1 DEF AccountsInv, CountIsCurrent
<1>3. u \in Users' /\ Users \subseteq Users' /\ u \notin Users
  BY <1>1 DEF Users, AccountsInv, AccountTypes
<1>4. /\ \A q \in Signup : signup'[q].phase = "read" => ~signup'[q].current
      /\ signup' \in [Signup -> [phase : {"idle", "read"}, first : BOOLEAN, current : BOOLEAN]]
  <2>1. NoSignup \in [phase : {"idle", "read"}, first : BOOLEAN, current : BOOLEAN]
        /\ NoSignup.phase = "idle"
    BY DEF NoSignup
  <2> QED
    BY <1>1, <2>1, OutdatedTypes
<1>5. CountIsCurrent'
  BY <1>4 DEF CountIsCurrent
<1>6. EnabledHaveAccounts' /\ OneAdmin'
  <2>1. EnabledHaveAccounts'
    BY <1>1 DEF AccountsInv, AccountTypes, EnabledHaveAccounts
  <2>2. CASE Users = {}
    <3>1. {v \in User : role'[v] = "admin"} = {u}
      BY <1>1, <1>2, <2>2 DEF AccountsInv, AccountTypes, Users
    <3> QED
      BY <1>1, <2>1, <3>1 DEF OneAdmin
  <2>3. CASE Users # {}
    <3>1. PICK a \in enabled : {v \in User : role[v] = "admin"} = {a}
      BY <2>3 DEF AccountsInv, OneAdmin
    <3>2. {v \in User : role'[v] = "admin"} = {v \in User : role[v] = "admin"}
      BY <1>1, <1>2, <2>3 DEF AccountsInv, AccountTypes
    <3> QED
      BY <1>1, <2>1, <3>1, <3>2 DEF OneAdmin
  <2> QED
    BY <2>2, <2>3
<1>7. CASE Users = {}
  <2>1. /\ signup[s].first
        /\ libraryOwner' = [l \in Shelf |-> IF l \in Orphans THEN {u} ELSE libraryOwner[l]]
        /\ deviceOwner' = [r \in Registering |-> IF r \in OrphanDevices THEN {u} ELSE deviceOwner[r]]
        /\ UnfinishedRequests \subseteq loose'
    BY <1>1, <1>2, <1>7 DEF SignupCommit, Adopt
  <2>2. Orphans' = {} /\ OrphanDevices' = {}
    BY <2>1, AccountsAssumption DEF Orphans, OrphanDevices
  <2>3. AccountTypes'
    <3>1. role' \in [User -> {"none", "admin", "user"}]
      BY <1>1 DEF AccountsInv, AccountTypes
    <3>2. enabled' \subseteq User
      BY <1>1 DEF AccountsInv, AccountTypes
    <3>3. libraryOwner' \in [Shelf -> Owners] /\ deviceOwner' \in [Registering -> Owners]
      BY <2>1 DEF AccountsInv, AccountTypes, Owners
    <3> QED
      BY <1>1, <1>4, <3>1, <3>2, <3>3 DEF AccountsInv, AccountTypes
  <2>4. Progressed'
    BY <1>1, <2>1, <2>2 DEF AccountsInv, AccountTypes, Progressed
  <2>5. NobodyIsLoose' /\ NothingOrphaned'
    BY <1>1, <2>1, <2>2 DEF NobodyIsLoose, NothingOrphaned, UnfinishedRequests
  <2> QED
    BY <1>5, <1>6, <2>3, <2>4, <2>5 DEF AccountsInv
<1>8. CASE Users # {}
  <2>1. UNCHANGED <<libraryOwner, deviceOwner, loose>> /\ ~signup[s].first
    BY <1>1, <1>2, <1>8 DEF SignupCommit
  <2>2. AccountTypes'
    <3>1. role' \in [User -> {"none", "admin", "user"}]
      BY <1>1 DEF AccountsInv, AccountTypes
    <3>2. enabled' \subseteq User
      BY <1>1 DEF AccountsInv, AccountTypes
    <3> QED
      BY <1>1, <1>4, <2>1, <3>1, <3>2 DEF AccountsInv, AccountTypes
  <2>3. Progressed' /\ NobodyIsLoose' /\ NothingOrphaned'
    BY <1>1, <1>8, <2>1 DEF AccountsInv, Progressed, NobodyIsLoose, NothingOrphaned, Orphans,
                             OrphanDevices, UnfinishedRequests
  <2> QED
    BY <1>5, <1>6, <2>2, <2>3 DEF AccountsInv
<1> QED
  BY <1>7, <1>8

\* An administrator opens or closes the registration, or disables an account.
LEMMA AdminStep ==
  ASSUME AccountsInv,
         SetRegistration \/ \E actor, u \in User : SetUserStatus(actor, u)
  PROVE  AccountsInv'
<1>1. UNCHANGED <<role, relay, libraryOwner, deviceOwner, loose>> /\ signup' = Outdated
  BY DEF SetRegistration, SetUserStatus
<1>2. Users' = Users
  BY <1>1 DEF Users
<1>3. /\ CountIsCurrent'
      /\ signup' \in [Signup -> [phase : {"idle", "read"}, first : BOOLEAN, current : BOOLEAN]]
  BY <1>1, OutdatedCounts
<1>4. Progressed' /\ NobodyIsLoose' /\ NothingOrphaned'
  BY <1>1, <1>2 DEF AccountsInv, Progressed, NobodyIsLoose, NothingOrphaned, Orphans,
                     OrphanDevices, UnfinishedRequests
<1>5. EnabledHaveAccounts' /\ OneAdmin' /\ enabled' \subseteq User
  <2>1. CASE SetRegistration
    BY <2>1, SameAdmin DEF SetRegistration, AccountsInv, AccountTypes
  <2>2. ASSUME NEW actor \in User, NEW u \in User, SetUserStatus(actor, u)
        PROVE  EnabledHaveAccounts' /\ OneAdmin' /\ enabled' \subseteq User
    <3>1. /\ actor \in enabled /\ role[actor] = "admin" /\ role[u] # "none" /\ role' = role
          /\ u \in enabled => u # actor
          /\ enabled' = IF u \in enabled THEN enabled \ {u} ELSE enabled \cup {u}
      BY <2>2 DEF SetUserStatus
    <3>2. Users # {}
      BY <3>1 DEF Users
    <3>3. {v \in User : role[v] = "admin"} = {actor}
      BY <3>1, <3>2 DEF AccountsInv, OneAdmin
    <3>4. actor \in enabled'
      BY <3>1
    <3> QED
      BY <3>1, <3>3, <3>4 DEF AccountsInv, AccountTypes, EnabledHaveAccounts, OneAdmin
  <2> QED
    BY <2>1, <2>2
<1> QED
  BY <1>1, <1>3, <1>4, <1>5 DEF AccountsInv, AccountTypes

(***************************************************************************)
(* The statements of register and srp_enroll.  What they have in common:   *)
(* the accounts stay, one request moves, rows only appear or get an owner. *)
(***************************************************************************)
LEMMA RequestTypes ==
  ASSUME AccountsInv, UNCHANGED <<role, enabled>>, loose' \subseteq Registering,
         signup' = Outdated \/ signup' = signup,
         relay' \in [Registering ->
           [phase : {"new", "checked", "library", "verifier", "device", "stamped", "done"},
            srp : BOOLEAN, library : SUBSET Shelf, as : User \cup {Nobody}]],
         libraryOwner' \in [Shelf -> Owners], deviceOwner' \in [Registering -> Owners]
  PROVE  /\ AccountTypes' /\ EnabledHaveAccounts' /\ CountIsCurrent' /\ OneAdmin'
         /\ Users' = Users
<1>1. /\ CountIsCurrent'
      /\ signup' \in [Signup -> [phase : {"idle", "read"}, first : BOOLEAN, current : BOOLEAN]]
  BY OutdatedCounts
<1> QED
  BY <1>1, SameAdmin DEF AccountsInv, AccountTypes

\* A registration passes its checks, and nothing is stored yet.
LEMMA CheckStep ==
  ASSUME AccountsInv, NEW r \in Registering, NEW l \in Shelf, NEW as \in User \cup {Nobody},
         RegisterCheck(r, l, as) \/ SrpEnrollCheck(r, l, as)
  PROVE  AccountsInv'
<1>1. PICK srp \in BOOLEAN :
        /\ relay[r].phase = "new"
        /\ relay' = [relay EXCEPT ![r] =
             [phase |-> "checked", srp |-> srp, library |-> {l}, as |-> as]]
        /\ UNCHANGED <<role, enabled, signup, libraryOwner, deviceOwner>>
  BY DEF RegisterCheck, SrpEnrollCheck
<1>2. loose \subseteq loose' /\ (Users # {} /\ as = Nobody => r \in loose')
  <2>1. CASE RegisterCheck(r, l, as)
    <3>1. as = Nobody => as \notin enabled
      BY AccountsAssumption DEF AccountsInv, AccountTypes
    <3> QED
      BY <2>1, <3>1 DEF RegisterCheck
  <2>2. CASE SrpEnrollCheck(r, l, as)
    BY <2>2 DEF SrpEnrollCheck
  <2> QED
    BY <2>1, <2>2
<1>3. /\ AccountTypes' /\ EnabledHaveAccounts' /\ CountIsCurrent' /\ OneAdmin'
      /\ Users' = Users
  <2>1. loose' \in {loose, loose \cup {r}}
    BY DEF RegisterCheck, SrpEnrollCheck
  <2>2. loose' \subseteq Registering
    BY <2>1 DEF AccountsInv, AccountTypes
  <2> QED
    BY <1>1, <2>2, RequestTypes DEF AccountsInv, AccountTypes
<1>4. /\ relay'[r].phase = "checked" /\ relay'[r].as = as /\ relay'[r].library = {l}
      /\ \A q \in Registering \ {r} : relay'[q] = relay[q]
  BY <1>1 DEF AccountsInv, AccountTypes
<1>5. Orphans' = Orphans /\ OrphanDevices' = OrphanDevices /\ r \notin OrphanDevices
  BY <1>1 DEF Orphans, OrphanDevices, AccountsInv, Progressed
<1>6. UnfinishedRequests' = UnfinishedRequests \cup {r} /\ r \notin UnfinishedRequests
  BY <1>1, <1>4 DEF UnfinishedRequests
<1>7. Progressed'
  <2>1. \A m \in Shelf : libraryOwner[m] # {} => libraryOwner'[m] # {}
    BY <1>1
  <2>2. /\ relay'[r].phase = "checked" /\ \E m \in Shelf : relay'[r].library = {m}
        /\ r \notin OrphanDevices'
    BY <1>4, <1>5
  <2>3. \A q \in Registering \ {r} : relay'[q] = relay[q] /\ (q \in OrphanDevices' => q \in OrphanDevices)
    BY <1>4, <1>5
  <2>4. ASSUME NEW q \in Registering \ {r}
        PROVE  /\ relay'[q].phase = "new" => relay'[q].library = {}
               /\ relay'[q].phase # "new" => \E m \in Shelf : relay'[q].library = {m}
               /\ relay'[q].phase \in {"library", "verifier", "device"} =>
                    \A m \in relay'[q].library : libraryOwner'[m] # {}
               /\ relay'[q].phase = "stamped" =>
                    /\ relay'[q].as # Nobody
                    /\ \A m \in relay'[q].library : libraryOwner'[m] # {} /\ m \notin Orphans'
               /\ q \in OrphanDevices' => relay'[q].phase \in {"device", "stamped", "done"}
    <3>1. relay[q].library \subseteq Shelf
      BY DEF AccountsInv, AccountTypes
    <3> QED
      BY <1>5, <2>1, <2>3, <3>1 DEF AccountsInv, Progressed
  <2> QED
    BY <2>2, <2>4 DEF Progressed
<1>8. NobodyIsLoose'
  <2>1. \A q \in UnfinishedRequests : relay'[q] = relay[q]
    BY <1>4, <1>6 DEF UnfinishedRequests
  <2> QED
    BY <1>2, <1>3, <1>4, <1>6, <2>1 DEF AccountsInv, NobodyIsLoose
<1>9. NothingOrphaned'
  <2> SUFFICES ASSUME Users # {}
               PROVE  /\ OrphanDevices \subseteq loose' \cup UnfinishedRequests'
                      /\ \A m \in Orphans : \E q \in loose' \cup UnfinishedRequests' :
                           relay'[q].library = {m}
    BY <1>3, <1>5 DEF NothingOrphaned
  <2>1. OrphanDevices \subseteq loose' \cup UnfinishedRequests'
    BY <1>2, <1>6 DEF AccountsInv, NothingOrphaned
  <2>2. ASSUME NEW m \in Orphans
        PROVE  \E q \in loose' \cup UnfinishedRequests' : relay'[q].library = {m}
    <3>1. PICK q \in loose \cup UnfinishedRequests : relay[q].library = {m}
      BY DEF AccountsInv, NothingOrphaned
    <3>2. q \in Registering /\ q # r
      BY <1>1, <3>1 DEF AccountsInv, AccountTypes, Progressed, UnfinishedRequests
    <3> QED
      BY <1>2, <1>4, <1>6, <3>1, <3>2
  <2> QED
    BY <2>1, <2>2
<1> QED
  BY <1>3, <1>7, <1>8, <1>9 DEF AccountsInv

\* A step of the request r to the phase to, with the owners it leaves.
Moves(r, to) ==
  /\ r \in UnfinishedRequests
  /\ relay' = [relay EXCEPT ![r].phase = to]
  /\ UNCHANGED <<role, enabled>> /\ (signup' = Outdated \/ signup' = signup)
  /\ loose' \in {loose, loose \cup {r}}

(***************************************************************************)
(* What every such step keeps.                                             *)
(***************************************************************************)
LEMMA MoveKeeps ==
  ASSUME AccountsInv, NEW r \in Registering,
         NEW to \in {"library", "verifier", "device", "stamped", "done"}, Moves(r, to),
         libraryOwner' \in [Shelf -> Owners], deviceOwner' \in [Registering -> Owners]
  PROVE  /\ AccountTypes' /\ EnabledHaveAccounts' /\ CountIsCurrent' /\ OneAdmin'
         /\ Users' = Users
         /\ \A q \in Registering \ {r} : relay'[q] = relay[q]
         /\ relay'[r].library = relay[r].library /\ relay'[r].as = relay[r].as
         /\ relay'[r].phase = to
<1>1. loose' \subseteq Registering
  BY DEF Moves, AccountsInv, AccountTypes
<1>2. relay[r] \in
        [phase : {"new", "checked", "library", "verifier", "device", "stamped", "done"},
         srp : BOOLEAN, library : SUBSET Shelf, as : User \cup {Nobody}]
  BY DEF AccountsInv, AccountTypes
<1>3. relay' = [relay EXCEPT ![r] = [relay[r] EXCEPT !.phase = to]]
  BY DEF Moves
<1>4. /\ [relay[r] EXCEPT !.phase = to] \in
           [phase : {"new", "checked", "library", "verifier", "device", "stamped", "done"},
            srp : BOOLEAN, library : SUBSET Shelf, as : User \cup {Nobody}]
      /\ [relay[r] EXCEPT !.phase = to].library = relay[r].library
      /\ [relay[r] EXCEPT !.phase = to].as = relay[r].as
      /\ [relay[r] EXCEPT !.phase = to].phase = to
  BY <1>2
<1>5. /\ AccountTypes' /\ EnabledHaveAccounts' /\ CountIsCurrent' /\ OneAdmin'
      /\ Users' = Users
  <2>1. relay' \in [Registering ->
          [phase : {"new", "checked", "library", "verifier", "device", "stamped", "done"},
           srp : BOOLEAN, library : SUBSET Shelf, as : User \cup {Nobody}]]
    BY <1>3, <1>4 DEF AccountsInv, AccountTypes
  <2>2. UNCHANGED <<role, enabled>> /\ (signup' = Outdated \/ signup' = signup)
    BY DEF Moves
  <2> QED
    BY <1>1, <2>1, <2>2, RequestTypes
<1> QED
  BY <1>3, <1>4, <1>5 DEF AccountsInv, AccountTypes

\* A step that writes neither owner.
LEMMA PlainMove ==
  ASSUME AccountsInv, NEW r \in Registering, NEW to \in {"verifier", "done"}, Moves(r, to),
         UNCHANGED <<libraryOwner, deviceOwner>>,
         to = "verifier" => relay[r].phase = "library",
         to = "done" => r \in loose' \/ Users = {}
  PROVE  AccountsInv'
<1>1. /\ AccountTypes' /\ EnabledHaveAccounts' /\ CountIsCurrent' /\ OneAdmin'
      /\ Users' = Users
      /\ \A q \in Registering \ {r} : relay'[q] = relay[q]
      /\ relay'[r].library = relay[r].library /\ relay'[r].as = relay[r].as
      /\ relay'[r].phase = to
  BY MoveKeeps DEF AccountsInv, AccountTypes
<1>2. Orphans' = Orphans /\ OrphanDevices' = OrphanDevices
  BY DEF Orphans, OrphanDevices
<1>3. loose \subseteq loose' /\ r \in UnfinishedRequests
  BY DEF Moves
<1>4. Progressed'
  BY <1>1, <1>2, <1>3 DEF AccountsInv, Progressed, UnfinishedRequests
<1>5. NobodyIsLoose' /\ NothingOrphaned'
  BY <1>1, <1>2, <1>3, Witness
<1> QED
  BY <1>1, <1>4, <1>5 DEF AccountsInv

\* What a request does to the library it names.
LEMMA LibraryMove ==
  ASSUME AccountsInv, NEW r \in Registering, NEW to \in {"library", "stamped"}, Moves(r, to),
         NEW owner \in User \cup {Nobody}, NEW before \in {{}, {Nobody}},
         libraryOwner' = [l \in Shelf |->
           IF l \in relay[r].library /\ libraryOwner[l] = before THEN {owner}
           ELSE libraryOwner[l]],
         UNCHANGED deviceOwner,
         to = "library" => relay[r].phase = "checked" /\ owner = Nobody /\ before = {},
         to = "stamped" => relay[r].phase = "device" /\ owner = relay[r].as
                           /\ owner # Nobody /\ before = {Nobody}
  PROVE  AccountsInv'
<1>1. libraryOwner' \in [Shelf -> Owners]
  BY DEF AccountsInv, AccountTypes, Owners
<1>2. /\ AccountTypes' /\ EnabledHaveAccounts' /\ CountIsCurrent' /\ OneAdmin'
      /\ Users' = Users
      /\ \A q \in Registering \ {r} : relay'[q] = relay[q]
      /\ relay'[r].library = relay[r].library /\ relay'[r].as = relay[r].as
      /\ relay'[r].phase = to
  <2>1. libraryOwner' \in [Shelf -> Owners] /\ deviceOwner' \in [Registering -> Owners]
    BY <1>1 DEF AccountsInv, AccountTypes
  <2> QED
    BY <2>1, MoveKeeps
<1>3. OrphanDevices' = OrphanDevices /\ Orphans' \subseteq Orphans \cup relay[r].library
  BY DEF Orphans, OrphanDevices
<1>4. loose \subseteq loose' /\ r \in UnfinishedRequests
  BY DEF Moves
<1>5. /\ relay[r].library \subseteq Shelf
      /\ \A l \in Shelf : libraryOwner[l] # {} => libraryOwner'[l] # {}
      /\ \A l \in relay[r].library : libraryOwner'[l] # {} \/ libraryOwner[l] = {}
  BY DEF AccountsInv, AccountTypes
<1>6. ASSUME NEW l \in Shelf, libraryOwner[l] # {}, l \notin Orphans
      PROVE  l \notin Orphans'
  <2>1. libraryOwner[l] # {Nobody}
    BY <1>6 DEF Orphans
  <2> QED
    BY <1>6, <2>1 DEF Orphans
<1>7. to = "library" => \A l \in relay[r].library : libraryOwner'[l] # {}
  BY <1>5
<1>8. to = "stamped" =>
        \A l \in relay[r].library : libraryOwner[l] # {} /\ l \notin Orphans'
  <2> SUFFICES ASSUME to = "stamped", NEW l \in relay[r].library
               PROVE  libraryOwner[l] # {} /\ l \notin Orphans'
    OBVIOUS
  <2>1. l \in Shelf /\ libraryOwner[l] # {}
    BY <1>5 DEF AccountsInv, Progressed
  <2>2. CASE libraryOwner[l] = {Nobody}
    BY <2>1, <2>2 DEF Orphans
  <2>3. CASE libraryOwner[l] # {Nobody}
    BY <2>1, <2>3 DEF Orphans
  <2> QED
    BY <2>1, <2>2, <2>3
<1>9. Progressed'
  <2> SUFFICES ASSUME NEW q \in Registering
               PROVE  /\ relay'[q].phase = "new" => relay'[q].library = {}
                      /\ relay'[q].phase # "new" => \E l \in Shelf : relay'[q].library = {l}
                      /\ relay'[q].phase \in {"library", "verifier", "device"} =>
                           \A l \in relay'[q].library : libraryOwner'[l] # {}
                      /\ relay'[q].phase = "stamped" =>
                           /\ relay'[q].as # Nobody
                           /\ \A l \in relay'[q].library :
                                libraryOwner'[l] # {} /\ l \notin Orphans'
                      /\ q \in OrphanDevices' => relay'[q].phase \in {"device", "stamped", "done"}
    BY DEF Progressed
  <2>1. CASE q = r
    BY <1>2, <1>3, <1>5, <1>7, <1>8, <2>1 DEF AccountsInv, Progressed
  <2>2. CASE q # r
    <3>1. relay[q].library \subseteq Shelf /\ relay'[q] = relay[q]
      BY <1>2, <2>2 DEF AccountsInv, AccountTypes
    <3> QED
      BY <1>3, <1>5, <1>6, <3>1 DEF AccountsInv, Progressed
  <2> QED
    BY <2>1, <2>2
<1>10. NobodyIsLoose' /\ NothingOrphaned'
  BY <1>2, <1>3, <1>4, Witness
<1> QED
  BY <1>2, <1>9, <1>10 DEF AccountsInv

\* What it does to its device.
LEMMA DeviceMove ==
  ASSUME AccountsInv, NEW r \in Registering, NEW to \in {"device", "done"}, Moves(r, to),
         NEW owner \in User \cup {Nobody},
         deviceOwner' = [deviceOwner EXCEPT ![r] = {owner}], UNCHANGED libraryOwner,
         to = "device" => relay[r].phase \in {"library", "verifier"},
         to = "done" => relay[r].phase = "stamped" /\ owner # Nobody
  PROVE  AccountsInv'
<1>1. deviceOwner' \in [Registering -> Owners]
  BY DEF AccountsInv, AccountTypes, Owners
<1>2. /\ AccountTypes' /\ EnabledHaveAccounts' /\ CountIsCurrent' /\ OneAdmin'
      /\ Users' = Users
      /\ \A q \in Registering \ {r} : relay'[q] = relay[q]
      /\ relay'[r].library = relay[r].library /\ relay'[r].as = relay[r].as
      /\ relay'[r].phase = to
  <2>1. libraryOwner' \in [Shelf -> Owners] /\ deviceOwner' \in [Registering -> Owners]
    BY <1>1 DEF AccountsInv, AccountTypes
  <2> QED
    BY <2>1, MoveKeeps
<1>3. /\ Orphans' = Orphans /\ OrphanDevices' \subseteq OrphanDevices \cup {r}
      /\ to = "done" => r \notin OrphanDevices'
  <2>1. to = "done" => deviceOwner'[r] # {Nobody}
    BY DEF AccountsInv, AccountTypes
  <2> QED
    BY <2>1 DEF Orphans, OrphanDevices, AccountsInv, AccountTypes
<1>4. loose \subseteq loose' /\ r \in UnfinishedRequests
  BY DEF Moves
<1>5. Progressed'
  BY <1>2, <1>3, <1>4 DEF AccountsInv, Progressed, UnfinishedRequests
<1>6. to = "done" => \A l \in relay[r].library : l \notin Orphans'
  BY <1>3 DEF AccountsInv, Progressed
<1>7. NobodyIsLoose' /\ NothingOrphaned'
  BY <1>2, <1>3, <1>4, <1>6, Witness
<1> QED
  BY <1>2, <1>5, <1>7 DEF AccountsInv

\* The statements of a registration, each committed by itself.
LEMMA RequestStep ==
  ASSUME AccountsInv, NEW r \in Registering,
         \/ MakeLibrary(r) \/ MakeVerifier(r) \/ MakeDevice(r) \/ StampLibrary(r)
         \/ StampDevice(r) \/ StampsNothing(r) \/ RequestDies(r)
  PROVE  AccountsInv'
<1>1. relay[r].as \in User \cup {Nobody} /\ Nobody \notin User /\ enabled \subseteq User
  BY AccountsAssumption DEF AccountsInv, AccountTypes
<1>2. \A p \in {"checked", "library", "verifier", "device", "stamped"} :
        relay[r].phase = p => r \in UnfinishedRequests
  BY DEF UnfinishedRequests
<1>3. CASE MakeLibrary(r)
  <2>1. /\ Moves(r, "library") /\ relay[r].phase = "checked"
        /\ libraryOwner' = [l \in Shelf |->
             IF l \in relay[r].library /\ libraryOwner[l] = {} THEN {Nobody}
             ELSE libraryOwner[l]]
        /\ UNCHANGED deviceOwner
    BY <1>2, <1>3 DEF MakeLibrary, Step, Moves
  <2> QED
    BY <2>1, LibraryMove
<1>4. CASE MakeVerifier(r)
  <2>1. /\ relay[r].phase = "library" /\ UNCHANGED <<libraryOwner, deviceOwner>>
        /\ Moves(r, "verifier") \/ (Moves(r, "done") /\ r \in loose')
    BY <1>2, <1>4 DEF MakeVerifier, Moves
  <2> QED
    BY <2>1, PlainMove
<1>5. CASE MakeDevice(r)
  <2>1. /\ Moves(r, "device") /\ relay[r].phase \in {"library", "verifier"}
        /\ deviceOwner' = [deviceOwner EXCEPT ![r] = {Nobody}] /\ UNCHANGED libraryOwner
    BY <1>2, <1>5 DEF MakeDevice, Step, Moves
  <2> QED
    BY <2>1, DeviceMove
<1>6. CASE StampLibrary(r)
  <2>1. /\ Moves(r, "stamped") /\ relay[r].phase = "device" /\ relay[r].as \in User
        /\ libraryOwner' = [l \in Shelf |->
             IF l \in relay[r].library /\ libraryOwner[l] = {Nobody} THEN {relay[r].as}
             ELSE libraryOwner[l]]
        /\ UNCHANGED deviceOwner
    BY <1>1, <1>2, <1>6 DEF StampLibrary, Step, Moves
  <2> QED
    BY <1>1, <2>1, LibraryMove
<1>7. CASE StampDevice(r)
  <2>1. /\ Moves(r, "done") /\ relay[r].phase = "stamped"
        /\ deviceOwner' = [deviceOwner EXCEPT ![r] = {relay[r].as}] /\ UNCHANGED libraryOwner
    BY <1>2, <1>7 DEF StampDevice, Step, Moves
  <2>2. relay[r].as # Nobody
    BY <2>1 DEF AccountsInv, Progressed
  <2> QED
    BY <1>1, <2>1, <2>2, DeviceMove
<1>8. CASE StampsNothing(r)
  <2>1. /\ Moves(r, "done") /\ UNCHANGED <<libraryOwner, deviceOwner>>
        /\ relay[r].as # Nobody => r \in loose'
        /\ loose \subseteq loose'
    BY <1>2, <1>8 DEF StampsNothing, Step, Moves
  <2>2. r \in loose' \/ Users = {}
    BY <2>1 DEF AccountsInv, NobodyIsLoose, Moves
  <2> QED
    BY <2>1, <2>2, PlainMove
<1>9. CASE RequestDies(r)
  <2>1. r \in UnfinishedRequests
    BY <1>9 DEF RequestDies, UnfinishedRequests
  <2>2. /\ Moves(r, "done") /\ UNCHANGED <<libraryOwner, deviceOwner>>
        /\ r \in loose' \/ Users = {}
    BY <1>9, <2>1 DEF RequestDies, Moves
  <2> QED
    BY <2>2, PlainMove
<1> QED
  BY <1>3, <1>4, <1>5, <1>6, <1>7, <1>8, <1>9

(***************************************************************************)
(* The inductive invariant of the accounts and what they own.              *)
(***************************************************************************)
THEOREM AccountsInvariant == AccountsSpec => []AccountsInv
<1>1. AccountsInit => AccountsInv
  BY AccountsInitInv
<1>2. AccountsInv /\ [AccountsNext]_accountsVars => AccountsInv'
  <2> SUFFICES ASSUME AccountsInv, [AccountsNext]_accountsVars PROVE AccountsInv'
    OBVIOUS
  <2>1. CASE UNCHANGED accountsVars
    <3>1. AccountTypes' /\ EnabledHaveAccounts' /\ CountIsCurrent' /\ OneAdmin'
      BY <2>1 DEF accountsVars, AccountsInv, AccountTypes, EnabledHaveAccounts, CountIsCurrent,
                  OneAdmin, Users
    <3>2. Progressed'
      BY <2>1 DEF accountsVars, AccountsInv, Progressed, Orphans, OrphanDevices
    <3>3. NobodyIsLoose' /\ NothingOrphaned'
      BY <2>1 DEF accountsVars, AccountsInv, NobodyIsLoose, NothingOrphaned, Users, Orphans,
                  OrphanDevices, UnfinishedRequests
    <3> QED
      BY <3>1, <3>2, <3>3 DEF AccountsInv
  <2>2. CASE AccountsNext
    BY <2>2, SignupReadStep, SignupCommitStep, AdminStep, CheckStep, RequestStep
       DEF AccountsNext
  <2> QED
    BY <2>1, <2>2
<1> QED
  BY <1>1, <1>2, PTL DEF AccountsSpec

(***************************************************************************)
(* account_signup and set_user_status: however signups overlap, there is   *)
(* one administrator, and it is enabled.                                   *)
(***************************************************************************)
THEOREM OneAdministrator == AccountsSpec => []OneAdmin
<1>1. AccountsInv => OneAdmin
  BY DEF AccountsInv
<1> QED
  BY <1>1, AccountsInvariant, PTL

(***************************************************************************)
(* The first signup adopts what has no owner; what has none afterwards is  *)
(* owed to a request that nothing bound to one.                            *)
(***************************************************************************)
THEOREM AdoptionIsComplete == AccountsSpec => []NothingOrphaned
<1>1. AccountsInv => NothingOrphaned
  BY DEF AccountsInv
<1> QED
  BY <1>1, AccountsInvariant, PTL

(***************************************************************************)
(* However account_signup, set_user_status and register interleave, there  *)
(* is one administrator, and nothing that no request owes is left without  *)
(* an owner.                                                               *)
(***************************************************************************)
THEOREM AccountsStaySound == AccountsSpec => []AccountsAreSound
<1>1. AccountsInv => AccountsAreSound
  BY DEF AccountsInv, AccountsAreSound
<1> QED
  BY <1>1, AccountsInvariant, PTL

-----------------------------------------------------------------------------
(* Devices: the inductive invariant, in parts. *)

CallRecord ==
  [kind : {"none", "enrolling", "enroll", "decide", "revoke", "session", "remove", "delete"},
   on : SUBSET Device, approve : BOOLEAN, peers : BOOLEAN, current : BOOLEAN]

DeviceTypes ==
  /\ device \in [Device -> {"absent", "pending", "active", "rejected", "gone"}]
  /\ tokens \subseteq Device
  /\ call \in [Call -> CallRecord]
  /\ strict \subseteq Device /\ approved \subseteq Device /\ contested \subseteq Device
  /\ decided \in [Device -> Nat] /\ approvals \in BOOLEAN

\* A transaction that may still write knows whether another device is active.
PeersAreCurrent ==
  \A k \in Call : call[k].kind = "enroll" /\ call[k].current =>
    (call[k].peers <=> ActiveDevices # {})

\* Nobody was asked, and only one of them is active.
Unapproved == (ActiveDevices \cap strict) \ approved
LoneUnapproved == \A d, e \in Unapproved : d = e

\* A device that has not enrolled is not among the enrolled ones.
AbsentIsNew ==
  \A d \in Device : device[d] \in {"absent", "pending"} => decided[d] = 0 /\ d \notin tokens

AbsentNotStrict == \A d \in Device : device[d] = "absent" => d \notin strict

\* Decisions and sessions in progress, of a device that is decided once.
SingleDecision ==
  \A d \in Device \ contested :
    /\ \A j, k \in Deciding(d) : j = k
    /\ Deciding(d) # {} => device[d] \in {"pending", "gone"} /\ decided[d] = 0
    /\ decided[d] <= 1
    /\ device[d] = "rejected" => d \notin tokens
    /\ \A k \in Call : call[k].kind = "session" /\ call[k].on = {d} =>
         device[d] \in {"active", "gone"}

\* A call that is about a device names one.
OneDevice ==
  \A k \in Call : call[k].kind \in {"decide", "revoke", "session", "remove", "delete"} =>
    \E d \in Device : call[k].on = {d}

\* A session is only issued for a device that was active.
SessionsKnown ==
  \A k \in Call : call[k].kind = "session" =>
    \A d \in call[k].on : device[d] \notin {"absent", "pending"}

SignedOut ==
  /\ slipped \subseteq tokens
  /\ ~active => tokens \subseteq slipped \cup (IF disabling = "no" THEN {} ELSE held)

DevicesInv ==
  /\ DeviceTypes /\ PeersAreCurrent /\ LoneUnapproved /\ AbsentIsNew /\ AbsentNotStrict
  /\ SingleDecision /\ OneDevice /\ SessionsKnown /\ SignedOut

-----------------------------------------------------------------------------

\* Initially there is no device and no call.
LEMMA DevicesInitInv == DevicesInit => DevicesInv
<1> SUFFICES ASSUME DevicesInit PROVE DevicesInv
  OBVIOUS
<1>1. NoCall \in CallRecord /\ NoCall.kind = "none"
  BY DEF NoCall, CallRecord
<1>2. \A k \in Call : call[k].kind = "none"
  BY <1>1 DEF DevicesInit
<1>3. \A d \in Device : device[d] = "absent" /\ Deciding(d) = {}
  BY <1>2 DEF DevicesInit, Deciding
<1>4. DeviceTypes
  BY <1>1 DEF DevicesInit, DeviceTypes
<1>5. PeersAreCurrent /\ OneDevice /\ SessionsKnown
  BY <1>2 DEF PeersAreCurrent, OneDevice, SessionsKnown
<1>6. LoneUnapproved /\ AbsentIsNew /\ AbsentNotStrict /\ SignedOut
  BY <1>3 DEF DevicesInit, LoneUnapproved, Unapproved, AbsentIsNew, AbsentNotStrict, SignedOut
<1>7. SingleDecision
  BY <1>2, <1>3 DEF DevicesInit, SingleDecision
<1> QED
  BY <1>4, <1>5, <1>6, <1>7 DEF DevicesInv

(***************************************************************************)
(* What becomes of the calls: those that wait lose their snapshot when     *)
(* another writes; everything else about them stays.                       *)
(***************************************************************************)
LEMMA CallsAfterWrite ==
  ASSUME DeviceTypes
  PROVE  /\ OutdatedCalls \in [Call -> CallRecord]
         /\ \A k \in Call : /\ OutdatedCalls[k].kind = call[k].kind
                            /\ OutdatedCalls[k].on = call[k].on
                            /\ ~OutdatedCalls[k].current
<1>1. \A k \in Call : call[k] \in CallRecord
  BY DEF DeviceTypes
<1> QED
  BY <1>1 DEF OutdatedCalls, CallRecord

\* A call that has written goes on or ends, and every other call is outdated.
LEMMA WroteCalls ==
  ASSUME DevicesInv, NEW k \in Call, NEW c \in CallRecord, Wrote(k, c),
         c.kind \in {"none", "revoke", "delete"},
         c.kind # "none" => c.on = call[k].on
                            /\ call[k].kind \in {"decide", "revoke", "session", "remove", "delete"}
  PROVE  /\ call' \in [Call -> CallRecord] /\ PeersAreCurrent' /\ OneDevice'
         /\ \A j \in Call \ {k} : call'[j].kind = call[j].kind /\ call'[j].on = call[j].on
         /\ call'[k].kind = c.kind
<1>1. /\ OutdatedCalls \in [Call -> CallRecord]
      /\ \A j \in Call : /\ OutdatedCalls[j].kind = call[j].kind
                         /\ OutdatedCalls[j].on = call[j].on
                         /\ ~OutdatedCalls[j].current
  BY CallsAfterWrite DEF DevicesInv
<1>2. /\ call' \in [Call -> CallRecord] /\ call'[k] = c
      /\ \A j \in Call \ {k} : call'[j] = OutdatedCalls[j]
  BY <1>1 DEF Wrote
<1>3. PeersAreCurrent'
  BY <1>1, <1>2 DEF PeersAreCurrent
<1>4. OneDevice'
  BY <1>1, <1>2 DEF DevicesInv, OneDevice
<1> QED
  BY <1>1, <1>2, <1>3, <1>4

(***************************************************************************)
(* Steps that leave the devices as they are and start no decision and no   *)
(* session; they may end sessions.                                         *)
(***************************************************************************)
LEMMA QuietStep ==
  ASSUME DevicesInv, UNCHANGED <<device, strict, approved, decided, contested>>,
         tokens' \subseteq tokens, approvals' \in BOOLEAN, call' \in [Call -> CallRecord],
         \A k \in Call : call'[k].kind \in {"decide", "session"} =>
           call'[k].kind = call[k].kind /\ call'[k].on = call[k].on
  PROVE  /\ DeviceTypes' /\ LoneUnapproved' /\ AbsentIsNew' /\ AbsentNotStrict'
         /\ SingleDecision' /\ SessionsKnown'
<1>1. DeviceTypes'
  BY DEF DevicesInv, DeviceTypes
<1>2. ActiveDevices' = ActiveDevices
  BY DEF ActiveDevices
<1>3. LoneUnapproved'
  BY <1>2 DEF DevicesInv, LoneUnapproved, Unapproved
<1>4. AbsentIsNew' /\ AbsentNotStrict'
  BY DEF DevicesInv, AbsentIsNew, AbsentNotStrict
<1>5. SessionsKnown'
  BY DEF DevicesInv, SessionsKnown
<1>6. \A d \in Device : Deciding(d)' \subseteq Deciding(d)
  BY DEF Deciding
<1>7. SingleDecision'
  <2> SUFFICES ASSUME NEW d \in Device \ contested
      PROVE /\ \A j, k \in Deciding(d)' : j = k
            /\ Deciding(d)' # {} => device[d] \in {"pending", "gone"} /\ decided[d] = 0
            /\ decided[d] <= 1
            /\ device[d] = "rejected" => d \notin tokens'
            /\ \A k \in Call : call'[k].kind = "session" /\ call'[k].on = {d} =>
                 device[d] \in {"active", "gone"}
    BY DEF SingleDecision
  <2> QED
    BY <1>6 DEF DevicesInv, SingleDecision
<1> QED
  BY <1>1, <1>3, <1>4, <1>5, <1>7

(***************************************************************************)
(* A device that is deleted: no decision and no session counts for it any  *)
(* more, and there are only fewer active ones.                             *)
(***************************************************************************)
LEMMA GoneStep ==
  ASSUME DevicesInv, UNCHANGED <<tokens, strict, approved, decided, contested>>,
         NEW g \in Device, device' = [device EXCEPT ![g] = "gone"],
         approvals' \in BOOLEAN, call' \in [Call -> CallRecord],
         \A k \in Call : call'[k].kind \in {"decide", "session"} =>
           call'[k].kind = call[k].kind /\ call'[k].on = call[k].on
  PROVE  /\ DeviceTypes' /\ LoneUnapproved' /\ AbsentIsNew' /\ AbsentNotStrict'
         /\ SingleDecision' /\ SessionsKnown'
<1>1. DeviceTypes' /\ \A d \in Device : device'[d] = IF d = g THEN "gone" ELSE device[d]
  BY DEF DevicesInv, DeviceTypes
<1>2. ActiveDevices' \subseteq ActiveDevices
  BY <1>1 DEF ActiveDevices
<1>3. LoneUnapproved'
  BY <1>2 DEF DevicesInv, LoneUnapproved, Unapproved
<1>4. AbsentIsNew' /\ AbsentNotStrict'
  BY <1>1 DEF DevicesInv, AbsentIsNew, AbsentNotStrict
<1>5. SessionsKnown'
  BY <1>1 DEF DevicesInv, SessionsKnown, DeviceTypes, CallRecord
<1>6. \A d \in Device : Deciding(d)' \subseteq Deciding(d)
  BY DEF Deciding
<1>7. SingleDecision'
  <2> SUFFICES ASSUME NEW d \in Device \ contested
      PROVE /\ \A j, k \in Deciding(d)' : j = k
            /\ Deciding(d)' # {} => device'[d] \in {"pending", "gone"} /\ decided[d] = 0
            /\ decided[d] <= 1
            /\ device'[d] = "rejected" => d \notin tokens
            /\ \A k \in Call : call'[k].kind = "session" /\ call'[k].on = {d} =>
                 device'[d] \in {"active", "gone"}
    BY DEF SingleDecision
  <2> QED
    BY <1>1, <1>6 DEF DevicesInv, SingleDecision
<1> QED
  BY <1>1, <1>3, <1>4, <1>5, <1>7

\* A call that arrives or reads, or that fails, when it is not a decision.
LEMMA CallStep ==
  ASSUME DevicesInv, NEW k \in Call, NEW c \in CallRecord,
         call' = [call EXCEPT ![k] = c],
         UNCHANGED <<device, tokens, approvals, active, disabling, devicesHistory>>,
         c.kind \in {"none", "enrolling", "enroll", "remove"},
         c.kind = "remove" => \E d \in Device : c.on = {d},
         c.kind = "enroll" => (c.peers <=> ActiveDevices # {})
  PROVE  DevicesInv'
<1>1. /\ call' \in [Call -> CallRecord] /\ call'[k] = c
      /\ \A j \in Call \ {k} : call'[j] = call[j]
  BY DEF DevicesInv, DeviceTypes
<1>2. ActiveDevices' = ActiveDevices
  BY DEF ActiveDevices
<1>3. PeersAreCurrent'
  BY <1>1, <1>2 DEF DevicesInv, PeersAreCurrent
<1>4. OneDevice'
  BY <1>1 DEF DevicesInv, OneDevice
<1>5. SignedOut'
  BY DEF DevicesInv, SignedOut, devicesHistory
<1>6. \A j \in Call : call'[j].kind \in {"decide", "session"} =>
        call'[j].kind = call[j].kind /\ call'[j].on = call[j].on
  BY <1>1
<1>7. /\ UNCHANGED <<device, tokens, strict, approved, decided, contested>>
      /\ approvals' \in BOOLEAN
  BY DEF devicesHistory, DevicesInv, DeviceTypes
<1> QED
  BY <1>1, <1>3, <1>4, <1>5, <1>6, <1>7, QuietStep DEF DevicesInv

\* The steps of the calls that only read.
LEMMA ReadStep ==
  ASSUME DevicesInv, NEW k \in Call,
         \/ EnrollArrives(k) \/ EnrollRead(k) \/ CallFails(k)
         \/ \E d \in Device : RemoveRead(k, d)
  PROVE  DevicesInv'
<1>1. CASE EnrollArrives(k)
  <2> DEFINE c == [NoCall EXCEPT !.kind = "enrolling"]
  <2>1. c \in CallRecord /\ c.kind = "enrolling"
    BY DEF CallRecord, NoCall
  <2>2. /\ call' = [call EXCEPT ![k] = c]
        /\ UNCHANGED <<device, tokens, approvals, active, disabling, devicesHistory>>
    BY <1>1 DEF EnrollArrives, Arrives
  <2> HIDE DEF c
  <2> QED
    BY <2>1, <2>2, CallStep
<1>2. CASE EnrollRead(k)
  <2> DEFINE c == [NoCall EXCEPT !.kind = "enroll", !.peers = ActiveDevices # {},
                                 !.approve = approvals, !.current = TRUE]
  <2>1. c \in CallRecord /\ c.kind = "enroll" /\ (c.peers <=> ActiveDevices # {})
    BY DEF CallRecord, NoCall, DevicesInv, DeviceTypes
  <2>2. /\ call' = [call EXCEPT ![k] = c]
        /\ UNCHANGED <<device, tokens, approvals, active, disabling, devicesHistory>>
    BY <1>2 DEF EnrollRead
  <2> HIDE DEF c
  <2> QED
    BY <2>1, <2>2, CallStep
<1>3. CASE CallFails(k)
  <2>1. NoCall \in CallRecord /\ NoCall.kind = "none"
    BY DEF CallRecord, NoCall
  <2>2. /\ call' = [call EXCEPT ![k] = NoCall]
        /\ UNCHANGED <<device, tokens, approvals, active, disabling, devicesHistory>>
    BY <1>3 DEF CallFails
  <2> QED
    BY <2>1, <2>2, CallStep
<1>4. ASSUME NEW d \in Device, RemoveRead(k, d) PROVE DevicesInv'
  <2> DEFINE c == [NoCall EXCEPT !.kind = "remove", !.on = {d}]
  <2>1. c \in CallRecord /\ c.kind = "remove" /\ c.on = {d}
    BY DEF CallRecord, NoCall
  <2>2. /\ call' = [call EXCEPT ![k] = c]
        /\ UNCHANGED <<device, tokens, approvals, active, disabling, devicesHistory>>
    BY <1>4 DEF RemoveRead, Arrives
  <2> HIDE DEF c
  <2> QED
    BY <2>1, <2>2, CallStep
<1> QED
  BY <1>1, <1>2, <1>3, <1>4

\* A decision or a session that begins.
LEMMA BeginStep ==
  ASSUME DevicesInv, NEW k \in Call, NEW d \in Device,
         SessionRead(k, d) \/ \E approve \in BOOLEAN : DecideRead(k, d, approve)
  PROVE  DevicesInv'
<1>1. PICK c \in CallRecord :
        /\ call' = [call EXCEPT ![k] = c] /\ call[k] = NoCall /\ c.on = {d}
        /\ UNCHANGED <<device, tokens, approvals, active, disabling, strict, approved,
                       decided, slipped, held>>
        /\ \/ c.kind = "session" /\ device[d] = "active" /\ contested' = contested
           \/ /\ c.kind = "decide" /\ device[d] = "pending"
              /\ contested' = IF Deciding(d) # {} THEN contested \cup {d} ELSE contested
  <2>1. CASE SessionRead(k, d)
    <3> DEFINE c == [NoCall EXCEPT !.kind = "session", !.on = {d}]
    <3>1. c \in CallRecord /\ c.kind = "session" /\ c.on = {d}
      BY DEF CallRecord, NoCall
    <3>2. /\ call' = [call EXCEPT ![k] = c] /\ call[k] = NoCall /\ device[d] = "active"
          /\ UNCHANGED <<device, tokens, approvals, active, disabling, devicesHistory>>
      BY <2>1 DEF SessionRead, Arrives
    <3> HIDE DEF c
    <3> QED
      BY <3>1, <3>2 DEF devicesHistory
  <2>2. ASSUME NEW approve \in BOOLEAN, DecideRead(k, d, approve)
        PROVE  \E c \in CallRecord :
                 /\ call' = [call EXCEPT ![k] = c] /\ call[k] = NoCall /\ c.on = {d}
                 /\ UNCHANGED <<device, tokens, approvals, active, disabling, strict,
                                approved, decided, slipped, held>>
                 /\ c.kind = "decide" /\ device[d] = "pending"
                 /\ contested' = IF Deciding(d) # {} THEN contested \cup {d} ELSE contested
    <3> DEFINE c == [NoCall EXCEPT !.kind = "decide", !.on = {d}, !.approve = approve]
    <3>1. c \in CallRecord /\ c.kind = "decide" /\ c.on = {d}
      BY DEF CallRecord, NoCall
    <3>2. /\ call' = [call EXCEPT ![k] = c] /\ call[k] = NoCall /\ device[d] = "pending"
          /\ contested' = IF Deciding(d) # {} THEN contested \cup {d} ELSE contested
          /\ UNCHANGED <<device, tokens, approvals, active, disabling, strict, approved,
                         decided, slipped, held>>
      BY <2>2 DEF DecideRead, Arrives
    <3> HIDE DEF c
    <3> QED
      BY <3>1, <3>2
  <2> QED
    BY <2>1, <2>2
<1>2. /\ call' \in [Call -> CallRecord] /\ call'[k] = c
      /\ \A j \in Call \ {k} : call'[j] = call[j]
  BY <1>1 DEF DevicesInv, DeviceTypes
<1>3. ActiveDevices' = ActiveDevices /\ call[k].kind = "none"
  BY <1>1 DEF ActiveDevices, NoCall
<1>4. DeviceTypes' /\ LoneUnapproved' /\ AbsentIsNew' /\ AbsentNotStrict' /\ SignedOut'
  BY <1>1, <1>2, <1>3
     DEF DevicesInv, DeviceTypes, LoneUnapproved, Unapproved, AbsentIsNew, AbsentNotStrict,
         SignedOut
<1>5. PeersAreCurrent'
  BY <1>1, <1>2, <1>3 DEF DevicesInv, PeersAreCurrent
<1>6. OneDevice'
  BY <1>1, <1>2 DEF DevicesInv, OneDevice
<1>7. SessionsKnown'
  BY <1>1, <1>2 DEF DevicesInv, SessionsKnown
<1>8. /\ contested \subseteq contested'
      /\ \A e \in Device \ {d} : Deciding(e)' \subseteq Deciding(e)
      /\ Deciding(d)' \subseteq Deciding(d) \cup {k}
      /\ c.kind = "session" => Deciding(d)' \subseteq Deciding(d)
  BY <1>1, <1>2 DEF Deciding
<1>9. SingleDecision'
  <2> SUFFICES ASSUME NEW e \in Device \ contested'
      PROVE /\ \A i, j \in Deciding(e)' : i = j
            /\ Deciding(e)' # {} => device[e] \in {"pending", "gone"} /\ decided[e] = 0
            /\ decided[e] <= 1
            /\ device[e] = "rejected" => e \notin tokens
            /\ \A j \in Call : call'[j].kind = "session" /\ call'[j].on = {e} =>
                 device[e] \in {"active", "gone"}
    BY <1>1 DEF SingleDecision
  <2>1. e \in Device \ contested
    BY <1>8
  <2>2. /\ \A i, j \in Deciding(e) : i = j
        /\ Deciding(e) # {} => device[e] \in {"pending", "gone"} /\ decided[e] = 0
        /\ decided[e] <= 1
        /\ device[e] = "rejected" => e \notin tokens
        /\ \A j \in Call : call[j].kind = "session" /\ call[j].on = {e} =>
             device[e] \in {"active", "gone"}
    BY <2>1 DEF DevicesInv, SingleDecision
  <2>3. \A j \in Call : call'[j].kind = "session" /\ call'[j].on = {e} =>
          device[e] \in {"active", "gone"}
    BY <1>1, <1>2, <2>2
  <2>4. CASE e # d \/ c.kind = "session"
    <3>1. Deciding(e)' \subseteq Deciding(e)
      BY <1>8, <2>4
    <3> QED
      BY <2>2, <2>3, <3>1
  <2>5. CASE e = d /\ c.kind = "decide"
    <3>1. Deciding(d) = {} /\ device[d] = "pending"
      BY <1>1, <2>5
    <3>2. decided[d] = 0
      BY <3>1 DEF DevicesInv, AbsentIsNew
    <3> QED
      BY <1>8, <2>2, <2>3, <2>5, <3>1, <3>2
  <2> QED
    BY <1>1, <2>4, <2>5
<1> QED
  BY <1>4, <1>5, <1>6, <1>7, <1>9 DEF DevicesInv

(***************************************************************************)
(* enroll_device: a transaction that is still current knows the active     *)
(* devices, so it lets one in unapproved only if there are none.           *)
(***************************************************************************)
LEMMA EnrollStep ==
  ASSUME DevicesInv, NEW k \in Call, NEW d \in Device, EnrollCommit(k, d)
  PROVE  DevicesInv'
<1> DEFINE pending == call[k].approve /\ call[k].peers
<1>1. /\ call[k].kind = "enroll" /\ call[k].current /\ device[d] = "absent"
      /\ device' = [device EXCEPT ![d] = IF pending THEN "pending" ELSE "active"]
      /\ tokens' = IF pending THEN tokens ELSE tokens \cup {d}
      /\ slipped' = IF active \/ pending THEN slipped ELSE slipped \cup {d}
      /\ strict' = IF call[k].approve THEN strict \cup {d} ELSE strict
      /\ UNCHANGED <<approvals, active, disabling, approved, decided, contested, held>>
      /\ Wrote(k, NoCall)
  BY DEF EnrollCommit
<1>2. NoCall \in CallRecord /\ NoCall.kind = "none"
  BY DEF NoCall, CallRecord
<1>3. /\ call' \in [Call -> CallRecord] /\ PeersAreCurrent' /\ OneDevice'
      /\ \A j \in Call \ {k} : call'[j].kind = call[j].kind /\ call'[j].on = call[j].on
      /\ call'[k].kind = "none"
  BY <1>1, <1>2, WroteCalls
<1>4. call[k].peers <=> ActiveDevices # {}
  BY <1>1 DEF DevicesInv, PeersAreCurrent
<1>5. \A e \in Device : device'[e] = IF e = d THEN (IF pending THEN "pending" ELSE "active")
                                     ELSE device[e]
  BY <1>1 DEF DevicesInv, DeviceTypes
<1>6. DeviceTypes'
  <2>1. device' \in [Device -> {"absent", "pending", "active", "rejected", "gone"}]
    BY <1>1 DEF DevicesInv, DeviceTypes
  <2>2. tokens' \subseteq Device /\ strict' \subseteq Device
    BY <1>1 DEF DevicesInv, DeviceTypes
  <2> QED
    BY <1>1, <1>3, <2>1, <2>2 DEF DevicesInv, DeviceTypes
<1>7. LoneUnapproved'
  <2>1. CASE pending \/ ~call[k].approve
    <3>1. d \notin Unapproved'
      <4>1. CASE pending
        BY <1>5, <4>1 DEF Unapproved, ActiveDevices
      <4>2. CASE ~call[k].approve
        BY <1>1, <4>2 DEF Unapproved, DevicesInv, AbsentNotStrict
      <4> QED
        BY <2>1, <4>1, <4>2
    <3>2. \A e \in Unapproved' : e \in Unapproved
      BY <1>1, <1>5, <3>1 DEF Unapproved, ActiveDevices
    <3> QED
      BY <3>2 DEF DevicesInv, LoneUnapproved
  <2>2. CASE call[k].approve /\ ~call[k].peers
    <3>1. \A e \in Device : device'[e] = "active" => e = d
      BY <1>4, <1>5, <2>2 DEF ActiveDevices
    <3> QED
      BY <3>1 DEF LoneUnapproved, Unapproved, ActiveDevices
  <2> QED
    BY <2>1, <2>2
<1>8. AbsentIsNew' /\ AbsentNotStrict'
  <2>1. decided[d] = 0 /\ d \notin tokens
    BY <1>1 DEF DevicesInv, AbsentIsNew
  <2>2. AbsentIsNew'
    BY <1>1, <1>5, <2>1 DEF DevicesInv, AbsentIsNew
  <2>3. AbsentNotStrict'
    BY <1>1, <1>5 DEF DevicesInv, AbsentNotStrict
  <2> QED
    BY <2>2, <2>3
<1>9. SessionsKnown'
  <2>1. \A j \in Call : call[j].on \subseteq Device
    BY DEF DevicesInv, DeviceTypes, CallRecord
  <2>2. \A j \in Call : call[j].kind = "session" => d \notin call[j].on
    BY <1>1 DEF DevicesInv, SessionsKnown
  <2> QED
    BY <1>3, <1>5, <2>1, <2>2 DEF DevicesInv, SessionsKnown
<1>10. SingleDecision'
  <2>1. \A e \in Device : Deciding(e)' \subseteq Deciding(e)
    BY <1>3 DEF Deciding
  <2> SUFFICES ASSUME NEW e \in Device \ contested
      PROVE /\ \A i, j \in Deciding(e)' : i = j
            /\ Deciding(e)' # {} => device'[e] \in {"pending", "gone"} /\ decided[e] = 0
            /\ decided[e] <= 1
            /\ device'[e] = "rejected" => e \notin tokens'
            /\ \A j \in Call : call'[j].kind = "session" /\ call'[j].on = {e} =>
                 device'[e] \in {"active", "gone"}
    BY <1>1 DEF SingleDecision
  <2>2. /\ \A i, j \in Deciding(e) : i = j
        /\ Deciding(e) # {} => device[e] \in {"pending", "gone"} /\ decided[e] = 0
        /\ decided[e] <= 1
        /\ device[e] = "rejected" => e \notin tokens
        /\ \A j \in Call : call[j].kind = "session" /\ call[j].on = {e} =>
             device[e] \in {"active", "gone"}
    BY DEF DevicesInv, SingleDecision
  <2>3. \A j \in Call : call'[j].kind = "session" /\ call'[j].on = {e} =>
          call[j].kind = "session" /\ call[j].on = {e}
    BY <1>3
  <2>4. CASE e = d
    <3>1. Deciding(d)' = {} /\ device'[d] # "rejected"
      BY <1>1, <1>5, <2>1, <2>2, <2>4
    <3> QED
      BY <1>1, <2>2, <2>3, <2>4, <3>1
  <2>5. CASE e # d
    BY <1>1, <1>5, <2>1, <2>2, <2>3, <2>5
  <2> QED
    BY <2>4, <2>5
<1>11. SignedOut'
  <2>1. d \in tokens' \/ pending
    BY <1>1
  <2>2. CASE pending
    BY <1>1, <2>2 DEF DevicesInv, SignedOut
  <2>3. CASE ~pending
    BY <1>1, <2>3 DEF DevicesInv, SignedOut
  <2> QED
    BY <2>2, <2>3
<1> QED
  BY <1>3, <1>6, <1>7, <1>8, <1>9, <1>10, <1>11 DEF DevicesInv

(***************************************************************************)
(* approve_device writes what it has read as pending before: once, unless  *)
(* another decision had read it as well.                                   *)
(***************************************************************************)
LEMMA DecideWriteStep ==
  ASSUME DevicesInv, NEW k \in Call, DecideWrite(k)
  PROVE  DevicesInv'
<1>1. PICK d \in Device : call[k].kind = "decide" /\ call[k].on = {d}
  BY DEF DecideWrite, DevicesInv, OneDevice
<1> DEFINE c == IF call[k].approve THEN NoCall ELSE [call[k] EXCEPT !.kind = "revoke"]
           to == IF call[k].approve THEN "active" ELSE "rejected"
<1>2. /\ IF device[d] = "gone" THEN UNCHANGED <<device, decided, approved>>
         ELSE /\ device' = [device EXCEPT ![d] = to]
              /\ decided' = [decided EXCEPT ![d] = @ + 1]
              /\ approved' = IF call[k].approve THEN approved \cup {d} ELSE approved
      /\ Wrote(k, c)
      /\ UNCHANGED <<tokens, approvals, active, disabling, strict, contested, slipped, held>>
  BY <1>1 DEF DecideWrite
<1>3. c \in CallRecord /\ c.kind \in {"none", "revoke"} /\ (c.kind # "none" => c.on = call[k].on)
  BY DEF DevicesInv, DeviceTypes, CallRecord, NoCall
<1>4. /\ call' \in [Call -> CallRecord] /\ PeersAreCurrent' /\ OneDevice'
      /\ \A j \in Call \ {k} : call'[j].kind = call[j].kind /\ call'[j].on = call[j].on
      /\ call'[k].kind \in {"none", "revoke"}
  <2> HIDE DEF c
  <2> QED
    BY <1>1, <1>2, <1>3, WroteCalls
<1>5. \A e \in Device \ {d} : device'[e] = device[e] /\ decided'[e] = decided[e]
  BY <1>2 DEF DevicesInv, DeviceTypes
<1>6. device[d] # "gone" => /\ device'[d] = to /\ decided'[d] = decided[d] + 1
                            /\ (to = "active" => d \in approved')
  BY <1>2 DEF DevicesInv, DeviceTypes
<1>7. DeviceTypes'
  <2>1. device' \in [Device -> {"absent", "pending", "active", "rejected", "gone"}]
    BY <1>2 DEF DevicesInv, DeviceTypes
  <2>2. decided' \in [Device -> Nat]
    BY <1>2 DEF DevicesInv, DeviceTypes
  <2>3. approved' \subseteq Device
    BY <1>2 DEF DevicesInv, DeviceTypes
  <2> QED
    BY <1>2, <1>4, <2>1, <2>2, <2>3 DEF DevicesInv, DeviceTypes
<1>8. approved \subseteq approved'
  BY <1>2
<1>9. LoneUnapproved'
  <2>1. \A e \in Unapproved' : e \in Unapproved
    <3> SUFFICES ASSUME NEW e \in Unapproved' PROVE e \in Unapproved
      OBVIOUS
    <3>1. e \in Device /\ device'[e] = "active" /\ e \in strict /\ e \notin approved'
      BY <1>2 DEF Unapproved, ActiveDevices
    <3>2. device[e] = "active"
      <4>1. CASE e # d
        BY <1>5, <3>1, <4>1
      <4>2. CASE e = d /\ device[d] = "gone"
        BY <1>2, <3>1, <4>2
      <4>3. CASE e = d /\ device[d] # "gone"
        BY <1>6, <3>1, <4>3
      <4> QED
        BY <4>1, <4>2, <4>3
    <3> QED
      BY <1>8, <3>1, <3>2 DEF Unapproved, ActiveDevices
  <2> QED
    BY <2>1 DEF DevicesInv, LoneUnapproved
<1>10. \A e \in Device : device'[e] \in {"absent", "pending"} =>
         device[e] = device'[e] /\ decided'[e] = decided[e]
  BY <1>2, <1>5, <1>6
<1>11. AbsentIsNew' /\ AbsentNotStrict'
  BY <1>2, <1>10 DEF DevicesInv, AbsentIsNew, AbsentNotStrict
<1>12. SessionsKnown'
  <2>1. \A j \in Call : call[j].on \subseteq Device
    BY DEF DevicesInv, DeviceTypes, CallRecord
  <2> QED
    BY <1>4, <1>10, <2>1 DEF DevicesInv, SessionsKnown
<1>13. /\ \A e \in Device : Deciding(e)' \subseteq Deciding(e)
       /\ Deciding(d)' \subseteq Deciding(d) \ {k} /\ k \in Deciding(d)
  BY <1>1, <1>4 DEF Deciding
<1>14. SingleDecision'
  <2> SUFFICES ASSUME NEW e \in Device \ contested
      PROVE /\ \A i, j \in Deciding(e)' : i = j
            /\ Deciding(e)' # {} => device'[e] \in {"pending", "gone"} /\ decided'[e] = 0
            /\ decided'[e] <= 1
            /\ device'[e] = "rejected" => e \notin tokens
            /\ \A j \in Call : call'[j].kind = "session" /\ call'[j].on = {e} =>
                 device'[e] \in {"active", "gone"}
    BY <1>2 DEF SingleDecision
  <2>2. /\ \A i, j \in Deciding(e) : i = j
        /\ Deciding(e) # {} => device[e] \in {"pending", "gone"} /\ decided[e] = 0
        /\ decided[e] <= 1
        /\ device[e] = "rejected" => e \notin tokens
        /\ \A j \in Call : call[j].kind = "session" /\ call[j].on = {e} =>
             device[e] \in {"active", "gone"}
    BY DEF DevicesInv, SingleDecision
  <2>3. \A j \in Call : call'[j].kind = "session" /\ call'[j].on = {e} =>
          call[j].kind = "session" /\ call[j].on = {e}
    BY <1>4
  <2>4. CASE e = d
    <3>1. Deciding(d)' = {} /\ device[d] \in {"pending", "gone"} /\ decided[d] = 0
      BY <1>13, <2>2, <2>4
    <3>2. CASE device[d] = "gone"
      BY <1>2, <2>2, <2>3, <2>4, <3>1, <3>2
    <3>3. CASE device[d] = "pending"
      <4>1. d \notin tokens
        BY <3>3 DEF DevicesInv, AbsentIsNew
      <4>2. \A j \in Call : ~(call'[j].kind = "session" /\ call'[j].on = {d})
        BY <2>2, <2>3, <2>4, <3>3
      <4>3. decided'[d] = 1
        BY <1>6, <3>1, <3>3
      <4> QED
        BY <2>4, <3>1, <4>1, <4>2, <4>3
    <3> QED
      BY <3>1, <3>2, <3>3
  <2>5. CASE e # d
    BY <1>5, <1>13, <2>2, <2>3, <2>5
  <2> QED
    BY <2>4, <2>5
<1>15. SignedOut'
  BY <1>2 DEF DevicesInv, SignedOut
<1> QED
  BY <1>4, <1>7, <1>9, <1>11, <1>12, <1>14, <1>15 DEF DevicesInv

\* Sessions of a device are dropped by a decision or before its removal.
LEMMA DropStep ==
  ASSUME DevicesInv, NEW k \in Call, DecideRevoke(k) \/ RemoveSessions(k)
  PROVE  DevicesInv'
<1> DEFINE c == IF call[k].kind = "revoke" THEN NoCall ELSE [call[k] EXCEPT !.kind = "delete"]
<1>1. /\ call[k].kind \in {"revoke", "remove"} /\ Wrote(k, c)
      /\ tokens' = tokens \ call[k].on /\ slipped' = slipped \ call[k].on
      /\ held' = held \ call[k].on
      /\ UNCHANGED <<device, approvals, active, disabling, strict, approved, decided, contested>>
  <2>1. CASE DecideRevoke(k)
    BY <2>1 DEF DecideRevoke, EndSessions
  <2>2. CASE RemoveSessions(k)
    BY <2>2 DEF RemoveSessions, EndSessions
  <2> QED
    BY <2>1, <2>2
<1>2. c \in CallRecord /\ c.kind \in {"none", "delete"} /\ (c.kind # "none" => c.on = call[k].on)
  BY DEF DevicesInv, DeviceTypes, CallRecord, NoCall
<1>3. /\ call' \in [Call -> CallRecord] /\ PeersAreCurrent' /\ OneDevice'
      /\ \A j \in Call \ {k} : call'[j].kind = call[j].kind /\ call'[j].on = call[j].on
      /\ call'[k].kind \in {"none", "delete"}
  <2> HIDE DEF c
  <2> QED
    BY <1>1, <1>2, WroteCalls
<1>4. SignedOut'
  BY <1>1 DEF DevicesInv, SignedOut
<1>5. \A j \in Call : call'[j].kind \in {"decide", "session"} =>
        call'[j].kind = call[j].kind /\ call'[j].on = call[j].on
  BY <1>3
<1>6. tokens' \subseteq tokens /\ approvals' \in BOOLEAN
  BY <1>1 DEF DevicesInv, DeviceTypes
<1> QED
  BY <1>1, <1>3, <1>4, <1>5, <1>6, QuietStep DEF DevicesInv

\* A session is written: for a device that is still there.
LEMMA SessionWriteStep ==
  ASSUME DevicesInv, NEW k \in Call, SessionWrite(k)
  PROVE  DevicesInv'
<1>1. PICK d \in Device : call[k].kind = "session" /\ call[k].on = {d}
  BY DEF SessionWrite, DevicesInv, OneDevice
<1>2. /\ IF device[d] = "gone" THEN UNCHANGED <<tokens, slipped>>
         ELSE /\ tokens' = tokens \cup {d}
              /\ slipped' = IF active THEN slipped ELSE slipped \cup {d}
      /\ Wrote(k, NoCall)
      /\ UNCHANGED <<device, approvals, active, disabling, strict, approved, decided,
                     contested, held>>
  BY <1>1 DEF SessionWrite
<1>3. NoCall \in CallRecord /\ NoCall.kind = "none"
  BY DEF NoCall, CallRecord
<1>4. /\ call' \in [Call -> CallRecord] /\ PeersAreCurrent' /\ OneDevice'
      /\ \A j \in Call \ {k} : call'[j].kind = call[j].kind /\ call'[j].on = call[j].on
      /\ call'[k].kind = "none"
  BY <1>2, <1>3, WroteCalls
<1>5. device[d] \notin {"absent", "pending"}
  BY <1>1 DEF DevicesInv, SessionsKnown
<1>6. DeviceTypes' /\ LoneUnapproved' /\ AbsentNotStrict'
  <2>1. ActiveDevices' = ActiveDevices /\ tokens' \subseteq Device
    BY <1>2 DEF ActiveDevices, DevicesInv, DeviceTypes
  <2> QED
    BY <1>2, <1>4, <2>1
       DEF DevicesInv, DeviceTypes, LoneUnapproved, Unapproved, AbsentNotStrict
<1>7. AbsentIsNew'
  BY <1>2, <1>5 DEF DevicesInv, AbsentIsNew
<1>8. SessionsKnown'
  BY <1>2, <1>4 DEF DevicesInv, SessionsKnown
<1>9. SignedOut'
  BY <1>2 DEF DevicesInv, SignedOut
<1>10. SingleDecision'
  <2>1. \A e \in Device : Deciding(e)' \subseteq Deciding(e)
    BY <1>4 DEF Deciding
  <2> SUFFICES ASSUME NEW e \in Device \ contested
      PROVE /\ \A i, j \in Deciding(e)' : i = j
            /\ Deciding(e)' # {} => device[e] \in {"pending", "gone"} /\ decided[e] = 0
            /\ decided[e] <= 1
            /\ device[e] = "rejected" => e \notin tokens'
            /\ \A j \in Call : call'[j].kind = "session" /\ call'[j].on = {e} =>
                 device[e] \in {"active", "gone"}
    BY <1>2 DEF SingleDecision
  <2>2. /\ \A i, j \in Deciding(e) : i = j
        /\ Deciding(e) # {} => device[e] \in {"pending", "gone"} /\ decided[e] = 0
        /\ decided[e] <= 1
        /\ device[e] = "rejected" => e \notin tokens
        /\ \A j \in Call : call[j].kind = "session" /\ call[j].on = {e} =>
             device[e] \in {"active", "gone"}
    BY DEF DevicesInv, SingleDecision
  <2>3. device[e] = "rejected" => e # d
    BY <1>1, <2>2
  <2> QED
    BY <1>2, <1>4, <2>1, <2>2, <2>3
<1> QED
  BY <1>4, <1>6, <1>7, <1>8, <1>9, <1>10 DEF DevicesInv

\* A device is removed, by its user or by a peer.
LEMMA RemoveStep ==
  ASSUME DevicesInv,
         \/ \E k \in Call : RemoveDevice(k)
         \/ \E peer, d \in Device : RemoveByPeer(peer, d)
  PROVE  DevicesInv'
<1>1. ASSUME NEW k \in Call, RemoveDevice(k) PROVE DevicesInv'
  <2>1. PICK d \in Device : call[k].kind = "delete" /\ call[k].on = {d}
    BY <1>1 DEF RemoveDevice, DevicesInv, OneDevice
  <2>2. /\ device' = IF d \in tokens THEN device ELSE [device EXCEPT ![d] = "gone"]
        /\ Wrote(k, NoCall)
        /\ UNCHANGED <<tokens, approvals, active, disabling, strict, approved, decided,
                       contested, slipped, held>>
    BY <1>1, <2>1 DEF RemoveDevice, devicesHistory
  <2>3. NoCall \in CallRecord /\ NoCall.kind = "none"
    BY DEF NoCall, CallRecord
  <2>4. /\ call' \in [Call -> CallRecord] /\ PeersAreCurrent' /\ OneDevice'
        /\ \A j \in Call : call'[j].kind \in {"decide", "session"} =>
             call'[j].kind = call[j].kind /\ call'[j].on = call[j].on
    BY <2>2, <2>3, WroteCalls
  <2>5. SignedOut' /\ approvals' \in BOOLEAN
    BY <2>2 DEF DevicesInv, SignedOut, DeviceTypes
  <2>6. CASE d \in tokens
    BY <2>2, <2>4, <2>5, <2>6, QuietStep DEF DevicesInv
  <2>7. CASE d \notin tokens
    BY <2>2, <2>4, <2>5, <2>7, GoneStep DEF DevicesInv
  <2> QED
    BY <2>6, <2>7
<1>2. ASSUME NEW peer \in Device, NEW d \in Device, RemoveByPeer(peer, d) PROVE DevicesInv'
  <2>1. /\ device' = [device EXCEPT ![d] = "gone"] /\ call' = OutdatedCalls
        /\ UNCHANGED <<tokens, approvals, active, disabling, strict, approved, decided,
                       contested, slipped, held>>
    BY <1>2 DEF RemoveByPeer, devicesHistory
  <2>2. /\ call' \in [Call -> CallRecord] /\ PeersAreCurrent' /\ OneDevice'
        /\ \A j \in Call : call'[j].kind = call[j].kind /\ call'[j].on = call[j].on
    BY <2>1, CallsAfterWrite DEF DevicesInv, PeersAreCurrent, OneDevice
  <2>3. SignedOut' /\ approvals' \in BOOLEAN
    BY <2>1 DEF DevicesInv, SignedOut, DeviceTypes
  <2> QED
    BY <2>1, <2>2, <2>3, GoneStep DEF DevicesInv
<1> QED
  BY <1>1, <1>2

\* What a user or an administrator does to all the devices of an account.
LEMMA UserStep ==
  ASSUME DevicesInv,
         \/ \E d \in Device : SessionEnds(d)
         \/ SetApprovals \/ DisableUser \/ DisableSessions \/ EnableUser
  PROVE  DevicesInv'
<1>1. /\ call' = OutdatedCalls /\ tokens' \subseteq tokens
      /\ UNCHANGED <<device, strict, approved, decided, contested>>
  BY DEF SessionEnds, SetApprovals, DisableUser, DisableSessions, EnableUser, EndSessions,
         devicesHistory
<1>2. /\ call' \in [Call -> CallRecord] /\ PeersAreCurrent' /\ OneDevice'
      /\ \A j \in Call : call'[j].kind = call[j].kind /\ call'[j].on = call[j].on
  BY <1>1, CallsAfterWrite DEF DevicesInv, PeersAreCurrent, OneDevice
<1>3. approvals' \in BOOLEAN
  BY DEF SessionEnds, SetApprovals, DisableUser, DisableSessions, EnableUser, DevicesInv,
         DeviceTypes
<1>4. SignedOut'
  <2>1. CASE DisableUser
    BY <2>1 DEF DisableUser, SignedOut, DevicesInv
  <2>2. CASE DisableSessions
    <3>1. tokens' = {} /\ slipped' = {}
      BY <2>2 DEF DisableSessions, EndSessions, SignedOut, DevicesInv, DeviceTypes
    <3> QED
      BY <3>1 DEF SignedOut
  <2>3. CASE EnableUser
    BY <2>3 DEF EnableUser, SignedOut
  <2>4. CASE SetApprovals
    BY <2>4 DEF SetApprovals, devicesHistory, SignedOut, DevicesInv
  <2>5. ASSUME NEW d \in Device, SessionEnds(d) PROVE SignedOut'
    BY <2>5 DEF SessionEnds, EndSessions, SignedOut, DevicesInv
  <2> QED
    BY <2>1, <2>2, <2>3, <2>4, <2>5
<1> QED
  BY <1>1, <1>2, <1>3, <1>4, QuietStep DEF DevicesInv

(***************************************************************************)
(* set_user_status is cut off after its first commit: the sessions that    *)
(* are left are among those there were.                                    *)
(***************************************************************************)
LEMMA DisableFailsStep ==
  ASSUME DevicesInv, DisableFails
  PROVE  DevicesInv'
<1>1. /\ UNCHANGED <<device, tokens, approvals, active, call, devicesHistory>>
      /\ disabling = "sessions" /\ (~active => disabling' = "cut")
  BY DEF DisableFails
<1>2. ActiveDevices' = ActiveDevices
  BY <1>1 DEF ActiveDevices
<1>3. PeersAreCurrent' /\ OneDevice'
  BY <1>1, <1>2 DEF DevicesInv, PeersAreCurrent, OneDevice
<1>4. SignedOut'
  BY <1>1 DEF DevicesInv, SignedOut, devicesHistory
<1>5. /\ UNCHANGED <<device, strict, approved, decided, contested>>
      /\ tokens' \subseteq tokens /\ approvals' \in BOOLEAN /\ call' \in [Call -> CallRecord]
      /\ \A k \in Call : call'[k].kind \in {"decide", "session"} =>
           call'[k].kind = call[k].kind /\ call'[k].on = call[k].on
  BY <1>1 DEF devicesHistory, DevicesInv, DeviceTypes
<1> QED
  BY <1>3, <1>4, <1>5, QuietStep DEF DevicesInv

(***************************************************************************)
(* The inductive invariant of the devices of a library.                    *)
(***************************************************************************)
THEOREM DevicesInvariant == DevicesSpec => []DevicesInv
<1>1. DevicesInit => DevicesInv
  BY DevicesInitInv
<1>2. DevicesInv /\ [DevicesNext]_devicesVars => DevicesInv'
  <2> SUFFICES ASSUME DevicesInv, [DevicesNext]_devicesVars PROVE DevicesInv'
    OBVIOUS
  <2>1. CASE UNCHANGED devicesVars
    BY <2>1 DEF devicesVars, DevicesInv, DeviceTypes, PeersAreCurrent, LoneUnapproved,
                Unapproved, ActiveDevices, AbsentIsNew, AbsentNotStrict, SingleDecision,
                Deciding, OneDevice, SessionsKnown, SignedOut
  <2>2. CASE DevicesNext
    BY <2>2, ReadStep, BeginStep, EnrollStep, DecideWriteStep, DropStep, SessionWriteStep,
       RemoveStep, UserStep, DisableFailsStep DEF DevicesNext
  <2> QED
    BY <2>1, <2>2
<1> QED
  BY <1>1, <1>2, PTL DEF DevicesSpec

\* A set whose elements are all equal has one at most.
LEMMA OneAtMost ==
  ASSUME NEW S, \A x, y \in S : x = y
  PROVE  Cardinality(S) <= 1
<1>1. CASE S = {}
  BY <1>1, FS_EmptySet
<1>2. CASE S # {}
  <2>1. PICK x \in S : S = {x}
    BY <1>2
  <2> QED
    BY <2>1, FS_Singleton
<1> QED
  BY <1>1, <1>2

(***************************************************************************)
(* enroll_device: while approvals are required, one device at most gets    *)
(* in that nobody approved, however many enroll at the same time.          *)
(***************************************************************************)
THEOREM OneGetsInUnapproved == DevicesSpec => []OneUnapproved
<1>1. DevicesInv => OneUnapproved
  <2> SUFFICES ASSUME DevicesInv PROVE OneUnapproved
    OBVIOUS
  <2>1. \A d, e \in Unapproved : d = e
    BY DEF DevicesInv, LoneUnapproved
  <2>2. Cardinality(Unapproved) <= 1
    BY <2>1, OneAtMost
  <2> QED
    BY <2>2 DEF OneUnapproved, Unapproved
<1> QED
  BY <1>1, DevicesInvariant, PTL

(***************************************************************************)
(* approve_device: a device is decided once, and a rejected one has no     *)
(* session, unless two decisions read it before either wrote.              *)
(***************************************************************************)
THEOREM DecisionsAreSingle == DevicesSpec => []DecidedOnce
<1>1. DevicesInv => DecidedOnce
  BY DEF DevicesInv, SingleDecision, DecidedOnce
<1> QED
  BY <1>1, DevicesInvariant, PTL

(***************************************************************************)
(* set_user_status, at every moment: the sessions a disabled user has are  *)
(* those a call issued that was authorised before and, until the handler's *)
(* last commit, those there were; cut off before it, it leaves the latter. *)
(***************************************************************************)
THEOREM DisablingSignsOut == DevicesSpec => []DisabledIsSignedOut
<1>1. DevicesInv => DisabledIsSignedOut
  BY DEF DevicesInv, SignedOut, DisabledIsSignedOut
<1> QED
  BY <1>1, DevicesInvariant, PTL

-----------------------------------------------------------------------------
(* Login: what a verify request has in hand. *)

Phase == {"idle", "loaded", "consumed", "passed"}

RequestRecord ==
  [phase : Phase, on : SUBSET Challenge, right : BOOLEAN, attempts : Nat,
   confirmed : BOOLEAN, stale : BOOLEAN]

\* The requests that have read the challenge c and not ended.
On(r, c) == request[r].phase # "idle" /\ c \in request[r].on

-----------------------------------------------------------------------------
(* Login: the inductive invariant, in parts. *)

Types ==
  /\ challenge \in [Challenge -> {"none", "open", "aged", "gone"}]
  /\ attempts \in Nat /\ wrong \in Nat /\ served \in Nat /\ served <= wrong
  /\ locked \in BOOLEAN /\ verified \in BOOLEAN /\ crossed \in BOOLEAN
  /\ request \in [Request -> RequestRecord]
  /\ sessions \in [Challenge -> Nat] /\ twice \subseteq Challenge
  /\ undeleted \subseteq Challenge

\* A request works on one challenge.
OneEach ==
  \A r \in Request : request[r].phase # "idle" => \E c \in Challenge : request[r].on = {c}

\* A challenge that has been used is gone, unless its DELETE failed.
UsedIsGone ==
  \A c \in Challenge \ undeleted : challenge[c] # "gone" =>
    /\ sessions[c] = 0
    /\ \A r \in Request : On(r, c) => request[r].phase = "loaded"

\* One request at a time works on a challenge that was neither read twice nor left
\* by its DELETE, and none once it has given a session.
Alone ==
  \A c \in Challenge \ (twice \cup undeleted) :
    /\ \A r, q \in Request : On(r, c) /\ On(q, c) => r = q
    /\ sessions[c] <= 1
    /\ sessions[c] = 1 => \A r \in Request : ~On(r, c)

\* What a request has read of the counter holds until another one records.
Current ==
  \A r \in Request :
    request[r].phase \in {"loaded", "consumed"} /\ ~request[r].stale =>
      request[r].attempts = attempts

LoginInv ==
  Types /\ OneEach /\ UsedIsGone /\ Alone /\ Current /\ CountsFailures /\ LockedAtLimit

-----------------------------------------------------------------------------

(***************************************************************************)
(* What a request leaves behind when it records: only itself goes on.      *)
(***************************************************************************)
LEMMA RecordedType ==
  ASSUME request \in [Request -> RequestRecord],
         NEW r \in Request, NEW next \in RequestRecord
  PROVE  /\ Recorded(r, next) \in [Request -> RequestRecord]
         /\ Recorded(r, next)[r] = next
         /\ \A q \in Request \ {r} :
              /\ Recorded(r, next)[q].phase = request[q].phase
              /\ request[q].phase # "idle" =>
                   /\ Recorded(r, next)[q].on = request[q].on
                   /\ Recorded(r, next)[q].stale
<1>1. Idle \in RequestRecord
  BY DEF Idle, RequestRecord, Phase
<1>2. \A q \in Request : [request[q] EXCEPT !.stale = TRUE] \in RequestRecord
  BY DEF RequestRecord
<1>3. \A q \in Request : request[q] \in RequestRecord
  OBVIOUS
<1>4. Recorded(r, next)[r] = next
  BY DEF Recorded
<1>5. ASSUME NEW q \in Request \ {r}
      PROVE  /\ Recorded(r, next)[q].phase = request[q].phase
             /\ request[q].phase # "idle" =>
                  /\ Recorded(r, next)[q].on = request[q].on
                  /\ Recorded(r, next)[q].stale
  <2>1. CASE request[q].phase = "idle"
    BY <2>1 DEF Recorded, Idle
  <2>2. CASE request[q].phase # "idle"
    <3>1. Recorded(r, next)[q] = [request[q] EXCEPT !.stale = TRUE]
      BY <2>2 DEF Recorded
    <3> QED
      BY <3>1, <1>3, <2>2 DEF RequestRecord
  <2> QED
    BY <2>1, <2>2
<1> QED
  BY <1>1, <1>2, <1>3, <1>4, <1>5 DEF Recorded

\* Initially there is no challenge and no session.
LEMMA InitInv == LoginInit => LoginInv
<1> SUFFICES ASSUME LoginInit PROVE LoginInv
  OBVIOUS
<1>1. Idle \in RequestRecord /\ Idle.phase = "idle"
  BY DEF Idle, RequestRecord, Phase
<1>2. Types
  <2>1. request \in [Request -> RequestRecord]
    BY <1>1 DEF LoginInit
  <2>2. /\ challenge \in [Challenge -> {"none", "open", "aged", "gone"}]
        /\ sessions \in [Challenge -> Nat] /\ twice \subseteq Challenge
        /\ undeleted \subseteq Challenge
    BY DEF LoginInit
  <2>3. attempts \in Nat /\ wrong \in Nat /\ served \in Nat /\ served <= wrong
    BY DEF LoginInit
  <2>4. locked \in BOOLEAN /\ verified \in BOOLEAN /\ crossed \in BOOLEAN
    BY Zenon DEF LoginInit
  <2> QED
    BY <2>1, <2>2, <2>3, <2>4 DEF Types
<1>3. \A r \in Request : request[r].phase = "idle"
  BY <1>1 DEF LoginInit
<1> QED
  BY <1>2, <1>3, LoginAssumption
     DEF LoginInit, LoginInv, OneEach, UsedIsGone, Alone, Current, CountsFailures, LockedAtLimit, On

-----------------------------------------------------------------------------
(* Steps that only touch the challenges, or only the lock. *)

\* Steps that only create, age or purge challenges, or confirm the account.
LEMMA ChallengeStep ==
  ASSUME LoginInv,
         challenge' \in [Challenge -> {"none", "open", "aged", "gone"}],
         \A c \in Challenge : challenge[c] = "gone" => challenge'[c] = "gone",
         verified' \in BOOLEAN,
         UNCHANGED <<attempts, locked, request, sessions, wrong, served, crossed, twice,
                     undeleted>>
  PROVE  LoginInv'
<1>1. Types' /\ OneEach'
  BY DEF LoginInv, Types, OneEach
<1>2. UsedIsGone'
  BY DEF LoginInv, UsedIsGone, On
<1>3. Alone' /\ Current'
  BY DEF LoginInv, Alone, Current, On
<1>4. CountsFailures' /\ LockedAtLimit'
  BY DEF LoginInv, CountsFailures, LockedAtLimit
<1> QED
  BY <1>1, <1>2, <1>3, <1>4 DEF LoginInv

\* A request loads a challenge and the account.
LEMMA LoadStep ==
  ASSUME LoginInv, NEW r \in Request, NEW c \in Challenge, NEW right \in BOOLEAN,
         VerifyLoad(r, c, right)
  PROVE  LoginInv'
<1> DEFINE new == [phase |-> "loaded", on |-> {c}, right |-> right, attempts |-> attempts,
                   confirmed |-> verified, stale |-> FALSE]
<1>1. new \in RequestRecord
  BY DEF LoginInv, Types, RequestRecord, Phase
<1>2. request' = [request EXCEPT ![r] = new]
  BY DEF VerifyLoad
<1>3. request'[r] = new /\ \A q \in Request \ {r} : request'[q] = request[q]
  BY <1>2 DEF LoginInv, Types
<1>4. /\ request[r].phase = "idle" /\ challenge[c] = "open" /\ twice \subseteq twice'
      /\ UNCHANGED <<challenge, attempts, locked, verified, sessions, wrong, served, crossed,
                     undeleted>>
  BY DEF VerifyLoad
<1>5. Types'
  BY <1>1, <1>2, <1>4 DEF LoginInv, Types, VerifyLoad
<1>6. UsedIsGone' /\ OneEach'
  BY <1>3, <1>4 DEF LoginInv, UsedIsGone, On, OneEach
<1>7. Alone'
  <2>1. c \notin undeleted =>
          sessions[c] = 0 /\ \A q \in Request : On(q, c) => request[q].phase = "loaded"
    BY <1>4 DEF LoginInv, UsedIsGone
  <2>2. ASSUME c \notin twice' \cup undeleted, NEW q \in Request, On(q, c)
        PROVE  FALSE
    <3>1. request[q].phase = "loaded" /\ c \in request[q].on
      BY <2>1, <2>2 DEF On
    <3>2. request[q].on = {c}
      BY <2>2, <3>1 DEF LoginInv, OneEach
    <3> QED
      BY <2>2, <3>1, <3>2 DEF VerifyLoad
  <2> QED
    BY <1>3, <1>4, <2>1, <2>2 DEF LoginInv, Alone, On
<1>8. Current'
  BY <1>3, <1>4 DEF LoginInv, Current
<1>9. CountsFailures' /\ LockedAtLimit'
  BY <1>4 DEF LoginInv, CountsFailures, LockedAtLimit
<1> QED
  BY <1>5, <1>6, <1>7, <1>8, <1>9 DEF LoginInv

\* The challenge is deleted, or left by a DELETE that fails, and the request goes on.
LEMMA ConsumeStep ==
  ASSUME LoginInv, NEW r \in Request, VerifyConsume(r) \/ VerifyConsumeFails(r)
  PROVE  LoginInv'
<1>1. /\ request[r].phase = "loaded" /\ request[r] \in RequestRecord
      /\ request' = [request EXCEPT ![r].phase = "consumed"]
      /\ UNCHANGED <<attempts, locked, verified, sessions, wrong, served, crossed, twice>>
  BY DEF VerifyConsume, VerifyConsumeFails, LoginInv, Types
<1>2. /\ request'[r] = [request[r] EXCEPT !.phase = "consumed"]
      /\ \A q \in Request \ {r} : request'[q] = request[q]
  BY <1>1 DEF LoginInv, Types
<1>3. /\ request'[r] \in RequestRecord /\ request'[r].phase = "consumed"
      /\ request'[r].on = request[r].on /\ request'[r].stale = request[r].stale
      /\ request'[r].attempts = request[r].attempts
  BY <1>1, <1>2 DEF RequestRecord, Phase
<1>4. /\ challenge' \in [Challenge -> {"none", "open", "aged", "gone"}]
      /\ undeleted \subseteq undeleted' /\ undeleted' \subseteq Challenge
      /\ \A c \in Challenge \ undeleted' :
           challenge'[c] = IF c \in request[r].on THEN "gone" ELSE challenge[c]
  <2>1. CASE VerifyConsume(r)
    <3>1. /\ challenge' = [c \in Challenge |-> IF c \in request[r].on THEN "gone"
                                              ELSE challenge[c]]
          /\ undeleted' = undeleted
      BY <2>1 DEF VerifyConsume
    <3> QED
      BY <3>1 DEF LoginInv, Types
  <2>2. CASE VerifyConsumeFails(r)
    <3>1. /\ undeleted' = undeleted \cup {c \in request[r].on : challenge[c] # "gone"}
          /\ challenge' = challenge
      BY <2>2 DEF VerifyConsumeFails
    <3>2. request[r].on \subseteq Challenge
      BY <1>1 DEF RequestRecord
    <3> QED
      BY <3>1, <3>2 DEF LoginInv, Types
  <2> QED
    BY <2>1, <2>2
<1>5. Types' /\ OneEach'
  <2>1. request' \in [Request -> RequestRecord]
    BY <1>1, <1>2, <1>3 DEF LoginInv, Types
  <2>2. OneEach'
    BY <1>1, <1>2, <1>3 DEF LoginInv, OneEach
  <2> QED
    BY <1>1, <1>4, <2>1, <2>2 DEF LoginInv, Types
<1>6. UsedIsGone'
  <2> SUFFICES ASSUME NEW c \in Challenge \ undeleted', challenge'[c] # "gone"
      PROVE /\ sessions[c] = 0
            /\ \A q \in Request : On(q, c)' => request'[q].phase = "loaded"
    BY <1>1 DEF UsedIsGone
  <2>1. c \in Challenge \ undeleted /\ c \notin request[r].on /\ challenge[c] # "gone"
    BY <1>4
  <2> QED
    BY <1>1, <1>2, <1>3, <2>1 DEF LoginInv, UsedIsGone, On
<1>7. Alone'
  <2>1. \A q \in Request, c \in Challenge : On(q, c)' => On(q, c)
    BY <1>1, <1>2, <1>3 DEF On
  <2> QED
    BY <1>1, <1>4, <2>1 DEF LoginInv, Alone
<1>8. Current'
  BY <1>1, <1>2, <1>3 DEF LoginInv, Current
<1>9. CountsFailures' /\ LockedAtLimit'
  BY <1>1 DEF LoginInv, CountsFailures, LockedAtLimit
<1> QED
  BY <1>5, <1>6, <1>7, <1>8, <1>9 DEF LoginInv

(***************************************************************************)
(* A step that records a result, wrong or right, and goes on as next.      *)
(***************************************************************************)
LEMMA RecordStep ==
  ASSUME LoginInv, NEW r \in Request, NEW next \in RequestRecord,
         request[r].phase = "consumed",
         next.phase = "idle" \/ (next.phase = "passed" /\ next.on = request[r].on),
         request' = Recorded(r, next),
         UNCHANGED <<challenge, sessions, twice, undeleted>>
  PROVE  OneEach' /\ UsedIsGone' /\ Alone' /\ Current'
<1>1. /\ request'[r] = next
      /\ \A q \in Request \ {r} :
           /\ request'[q].phase = request[q].phase
           /\ request[q].phase # "idle" =>
                request'[q].on = request[q].on /\ request'[q].stale
  BY RecordedType DEF LoginInv, Types
<1>2. \A q \in Request, c \in Challenge : On(q, c)' => On(q, c)
  BY <1>1 DEF On
<1>3. \A q \in Request : request'[q].phase # "idle" =>
        request[q].phase # "idle" /\ request'[q].on = request[q].on
  BY <1>1
<1>4. OneEach'
  BY <1>3 DEF LoginInv, OneEach
<1>5. UsedIsGone'
  <2>1. \A c \in Challenge \ undeleted : On(r, c) => challenge[c] = "gone"
    BY DEF LoginInv, UsedIsGone
  <2>2. ASSUME NEW c \in Challenge \ undeleted, challenge[c] # "gone", NEW q \in Request, On(q, c)'
        PROVE  request'[q].phase = "loaded"
    <3>1. On(q, c) /\ q # r
      BY <1>2, <2>1, <2>2
    <3>2. request[q].phase = "loaded"
      BY <3>1, <2>2 DEF LoginInv, UsedIsGone
    <3> QED
      BY <3>1, <3>2, <1>1
  <2> QED
    BY <2>2 DEF LoginInv, UsedIsGone
<1>6. Alone'
  BY <1>2 DEF LoginInv, Alone
<1>7. Current'
  BY <1>1 DEF LoginInv, Current
<1> QED
  BY <1>4, <1>5, <1>6, <1>7

\* A wrong proof is counted, and locks the account at the limit.
LEMMA WrongStep ==
  ASSUME LoginInv, NEW r \in Request, VerifyWrong(r)
  PROVE  LoginInv'
<1>1. Idle \in RequestRecord /\ Idle.phase = "idle"
  BY DEF Idle, RequestRecord, Phase
<1>2. /\ request[r].phase = "consumed" /\ request' = Recorded(r, Idle)
      /\ UNCHANGED <<challenge, sessions, twice, undeleted>>
  BY DEF VerifyWrong
<1>3. OneEach' /\ UsedIsGone' /\ Alone' /\ Current'
  BY <1>1, <1>2, RecordStep
<1>4. request[r].attempts \in Nat /\ request[r].stale \in BOOLEAN
  <2>1. request[r] \in RequestRecord
    BY DEF LoginInv, Types
  <2> QED
    BY <2>1 DEF RequestRecord
<1>5. /\ attempts' = request[r].attempts + 1 /\ wrong' = wrong + 1 /\ served' = served
      /\ locked' = (locked \/ request[r].attempts + 1 >= MaxAttempts)
      /\ crossed' = (crossed \/ request[r].stale) /\ verified' = verified
  BY DEF VerifyWrong
<1>6. Types'
  <2>1. request' \in [Request -> RequestRecord]
    BY <1>1, <1>2, RecordedType DEF LoginInv, Types
  <2>2. attempts' \in Nat /\ wrong' \in Nat /\ served' \in Nat /\ served' <= wrong'
    BY <1>4, <1>5 DEF LoginInv, Types
  <2>3. locked' \in BOOLEAN /\ crossed' \in BOOLEAN
    BY <1>5
  <2> QED
    BY <1>2, <1>5, <2>1, <2>2, <2>3 DEF LoginInv, Types
<1>7. ~crossed' => ~crossed /\ ~request[r].stale
  BY <1>5
<1>8. ~crossed' => attempts' = wrong'
  <2> SUFFICES ASSUME ~crossed' PROVE attempts' = wrong'
    OBVIOUS
  <2>1. request[r].attempts = attempts
    BY <1>2, <1>7 DEF LoginInv, Current
  <2>2. attempts = wrong
    BY <1>7 DEF LoginInv, CountsFailures
  <2> QED
    BY <1>5, <2>1, <2>2
<1>9. CountsFailures'
  BY <1>8 DEF CountsFailures
<1>10. LockedAtLimit'
  <2> SUFFICES ASSUME wrong' >= MaxAttempts, ~crossed' PROVE locked'
    BY DEF LockedAtLimit
  <2>1. request[r].attempts + 1 >= MaxAttempts
    BY <1>5, <1>8
  <2> QED
    BY <1>5, <2>1
<1> QED
  BY <1>3, <1>6, <1>9, <1>10 DEF LoginInv

\* A right proof clears the count.
LEMMA RightStep ==
  ASSUME LoginInv, NEW r \in Request, VerifyRight(r)
  PROVE  LoginInv'
<1> DEFINE next == [request[r] EXCEPT !.phase = "passed"]
<1>1. request[r] \in RequestRecord
  BY DEF LoginInv, Types
<1>2. next \in RequestRecord /\ next.phase = "passed" /\ next.on = request[r].on
  BY <1>1 DEF RequestRecord, Phase
<1>3. /\ request[r].phase = "consumed" /\ request' = Recorded(r, next)
      /\ UNCHANGED <<challenge, verified, sessions, twice, undeleted>>
  BY DEF VerifyRight
<1>4. OneEach' /\ UsedIsGone' /\ Alone' /\ Current'
  BY <1>2, <1>3, RecordStep
<1>5. attempts' = 0 /\ wrong' = 0 /\ served' = 0
  BY DEF VerifyRight
<1>6. locked' = FALSE /\ crossed' = FALSE
  BY DEF VerifyRight
<1>7. Types'
  <2>1. request' \in [Request -> RequestRecord]
    BY <1>2, <1>3, RecordedType DEF LoginInv, Types
  <2>2. locked' \in BOOLEAN /\ crossed' \in BOOLEAN
    BY <1>6
  <2> QED
    BY <1>3, <1>5, <2>1, <2>2 DEF LoginInv, Types
<1>8. CountsFailures' /\ LockedAtLimit'
  BY <1>5, LoginAssumption DEF CountsFailures, LockedAtLimit
<1> QED
  BY <1>4, <1>7, <1>8 DEF LoginInv

\* The count is not cleared, since the UPDATE fails, and the request goes on.
LEMMA RightFailsStep ==
  ASSUME LoginInv, NEW r \in Request, VerifyRightFails(r)
  PROVE  LoginInv'
<1>1. /\ request[r].phase = "consumed" /\ request[r] \in RequestRecord
      /\ request' = [request EXCEPT ![r].phase = "passed"]
      /\ wrong' = 0 /\ served' = 0 /\ crossed' = TRUE
      /\ UNCHANGED <<challenge, attempts, locked, verified, sessions, twice, undeleted>>
  BY DEF VerifyRightFails, LoginInv, Types
<1>2. /\ request'[r] = [request[r] EXCEPT !.phase = "passed"]
      /\ \A q \in Request \ {r} : request'[q] = request[q]
  BY <1>1 DEF LoginInv, Types
<1>3. /\ request'[r] \in RequestRecord /\ request'[r].phase = "passed"
      /\ request'[r].on = request[r].on
  BY <1>1, <1>2 DEF RequestRecord, Phase
<1>4. Types' /\ OneEach'
  <2>1. request' \in [Request -> RequestRecord]
    BY <1>1, <1>2, <1>3 DEF LoginInv, Types
  <2>2. OneEach'
    BY <1>1, <1>2, <1>3 DEF LoginInv, OneEach
  <2> QED
    BY <1>1, <2>1, <2>2 DEF LoginInv, Types
<1>5. \A q \in Request, c \in Challenge : On(q, c)' => On(q, c)
  BY <1>1, <1>2, <1>3 DEF On
<1>6. UsedIsGone'
  <2>1. \A c \in Challenge \ undeleted : On(r, c) => challenge[c] = "gone"
    BY <1>1 DEF LoginInv, UsedIsGone
  <2> QED
    BY <1>1, <1>2, <1>5, <2>1 DEF LoginInv, UsedIsGone
<1>7. Alone' /\ Current'
  BY <1>1, <1>2, <1>3, <1>5 DEF LoginInv, Alone, Current
<1>8. CountsFailures' /\ LockedAtLimit'
  BY <1>1 DEF CountsFailures, LockedAtLimit
<1> QED
  BY <1>4, <1>6, <1>7, <1>8 DEF LoginInv

(***************************************************************************)
(* A request ends, after it has issued the session or without.             *)
(***************************************************************************)
LEMMA EndStep ==
  ASSUME LoginInv, NEW r \in Request,
         request' = [request EXCEPT ![r] = Idle],
         sessions' \in [Challenge -> Nat],
         \A c \in Challenge : sessions'[c] = sessions[c]
           \/ (sessions'[c] = sessions[c] + 1 /\ request[r].phase = "passed" /\ On(r, c)),
         UNCHANGED <<challenge, verified, twice, undeleted>>,
         CountsFailures' /\ LockedAtLimit',
         \/ UNCHANGED <<attempts, locked, wrong, served, crossed>>
         \/ wrong' = wrong + 1 /\ crossed' = TRUE /\ UNCHANGED <<attempts, locked, served>>
  PROVE  LoginInv'
<1>1. Idle \in RequestRecord /\ Idle.phase = "idle"
  BY DEF Idle, RequestRecord, Phase
<1>2. request'[r] = Idle /\ \A q \in Request \ {r} : request'[q] = request[q]
  BY DEF LoginInv, Types
<1>3. Types' /\ OneEach'
  <2>1. /\ attempts' \in Nat /\ wrong' \in Nat /\ served' \in Nat /\ served' <= wrong'
        /\ locked' = locked
    BY DEF LoginInv, Types
  <2>2. crossed' \in BOOLEAN
    <3>1. crossed' = crossed \/ crossed' = TRUE
      OBVIOUS
    <3> QED
      BY <3>1, Zenon DEF LoginInv, Types
  <2>3. request' \in [Request -> RequestRecord]
    BY <1>1, <1>2 DEF LoginInv, Types
  <2>4. OneEach'
    BY <1>1, <1>2 DEF LoginInv, OneEach
  <2> QED
    BY <2>1, <2>2, <2>3, <2>4 DEF LoginInv, Types
<1>4. \A q \in Request, c \in Challenge : On(q, c)' => On(q, c) /\ q # r /\ request'[q] = request[q]
  BY <1>1, <1>2 DEF On
<1>5. UsedIsGone'
  <2>1. ASSUME NEW c \in Challenge \ undeleted, challenge[c] # "gone"
        PROVE  sessions'[c] = 0
    <3>1. sessions[c] = 0 /\ ~(request[r].phase = "passed" /\ On(r, c))
      BY <2>1 DEF LoginInv, UsedIsGone
    <3> QED
      BY <3>1
  <2> QED
    BY <1>4, <2>1 DEF LoginInv, UsedIsGone
<1>6. Alone'
  <2>1. ASSUME NEW c \in Challenge \ (twice \cup undeleted)
        PROVE  /\ sessions'[c] <= 1
               /\ sessions'[c] = 1 => \A q \in Request : ~On(q, c)'
    <3>1. /\ sessions[c] \in Nat /\ sessions[c] <= 1
          /\ sessions[c] = 1 => \A q \in Request : ~On(q, c)
          /\ \A p, q \in Request : On(p, c) /\ On(q, c) => p = q
      BY DEF LoginInv, Types, Alone
    <3>2. CASE sessions'[c] = sessions[c]
      BY <1>4, <3>1, <3>2
    <3>3. CASE sessions'[c] = sessions[c] + 1 /\ On(r, c)
      <4>1. sessions[c] = 0
        BY <3>1, <3>3
      <4>2. \A q \in Request : ~On(q, c)'
        BY <1>4, <3>1, <3>3
      <4> QED
        BY <3>3, <4>1, <4>2
    <3> QED
      BY <3>2, <3>3
  <2> QED
    BY <1>4, <2>1 DEF LoginInv, Alone
<1>7. Current'
  BY <1>1, <1>2 DEF LoginInv, Current
<1> QED
  BY <1>3, <1>5, <1>6, <1>7 DEF LoginInv

\* A session is issued for the challenge of a request that has passed.
LEMMA IssueStep ==
  ASSUME LoginInv, NEW r \in Request, VerifyIssue(r)
  PROVE  LoginInv'
<1>1. /\ request[r].phase = "passed"
      /\ sessions' = [c \in Challenge |-> IF c \in request[r].on THEN sessions[c] + 1
                                          ELSE sessions[c]]
      /\ request' = [request EXCEPT ![r] = Idle]
      /\ UNCHANGED <<challenge, attempts, locked, verified, wrong, served, crossed, twice,
                     undeleted>>
  BY DEF VerifyIssue
<1>2. sessions' \in [Challenge -> Nat]
  BY <1>1 DEF LoginInv, Types
<1>3. \A c \in Challenge : sessions'[c] = sessions[c]
        \/ (sessions'[c] = sessions[c] + 1 /\ request[r].phase = "passed" /\ On(r, c))
  BY <1>1 DEF On
<1>4. CountsFailures' /\ LockedAtLimit'
  BY <1>1 DEF LoginInv, CountsFailures, LockedAtLimit
<1> QED
  BY <1>1, <1>2, <1>3, <1>4, EndStep

\* The lock runs out, and what was counted with it.
LEMMA LockExpiresStep ==
  ASSUME LoginInv, LockExpires
  PROVE  LoginInv'
<1>1. /\ served' = wrong /\ locked' = FALSE
      /\ UNCHANGED <<challenge, attempts, verified, request, sessions, wrong, crossed, twice,
                     undeleted>>
  BY DEF LockExpires
<1>2. Types' /\ OneEach'
  <2>1. locked' \in BOOLEAN
    BY <1>1
  <2> QED
    BY <1>1, <2>1 DEF LoginInv, Types, OneEach
<1>3. UsedIsGone' /\ Alone' /\ Current'
  BY <1>1 DEF LoginInv, UsedIsGone, Alone, Current, On
<1>4. CountsFailures' /\ LockedAtLimit'
  BY <1>1 DEF LoginInv, Types, CountsFailures, LockedAtLimit
<1> QED
  BY <1>2, <1>3, <1>4 DEF LoginInv

-----------------------------------------------------------------------------

(***************************************************************************)
(* Every step of account_challenge, account_verify and of time keeps the   *)
(* invariant.                                                              *)
(***************************************************************************)
LEMMA NextInv ==
  ASSUME LoginInv, [LoginNext]_loginVars
  PROVE  LoginInv'
<1>1. ASSUME NEW c \in Challenge, IssueChallenge(c) \/ ChallengeAges(c) \/ VerifyExpired(c)
      PROVE  LoginInv'
  <2>1. CASE IssueChallenge(c)
    BY <2>1, ChallengeStep DEF IssueChallenge, LoginInv, Types
  <2>2. CASE ChallengeAges(c)
    BY <2>2, ChallengeStep DEF ChallengeAges, LoginInv, Types
  <2>3. CASE VerifyExpired(c)
    BY <2>3, ChallengeStep DEF VerifyExpired, LoginInv, Types
  <2> QED
    BY <1>1, <2>1, <2>2, <2>3
<1>2. CASE ConfirmEmail
  BY <1>2, ChallengeStep DEF ConfirmEmail, LoginInv, Types
<1>3. ASSUME NEW r \in Request,
             VerifyUnconfirmed(r) \/ ServerStops(r) \/ VerifyWrongFails(r)
      PROVE  LoginInv'
  <2>1. /\ request' = [request EXCEPT ![r] = Idle] /\ sessions' = sessions
        /\ UNCHANGED <<challenge, verified, twice, undeleted>>
        /\ \/ UNCHANGED <<attempts, locked, wrong, served, crossed>>
           \/ wrong' = wrong + 1 /\ crossed' = TRUE /\ UNCHANGED <<attempts, locked, served>>
    <3>1. CASE VerifyUnconfirmed(r)
      BY <3>1 DEF VerifyUnconfirmed
    <3>2. CASE ServerStops(r)
      BY <3>2 DEF ServerStops
    <3>3. CASE VerifyWrongFails(r)
      BY <3>3 DEF VerifyWrongFails
    <3> QED
      BY <1>3, <3>1, <3>2, <3>3
  <2>2. sessions' \in [Challenge -> Nat]
    BY <2>1 DEF LoginInv, Types
  <2>3. CountsFailures' /\ LockedAtLimit'
    BY <2>1 DEF LoginInv, CountsFailures, LockedAtLimit
  <2> QED
    BY <2>1, <2>2, <2>3, EndStep
<1>4. CASE UNCHANGED loginVars
  BY <1>4, ChallengeStep DEF loginVars, LoginInv, Types
<1> QED
  BY <1>1, <1>2, <1>3, <1>4, LoadStep, ConsumeStep, WrongStep, RightStep, RightFailsStep,
     IssueStep, LockExpiresStep DEF LoginNext

(***************************************************************************)
(* The inductive invariant of a login: what requests have read relates to  *)
(* the account as the counter and the challenges say.                      *)
(***************************************************************************)
THEOREM LoginInvariant == LoginSpec => []LoginInv
<1>1. LoginInit => LoginInv
  BY InitInv
<1>2. LoginInv /\ [LoginNext]_loginVars => LoginInv'
  BY NextInv
<1> QED
  BY <1>1, <1>2, PTL DEF LoginSpec

(***************************************************************************)
(* "Single-use: always delete the challenge": whatever interleaves, fails  *)
(* or stops, a challenge gives one session unless it was read twice before *)
(* it was deleted, or its DELETE failed, whose error the handler drops.    *)
(***************************************************************************)
THEOREM ChallengeIsSingleUse == LoginSpec => []OneSessionPerChallenge
<1>1. LoginInv => OneSessionPerChallenge
  BY DEF LoginInv, Alone, OneSessionPerChallenge
<1> QED
  BY <1>1, LoginInvariant, PTL

(***************************************************************************)
(* The lockout holds for every limit: failed_attempts is the number of     *)
(* consecutive failures, unless since the last success that was written    *)
(* two have crossed or one was not written, and with the limit reached the *)
(* account is locked, unless a lock has expired since the last failure.    *)
(***************************************************************************)
THEOREM LockoutHolds == LoginSpec => []LockoutIsExact
<1>1. LoginInv => LockoutIsExact
  BY DEF LoginInv, LockoutIsExact
<1> QED
  BY <1>1, LoginInvariant, PTL

=============================================================================
