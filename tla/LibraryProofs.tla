------------------------------ MODULE LibraryProofs ------------------------------
(***************************************************************************)
(* Theorems about the key and the devices of a library: Onboarding, Rekey, *)
(* LibraryLogin and Migration, for every set of clients and machines and   *)
(* every value of the bounds.                                              *)
(***************************************************************************)
EXTENDS Onboarding, Rekey, LibraryLogin, Migration,
        FiniteSetTheorems, WellFoundedInduction, TLAPS

-----------------------------------------------------------------------------
(* Onboarding: the inductive invariant, in parts. *)

OnboardingTypes ==
  /\ stored \in [Library -> SUBSET Row] /\ created \subseteq Library
  /\ enrolls \in 0 .. MaxEnrolls
  /\ enrolled \in [0 .. MaxEnrolls -> [library : SUBSET Library, fresh : BOOLEAN,
                                       status : {"none", "pending", "active"}]]
  /\ {identity, config, session, joining} \subseteq 0 .. enrolls
  /\ {rows, mine, logged, pushed} \subseteq SUBSET Row /\ provisioned \in BOOLEAN
  /\ phase \in {"idle", "account", "token", "identity", "config", "backfill",
                "push", "mark", "restore"}
  /\ mishap \subseteq {"joined", "cut", "moved", "astray"}

\* An enrollment is of one library; the first one of a library needs no approval.
EachOfOne ==
  \A n \in Enrolled : /\ \E l \in created : enrolled[n].library = {l}
                      /\ enrolled[n].fresh => enrolled[n].status = "active"

\* What a command has seen to before its next step.
SeenTo ==
  /\ phase \in {"token", "identity", "config"} => joining # 0
  /\ phase = "config" \/ config # 0 \/ provisioned => identity # 0
  /\ phase \in {"backfill", "push", "mark", "restore"} => config # 0

\* Only a row that was there before the identity can be without an op.
Covered == Unlogged = {} \/ mishap \cap {"joined", "cut"} # {}

CoveredOnceConfigured ==
  /\ config # 0 => Covered \/ phase = "backfill"
  /\ provisioned => Covered

\* A row of this device is in some library if and only if it is marked.
MarkedIsStored ==
  /\ pushed \subseteq logged /\ logged \subseteq rows /\ mine \subseteq rows
  /\ \A l \in Library : stored[l] \cap mine \subseteq pushed
  /\ \A x \in pushed \cap mine : \E l \in Library : x \in stored[l]

OnboardingInv ==
  OnboardingTypes /\ EachOfOne /\ SeenTo /\ CoveredOnceConfigured
  /\ MarkedIsStored /\ LibraryHoldsPushed

-----------------------------------------------------------------------------

\* Before sync is set up only the rows of the library are there.
LEMMA OnboardingInitInv == OnboardingInit => OnboardingInv
<1> SUFFICES ASSUME OnboardingInit PROVE OnboardingInv
  OBVIOUS
<1>1. OnboardingTypes /\ EachOfOne
  <2>1. Enrolled = {} /\ 0 \in 0 .. MaxEnrolls
    BY OnboardingAssumption DEF OnboardingInit, Enrolled
  <2>2. OnboardingTypes
    <3>1. /\ enrolled = [n \in 0 .. MaxEnrolls |-> NoDevice] /\ enrolls = 0 /\ phase = "idle"
          /\ identity = 0 /\ config = 0 /\ session = 0 /\ joining = 0 /\ mishap = {}
          /\ rows \subseteq Row /\ mine = rows /\ logged = {} /\ pushed = {}
          /\ created = {} /\ stored = [l \in Library |-> {}] /\ provisioned = FALSE
      BY DEF OnboardingInit
    <3>2. NoDevice \in [library : SUBSET Library, fresh : BOOLEAN,
                       status : {"none", "pending", "active"}]
      BY DEF NoDevice
    <3>3. provisioned \in BOOLEAN
      BY <3>1
    <3>4. {identity, config, session, joining} \subseteq 0 .. enrolls
      BY <3>1
    <3> QED
      BY <2>1, <3>1, <3>2, <3>3, <3>4 DEF OnboardingTypes
  <2> QED
    BY <2>1, <2>2 DEF EachOfOne
<1>2. SeenTo /\ CoveredOnceConfigured /\ MarkedIsStored /\ LibraryHoldsPushed
  BY DEF OnboardingInit, SeenTo, CoveredOnceConfigured, MarkedIsStored, LibraryHoldsPushed
<1> QED
  BY <1>1, <1>2 DEF OnboardingInv

\* An enrollment is a record of its library, its order and its status.
LEMMA EnrolledType ==
  ASSUME OnboardingInv, NEW n \in 0 .. enrolls
  PROVE  /\ enrolled[n] \in [library : SUBSET Library, fresh : BOOLEAN,
                             status : {"none", "pending", "active"}]
         /\ n # 0 => n \in Enrolled
BY OnboardingAssumption DEF OnboardingInv, OnboardingTypes, Enrolled

\* The steps of a command that move no row.
LEMMA NoRowMoves ==
  ASSUME OnboardingInv, OnboardingTypes', EachOfOne', SeenTo',
         UNCHANGED <<stored, rows, mine, logged, pushed>>,
         enrolled'[config].library = enrolled[config].library,
         config' \in {config, 0}, mishap \subseteq mishap',
         provisioned' => Covered \/ provisioned,
         phase = "backfill" => phase' = "backfill" \/ Covered'
  PROVE  OnboardingInv'
<1>1. Covered => Covered'
  BY DEF Covered, Unlogged
<1>2. CoveredOnceConfigured'
  BY <1>1 DEF OnboardingInv, CoveredOnceConfigured
<1>3. MarkedIsStored' /\ LibraryHoldsPushed'
  BY DEF OnboardingInv, MarkedIsStored, LibraryHoldsPushed
<1> QED
  BY <1>2, <1>3 DEF OnboardingInv

\* Rows that the user writes, with and without an identity.
LEMMA UserWritesStep ==
  ASSUME OnboardingInv, NEW x \in Row, UserWrites(x)
  PROVE  OnboardingInv'
<1>1. x \notin rows /\ \A l \in Library : x \notin stored[l]
  BY DEF UserWrites, Elsewhere
<1>2. /\ rows' = rows \cup {x} /\ mine' = mine \cup {x}
      /\ logged' = IF identity = 0 THEN logged ELSE logged \cup {x}
      /\ UNCHANGED <<stored, created, enrolled, pushed, identity, provisioned, config,
                     session, phase, joining, enrolls, mishap>>
  BY DEF UserWrites, remote, bounds
<1>3. OnboardingTypes' /\ EachOfOne' /\ SeenTo'
  BY <1>2 DEF OnboardingInv, OnboardingTypes, EachOfOne, SeenTo, Enrolled
<1>4. CoveredOnceConfigured'
  BY <1>2 DEF OnboardingInv, SeenTo, CoveredOnceConfigured, Covered, Unlogged
<1>5. MarkedIsStored'
  BY <1>1, <1>2 DEF OnboardingInv, MarkedIsStored
<1>6. LibraryHoldsPushed'
  BY <1>1, <1>2 DEF OnboardingInv, MarkedIsStored, LibraryHoldsPushed
<1> QED
  BY <1>3, <1>4, <1>5, <1>6 DEF OnboardingInv

\* Rows that other devices push.
LEMMA OthersPushStep ==
  ASSUME OnboardingInv, NEW l \in Library, NEW x \in Row, OthersPush(l, x)
  PROVE  OnboardingInv'
<1>1. x \notin rows
  BY DEF OthersPush, Elsewhere
<1>2. /\ stored' = [stored EXCEPT ![l] = @ \cup {x}]
      /\ UNCHANGED <<created, enrolled, rows, mine, logged, pushed, identity, provisioned,
                     config, session, phase, joining, enrolls, mishap>>
  BY DEF OthersPush, local, bounds
<1>3. /\ OnboardingTypes' /\ EachOfOne' /\ SeenTo' /\ CoveredOnceConfigured'
      /\ \A k \in Library : stored[k] \subseteq stored'[k] /\ stored'[k] \subseteq stored[k] \cup {x}
  BY <1>2 DEF OnboardingInv, OnboardingTypes, EachOfOne, SeenTo, Enrolled,
              CoveredOnceConfigured, Covered, Unlogged
<1>4. MarkedIsStored'
  BY <1>1, <1>2, <1>3 DEF OnboardingInv, MarkedIsStored
<1>5. LibraryHoldsPushed'
  <2>1. enrolled[config].library \subseteq Library
    BY EnrolledType DEF OnboardingInv, OnboardingTypes
  <2> QED
    BY <1>2, <1>3, <2>1 DEF OnboardingInv, LibraryHoldsPushed
<1> QED
  BY <1>3, <1>4, <1>5 DEF OnboardingInv

\* Push sends what is logged and not marked, and marks it.
LEMMA PushStep ==
  ASSUME OnboardingInv, Push, phase' \in {phase, "mark"}, phase = "push" \/ phase' = phase
  PROVE  OnboardingInv'
<1>1. /\ session \in Enrolled /\ session # 0
      /\ stored' = [l \in Library |-> IF l \in enrolled[session].library
                                        THEN stored[l] \cup (logged \ pushed) ELSE stored[l]]
      /\ pushed' = logged
      /\ mishap' = IF session = config \/ logged = pushed THEN mishap
                   ELSE mishap \cup {"astray"}
      /\ UNCHANGED <<created, enrolled, rows, mine, logged, identity, provisioned, config,
                     session, joining, enrolls>>
  BY EnrolledType DEF Push, bounds, OnboardingInv, OnboardingTypes
<1>2. PICK l \in Library : enrolled[session].library = {l}
  BY <1>1 DEF OnboardingInv, OnboardingTypes, EachOfOne
<1>3. OnboardingTypes'
  <2>1. stored' \in [Library -> SUBSET Row]
    BY <1>1 DEF OnboardingInv, OnboardingTypes
  <2> QED
    BY <1>1, <2>1 DEF OnboardingInv, OnboardingTypes
<1>4. EachOfOne' /\ SeenTo'
  BY <1>1 DEF OnboardingInv, EachOfOne, SeenTo, Enrolled
<1>5. CoveredOnceConfigured'
  BY <1>1 DEF OnboardingInv, CoveredOnceConfigured, Covered, Unlogged
<1>6. MarkedIsStored'
  BY <1>1, <1>2 DEF OnboardingInv, MarkedIsStored
<1>7. LibraryHoldsPushed'
  <2>1. CASE session = config
    BY <1>1, <1>2, <2>1 DEF OnboardingInv, LibraryHoldsPushed
  <2>2. CASE logged = pushed
    <3>1. stored' = stored
      BY <1>1, <2>2 DEF OnboardingInv, OnboardingTypes
    <3> QED
      BY <1>1, <2>2, <3>1 DEF OnboardingInv, LibraryHoldsPushed
  <2>3. CASE session # config /\ logged # pushed
    BY <1>1, <2>3 DEF LibraryHoldsPushed
  <2> QED
    BY <2>1, <2>2, <2>3
<1> QED
  BY <1>3, <1>4, <1>5, <1>6, <1>7 DEF OnboardingInv

\* Pull stages what it finds as logged and marked.
LEMMA PullStep ==
  ASSUME OnboardingInv, Pull, phase' \in {phase, "mark"}, phase = "restore" \/ phase' = phase
  PROVE  OnboardingInv'
<1> DEFINE held == UNION {stored[l] : l \in enrolled[session].library}
           foreign == IF session = identity THEN held \ mine ELSE held
<1>1. /\ session \in Enrolled
      /\ rows' = rows \cup foreign /\ logged' = logged \cup foreign
      /\ pushed' = pushed \cup foreign
      /\ UNCHANGED <<stored, created, enrolled, mine, identity, provisioned, config,
                     session, joining, enrolls, mishap>>
  BY EnrolledType DEF Pull, remote, bounds, OnboardingInv, OnboardingTypes
<1>2. PICK l \in Library : enrolled[session].library = {l}
  BY <1>1 DEF OnboardingInv, OnboardingTypes, EachOfOne
<1>3. foreign \subseteq stored[l] /\ foreign \subseteq Row
  BY <1>2 DEF OnboardingInv, OnboardingTypes
<1> HIDE DEF foreign
<1>4. foreign \cap mine \subseteq pushed
  BY <1>3 DEF OnboardingInv, MarkedIsStored
<1>5. OnboardingTypes' /\ EachOfOne' /\ SeenTo'
  BY <1>1, <1>3 DEF OnboardingInv, OnboardingTypes, EachOfOne, SeenTo, Enrolled
<1>6. CoveredOnceConfigured'
  BY <1>1 DEF OnboardingInv, CoveredOnceConfigured, Covered, Unlogged
<1>7. MarkedIsStored' /\ LibraryHoldsPushed'
  BY <1>1, <1>4 DEF OnboardingInv, MarkedIsStored, LibraryHoldsPushed
<1> QED
  BY <1>5, <1>6, <1>7 DEF OnboardingInv

\* sync connect: the account, the token and the identity.
LEMMA JoinStep ==
  ASSUME OnboardingInv, NEW l \in Library, JoinFresh(l) \/ JoinExisting(l)
  PROVE  OnboardingInv'
<1>1. PICK new \in BOOLEAN : Join({l}, new) /\ (new <=> l \notin created)
  BY DEF JoinFresh, JoinExisting
<1>2. PICK status \in {"pending", "active"} :
        /\ enrolled' = [enrolled EXCEPT ![enrolls + 1] =
                          [library |-> {l}, fresh |-> new, status |-> status]]
        /\ new => status = "active"
  <2>1. new => ~ \E n \in Enrolled : enrolled[n].library = {l}
    BY <1>1 DEF OnboardingInv, EachOfOne
  <2> QED
    BY <1>1, <2>1 DEF Join
<1>3. /\ enrolls + 1 \in 0 .. MaxEnrolls /\ enrolls' = enrolls + 1 /\ joining' = enrolls + 1
      /\ created' = created \cup {l} /\ phase' = "token" /\ phase \in {"idle", "account"}
      /\ UNCHANGED <<stored, rows, mine, logged, pushed, identity, provisioned, config,
                     session, mishap>>
  BY <1>1, OnboardingAssumption DEF Join, local, OnboardingInv, OnboardingTypes
<1>4. OnboardingTypes'
  <2>1. enrolled' \in [0 .. MaxEnrolls -> [library : SUBSET Library, fresh : BOOLEAN,
                                           status : {"none", "pending", "active"}]]
    BY <1>2 DEF OnboardingInv, OnboardingTypes
  <2> QED
    BY <1>3, <2>1 DEF OnboardingInv, OnboardingTypes
<1>5. EachOfOne'
  <2>1. ASSUME NEW n \in Enrolled' 
        PROVE  /\ \E k \in created' : enrolled'[n].library = {k}
               /\ enrolled'[n].fresh => enrolled'[n].status = "active"
    <3>1. CASE n = enrolls + 1
      BY <1>2, <1>3, <3>1 DEF OnboardingInv, OnboardingTypes
    <3>2. CASE n # enrolls + 1
      <4>1. n \in Enrolled /\ n \in 0 .. MaxEnrolls
        BY <1>3, <3>2, OnboardingAssumption DEF Enrolled, OnboardingInv, OnboardingTypes
      <4> QED
        BY <1>2, <1>3, <3>2, <4>1 DEF OnboardingInv, OnboardingTypes, EachOfOne
    <3> QED
      BY <3>1, <3>2
  <2> QED
    BY <2>1 DEF EachOfOne
<1>6. SeenTo'
  BY <1>3 DEF OnboardingInv, OnboardingTypes, SeenTo
<1>7. enrolled'[config].library = enrolled[config].library
  BY <1>2, <1>3, OnboardingAssumption DEF OnboardingInv, OnboardingTypes
<1> QED
  BY <1>3, <1>4, <1>5, <1>6, <1>7, NoRowMoves

\* The configuration is stored, and the backfill is due.
LEMMA KeepConfigStep ==
  ASSUME OnboardingInv, KeepConfig
  PROVE  OnboardingInv'
<1>1. joining \in Enrolled /\ joining # 0
  BY EnrolledType DEF KeepConfig, OnboardingInv, OnboardingTypes, SeenTo
<1>2. PICK l \in Library :
        /\ enrolled[joining].library = {l}
        /\ enrolled[joining].fresh => enrolled[joining].status = "active"
  BY <1>1 DEF OnboardingInv, OnboardingTypes, EachOfOne
<1>3. /\ phase = "config" /\ config' = joining
      /\ phase' = IF enrolled[joining].status # "active" THEN "idle"
                  ELSE IF enrolled[joining].fresh THEN "backfill" ELSE "restore"
      /\ UNCHANGED <<stored, created, enrolled, rows, mine, logged, pushed, identity,
                     provisioned, session, joining, enrolls>>
  BY DEF KeepConfig, remote, bounds
<1>4. /\ mishap \subseteq mishap' /\ mishap' \subseteq mishap \cup {"moved", "joined"}
      /\ ~enrolled[joining].fresh /\ Unlogged # {} => "joined" \in mishap'
      /\ "moved" \notin mishap' =>
           \A k \in Library \ {l} : stored[k] \cap pushed \cap mine = {}
  <2> DEFINE moved == IF \E k \in Library \ enrolled[joining].library :
                           stored[k] \cap pushed \cap mine # {} THEN {"moved"} ELSE {}
             joined == IF ~enrolled[joining].fresh /\ Unlogged # {} THEN {"joined"} ELSE {}
  <2>1. mishap' = mishap \cup moved \cup joined
    BY DEF KeepConfig
  <2> QED
    BY <1>2, <2>1
<1>5. OnboardingTypes'
  BY <1>3, <1>4 DEF OnboardingInv, OnboardingTypes
<1>6. EachOfOne' /\ SeenTo'
  BY <1>1, <1>3 DEF OnboardingInv, EachOfOne, SeenTo, Enrolled
<1>7. CoveredOnceConfigured'
  BY <1>2, <1>3, <1>4 DEF OnboardingInv, CoveredOnceConfigured, Covered, Unlogged
<1>8. MarkedIsStored'
  BY <1>3 DEF OnboardingInv, MarkedIsStored
<1>9. LibraryHoldsPushed'
  BY <1>2, <1>3, <1>4 DEF OnboardingInv, MarkedIsStored, LibraryHoldsPushed
<1> QED
  BY <1>5, <1>6, <1>7, <1>8, <1>9 DEF OnboardingInv

\* The backfill gives an op to every row that has none.
LEMMA BackfillStep ==
  ASSUME OnboardingInv, Backfill
  PROVE  OnboardingInv'
<1>1. /\ phase = "backfill" /\ phase' \in {"mark", "push"} /\ logged' = rows
      /\ mishap' = mishap \ {"joined", "cut"}
      /\ UNCHANGED <<stored, created, enrolled, rows, mine, pushed, identity, provisioned,
                     config, session, joining, enrolls>>
  BY DEF Backfill, remote, bounds
<1>2. OnboardingTypes' /\ EachOfOne' /\ SeenTo'
  BY <1>1 DEF OnboardingInv, OnboardingTypes, EachOfOne, SeenTo, Enrolled
<1>3. CoveredOnceConfigured'
  BY <1>1 DEF CoveredOnceConfigured, Covered, Unlogged
<1>4. MarkedIsStored' /\ LibraryHoldsPushed'
  BY <1>1 DEF OnboardingInv, MarkedIsStored, LibraryHoldsPushed
<1> QED
  BY <1>2, <1>3, <1>4 DEF OnboardingInv

\* An approval, and the end of a session.
LEMMA ApproveStep ==
  ASSUME OnboardingInv, NEW n \in Enrolled, Approve(n)
  PROVE  OnboardingInv'
<1>1. /\ n \in 0 .. MaxEnrolls
      /\ enrolled' = [enrolled EXCEPT ![n].status = "active"]
      /\ UNCHANGED <<stored, created, rows, mine, logged, pushed, identity, provisioned,
                     config, session, phase, joining, enrolls, mishap>>
  BY OnboardingAssumption DEF Approve, local, bounds, Enrolled, OnboardingInv, OnboardingTypes
<1>2. enrolled' \in [0 .. MaxEnrolls -> [library : SUBSET Library, fresh : BOOLEAN,
                                         status : {"none", "pending", "active"}]]
  BY <1>1 DEF OnboardingInv, OnboardingTypes
<1>3. \A k \in 0 .. MaxEnrolls :
        /\ enrolled'[k].library = enrolled[k].library
        /\ enrolled'[k].fresh = enrolled[k].fresh
        /\ enrolled[k].status = "active" => enrolled'[k].status = "active"
  BY <1>1 DEF OnboardingInv, OnboardingTypes
<1>4. OnboardingTypes' /\ SeenTo'
  BY <1>1, <1>2 DEF OnboardingInv, OnboardingTypes, SeenTo
<1>5. EachOfOne'
  BY <1>1, <1>3, OnboardingAssumption DEF OnboardingInv, OnboardingTypes, EachOfOne, Enrolled
<1>6. enrolled'[config].library = enrolled[config].library
  BY <1>3, OnboardingAssumption DEF OnboardingInv, OnboardingTypes
<1> QED
  BY <1>1, <1>4, <1>5, <1>6, NoRowMoves

\* What is left of the commands.
LEMMA CommandStep ==
  ASSUME OnboardingInv,
         \/ SignupAccount \/ KeepToken \/ KeepIdentity \/ Mark \/ RecoverRefused
         \/ ResetCursor \/ Cut \/ Login \/ Disable \/ UNCHANGED onboardingVars
  PROVE  OnboardingInv'
<1>1. /\ UNCHANGED <<stored, created, enrolled, rows, mine, logged, pushed, joining, enrolls>>
      /\ config' \in {config, 0} /\ identity' \in {identity, joining}
      /\ session' \in {session, joining, config, 0}
      /\ mishap \subseteq mishap' /\ mishap' \subseteq mishap \cup {"cut"}
      /\ phase = "backfill" => phase' = "backfill" \/ Unlogged = {} \/ "cut" \in mishap'
      /\ provisioned' = provisioned \/ (provisioned' = TRUE /\ phase = "mark")
  BY DEF SignupAccount, KeepToken, KeepIdentity, Mark, RecoverRefused, ResetCursor, Cut,
         Login, Disable, onboardingVars, remote, local, bounds, Goto
<1>2. phase' \in {"idle", "account", "token", "identity", "config", "backfill",
                  "push", "mark", "restore"}
  BY DEF SignupAccount, KeepToken, KeepIdentity, Mark, RecoverRefused, ResetCursor, Cut,
         Login, Disable, onboardingVars, Goto, OnboardingInv, OnboardingTypes
<1>3. OnboardingTypes'
  <2>1. provisioned' \in BOOLEAN
    BY <1>1 DEF OnboardingInv, OnboardingTypes
  <2>2. {identity', config', session', joining'} \subseteq 0 .. enrolls'
    BY <1>1 DEF OnboardingInv, OnboardingTypes
  <2> QED
    BY <1>1, <1>2, <2>1, <2>2 DEF OnboardingInv, OnboardingTypes
<1>4. EachOfOne'
  BY <1>1 DEF OnboardingInv, EachOfOne, Enrolled
<1>5. SeenTo'
  BY DEF SignupAccount, KeepToken, KeepIdentity, Mark, RecoverRefused, ResetCursor, Cut,
         Login, Disable, onboardingVars, remote, local, bounds, Goto, OnboardingInv, SeenTo
<1>6. phase = "mark" => Covered
  BY DEF OnboardingInv, SeenTo, CoveredOnceConfigured
<1>7. phase = "backfill" => phase' = "backfill" \/ Covered'
  BY <1>1 DEF Covered, Unlogged
<1> QED
  BY <1>1, <1>3, <1>4, <1>5, <1>6, <1>7, NoRowMoves

\* Every step of the onboarding keeps the invariant.
LEMMA OnboardingNextInv ==
  ASSUME OnboardingInv, [OnboardingNext]_onboardingVars
  PROVE  OnboardingInv'
<1>1. CASE RunPush \/ BackfillPush
  BY <1>1, PushStep DEF RunPush, BackfillPush, Goto
<1>2. CASE RunPull \/ Recover
  BY <1>2, PullStep DEF RunPull, Recover, Goto
<1> QED
  BY <1>1, <1>2, UserWritesStep, OthersPushStep, JoinStep, KeepConfigStep, BackfillStep,
     ApproveStep, CommandStep DEF OnboardingNext

(***************************************************************************)
(* The inductive invariant of signup, enroll, login and disable: which     *)
(* rows can be without an op, and where the marked ones are.               *)
(***************************************************************************)
THEOREM OnboardingInvariant == OnboardingSpec => []OnboardingInv
<1>1. OnboardingInit => OnboardingInv
  BY OnboardingInitInv
<1>2. OnboardingInv /\ [OnboardingNext]_onboardingVars => OnboardingInv'
  BY OnboardingNextInv
<1> QED
  BY <1>1, <1>2, PTL DEF OnboardingSpec

(***************************************************************************)
(* For any number of rows, libraries and enrollments: once a device counts *)
(* as provisioned every row has its op, and what it has marked as pushed   *)
(* is in its library, with the exceptions that the property names.         *)
(***************************************************************************)
THEOREM OptInCompletes == OnboardingSpec => []OptInIsComplete
<1>1. OnboardingInv => OptInIsComplete
  BY DEF OnboardingInv, CoveredOnceConfigured, Covered, OptInIsComplete, OptInCovers
<1> QED
  BY <1>1, OnboardingInvariant, PTL

-----------------------------------------------------------------------------
(* Rekey: the inductive invariant, in parts. *)

ClientPhase == {"idle", "salted", "fetched", "requested", "answered", "downloaded", "uploaded"}

PushRecord == [phase : {"idle", "checked", "stored"}, ops : SUBSET Stamp, key : Key,
               seen : Nat, calm : BOOLEAN]
ClientRecord == [phase : ClientPhase, old : Key, new : Key, ops : SUBSET Stamp,
                 stamp : 0 .. MaxOp, covers : SUBSET Stamp]
HandlerRecord == [phase : {"none", "locked", "unlocking"}, ops : SUBSET Stamp, done : BOOLEAN]
SnapshotRecord == [stamp : 0 .. MaxOp, covers : SUBSET Stamp, key : Key]

RekeyTypes ==
  /\ own \in [Client -> SUBSET Stamp] /\ unpushed \in [Client -> SUBSET Stamp]
  /\ key \in [Client -> Key] /\ push \in [Client -> PushRecord]
  /\ client \in [Client -> ClientRecord] /\ handler \in [Rekeys -> HandlerRecord]
  /\ Stored \subseteq Stamp /\ DOMAIN bundle \subseteq Stamp
  /\ salt \in Key /\ lock \in BOOLEAN /\ quota \in Nat /\ rekeys \in 0 .. MaxRekeys
  /\ snapshot \in SnapshotRecord /\ pruned \subseteq Stamp

\* A rekey has its number from the request on.
Numbered(c) == client[c].phase \notin {"idle", "salted"}

NumbersAreOnce ==
  /\ \A c \in Client : Numbered(c) => client[c].new \in 1 .. rekeys
  /\ \A c, d \in Client : Numbered(c) /\ Numbered(d) /\ client[c].new = client[d].new => c = d
  /\ \A n \in Running : n <= rekeys
  /\ \A c \in Client : Numbered(c) /\ client[c].new \in Running => client[c].phase = "requested"

\* The key of a rekey that has not reached the transaction is nowhere yet.
Upcoming(n) ==
  \/ n > rekeys
  \/ handler[n].phase = "locked"
  \/ \E c \in Client : client[c].phase = "fetched" /\ client[c].new = n

UpcomingIsUnused ==
  \A n \in Rekeys : Upcoming(n) =>
    salt # n /\ \A c \in Client : key[c] # n /\ client[c].old # n

\* After its transaction the key it was made with has gone for good.
Through(c) ==
  \/ client[c].phase \in {"answered", "downloaded", "uploaded"}
  \/ client[c].phase = "requested" /\ handler[client[c].new].done

OldIsGone == \A c \in Client : Through(c) => client[c].old # salt

\* What a device with the newest key finds after it has uploaded the snapshot.
Bent == events \cap {"superseded", "tied", "outdated"} # {}
UploadedIsReadable ==
  \A c \in Client : client[c].phase = "uploaded" /\ client[c].new = salt =>
    snapshot.key = salt \/ Bent

\* A snapshot has a date, and what is stored before it came behind it.
SnapshotsAreDated ==
  /\ snapshot = NoSnapshot \/ snapshot.stamp # 0
  /\ \A c \in Client : client[c].phase = "downloaded" => client[c].stamp # 0
  /\ \A h \in Stored : h <= snapshot.stamp => h \in late

\* The copies of the ops that a rekey will put in their place.
Copies == {client[c].ops : c \in {d \in Client : client[d].phase = "fetched"}}
          \cup {handler[n].ops : n \in {m \in Rekeys : handler[m].phase = "locked"}}
Gone == pruned \cup raced

\* Without overlap the lock keeps the copies and the server together.
CopiesAreWhole ==
  "overlap" \notin events =>
    /\ \A m, n \in Running : m = n
    /\ Running # {} => lock
    /\ \A c \in Client : push[c].phase = "checked" => push[c].calm
    /\ \A X \in Copies : X \cup Gone = Stored \cup Gone
    /\ DOMAIN bundle \subseteq Stored \cup Gone
    /\ \A c \in Client : push[c].phase = "stored" => push[c].ops \subseteq Stored \cup Gone

\* A push that has passed its check fits, as does every copy.
Crowded == events \cap {"crowded", "restored"} # {}
FitsQuota ==
  /\ \A c \in Client : push[c].phase = "checked" =>
       push[c].seen + Cardinality(push[c].ops) <= quota
  /\ Crowded \/ \A X \in Copies : Cardinality(X) <= quota

RekeyInv ==
  /\ RekeyTypes /\ NumbersAreOnce /\ UpcomingIsUnused /\ OldIsGone /\ UploadedIsReadable
  /\ SnapshotsAreDated /\ CopiesAreWhole /\ FitsQuota
  /\ LibraryIsWhole /\ PushIsHonoured

-----------------------------------------------------------------------------

\* Initially nothing is stored, and no rekey has a number.
LEMMA RekeyInitInv == RekeyInit => RekeyInv
<1> SUFFICES ASSUME RekeyInit PROVE RekeyInv
  OBVIOUS
<1>1. /\ Stored = {} /\ DOMAIN bundle = {} /\ Cardinality(Stored) = 0
      /\ quota \in Nat
  BY FS_EmptySet, RekeyAssumption DEF RekeyInit, Stored
<1>2. 0 \in Key /\ 0 \in 0 .. MaxOp /\ 0 \in 0 .. MaxRekeys
  BY RekeyAssumption DEF Key
<1>3. NoPush \in PushRecord /\ NoRekey \in ClientRecord /\ NoHandler \in HandlerRecord
      /\ NoSnapshot \in SnapshotRecord
  BY <1>2 DEF NoPush, NoRekey, NoHandler, NoSnapshot, PushRecord, ClientRecord, ClientPhase,
              HandlerRecord, SnapshotRecord
<1>4. RekeyTypes
  <2>1. lock \in BOOLEAN
    BY DEF RekeyInit
  <2> QED
    BY <1>1, <1>2, <1>3, <2>1 DEF RekeyInit, RekeyTypes
<1>5. /\ Running = {} /\ Copies = {} /\ salt = 0
      /\ \A c \in Client : client[c] = NoRekey /\ push[c] = NoPush /\ key[c] = 0
      /\ \A n \in Rekeys : handler[n] = NoHandler
  BY DEF RekeyInit, Running, Copies, NoRekey, NoHandler
<1>6. NumbersAreOnce /\ OldIsGone /\ UploadedIsReadable
  BY <1>5 DEF NumbersAreOnce, Numbered, OldIsGone, Through, UploadedIsReadable, NoRekey
<1>7. UpcomingIsUnused
  BY <1>5, RekeyAssumption DEF UpcomingIsUnused, NoRekey, Rekeys
<1>8. SnapshotsAreDated /\ CopiesAreWhole /\ FitsQuota
  BY <1>1, <1>5 DEF SnapshotsAreDated, CopiesAreWhole, FitsQuota, RekeyInit, NoRekey, NoPush
<1>9. LibraryIsWhole
  BY <1>1 DEF LibraryIsWhole, ServerReadable, SnapshotReadable, PrunedIsCovered, RekeyInit
<1>10. PushIsHonoured
  BY <1>1 DEF PushIsHonoured, RekeyKeepsPushed, LockReleased, QuotaRespected, RekeyInit
<1> QED
  BY <1>4, <1>6, <1>7, <1>8, <1>9, <1>10 DEF RekeyInv

\* Sets of ops are finite, and the server holds finitely many.
LEMMA Sizes ==
  ASSUME RekeyInv
  PROVE  /\ \A X \in SUBSET Stamp : IsFiniteSet(X) /\ Cardinality(X) \in Nat
         /\ Cardinality(Stored) \in Nat
<1>1. IsFiniteSet(Stamp)
  BY FS_Interval, RekeyAssumption DEF Stamp
<1>2. \A X \in SUBSET Stamp : IsFiniteSet(X) /\ Cardinality(X) \in Nat
  BY <1>1, FS_Subset, FS_CardinalityType
<1> QED
  BY <1>2 DEF RekeyInv, RekeyTypes

\* The number of a client that has one.
LEMMA Number ==
  ASSUME RekeyInv, NEW c \in Client, Numbered(c)
  PROVE  client[c].new \in Rekeys
BY RekeyAssumption DEF RekeyInv, RekeyTypes, NumbersAreOnce, Rekeys

\* What the upload of a snapshot leaves on the server.
LEMMA UploadType ==
  ASSUME RekeyInv, NEW new \in SnapshotRecord, Upload(new)
  PROVE  /\ DOMAIN server' \subseteq Stored /\ pruned' \subseteq Stamp
         /\ snapshot' \in SnapshotRecord
BY DEF Upload, RekeyInv, RekeyTypes, Stored

\* What a client of a rekey does to its own record.
LEMMA ClientChange ==
  ASSUME RekeyInv, NEW c \in Client, NEW new \in ClientRecord,
         client' = [client EXCEPT ![c] = new]
  PROVE  client' \in [Client -> ClientRecord]
BY DEF RekeyInv, RekeyTypes

\* A client whose request ends has its answer or starts over.
LEMMA ClientAnswered ==
  ASSUME RekeyInv, NEW c \in Client
  PROVE  [client[c] EXCEPT !.phase = "answered"] \in ClientRecord /\ NoRekey \in ClientRecord
<1>1. client[c] \in ClientRecord
  BY DEF RekeyInv, RekeyTypes
<1>2. 0 \in Key /\ 0 \in 0 .. MaxOp
  BY RekeyAssumption DEF Key
<1> QED
  BY <1>1, <1>2 DEF ClientRecord, ClientPhase, NoRekey

\* Every step keeps the types.
LEMMA RekeyTypesStep ==
  ASSUME RekeyInv, [RekeyNext]_rekeyVars
  PROVE  RekeyTypes'
<1> USE DEF Stored
<1>1. ASSUME NEW c \in Client, NEW h \in Stamp, Emit(c, h) PROVE RekeyTypes'
  BY <1>1 DEF Emit, RekeyInv, RekeyTypes, serverVars, counters, history
<1>2. ASSUME NEW c \in Client, PushCheck(c) PROVE RekeyTypes'
  <2>1. [phase |-> "checked", ops |-> unpushed[c], key |-> key[c],
         seen |-> Cardinality(Stored), calm |-> Running = {}] \in PushRecord
    BY Sizes DEF RekeyInv, RekeyTypes, PushRecord
  <2> QED
    BY <1>2, <2>1 DEF PushCheck, RekeyInv, RekeyTypes, deviceVars, serverVars, counters, history
<1>3. ASSUME NEW c \in Client, PushStore(c) PROVE RekeyTypes'
  <2>1. DOMAIN server' \subseteq Stamp /\ push' \in [Client -> PushRecord]
    BY <1>3 DEF PushStore, RekeyInv, RekeyTypes, PushRecord
  <2> QED
    BY <1>3, <2>1 DEF PushStore, RekeyInv, RekeyTypes, deviceVars, counters
<1>4. ASSUME NEW c \in Client, PushMark(c) \/ PushFails(c) PROVE RekeyTypes'
  <2>1. NoPush \in PushRecord
    BY RekeyAssumption DEF NoPush, PushRecord, Key
  <2>2. unpushed' \in [Client -> SUBSET Stamp]
    BY <1>4 DEF PushMark, PushFails, deviceVars, RekeyInv, RekeyTypes
  <2> QED
    BY <1>4, <2>1, <2>2 DEF PushMark, PushFails, Trouble, RekeyInv, RekeyTypes,
                            deviceVars, serverVars, counters, history
<1>5. ASSUME NEW c \in Compactor, NEW h \in Stamp, Compact(c, h) PROVE RekeyTypes'
  <2>1. [stamp |-> h, covers |-> Stored \cup pruned \cup own[c], key |-> key[c]]
          \in SnapshotRecord
    <3>1. h \in 0 .. MaxOp /\ c \in Client
      BY RekeyAssumption DEF Stamp
    <3> QED
      BY <3>1 DEF RekeyInv, RekeyTypes, SnapshotRecord
  <2> QED
    BY <1>5, <2>1, UploadType DEF Compact, Trouble, RekeyInv, RekeyTypes, deviceVars
<1>6. CASE Backup
  BY <1>6 DEF Backup, RekeyInv, RekeyTypes, deviceVars, serverVars, history
<1>7. CASE Restore
  <2>1. DOMAIN server' \subseteq Stamp
    BY <1>7 DEF Restore, RekeyInv, RekeyTypes
  <2> QED
    BY <1>7, <2>1 DEF Restore, Trouble, RekeyInv, RekeyTypes, deviceVars
<1>8. ASSUME NEW c \in Rekeyer, RekeySalt(c) \/ RekeyFails(c) \/ RekeyDownload(c)
      PROVE  RekeyTypes'
  <2>1. client' \in [Client -> ClientRecord]
    <3>1. NoRekey \in ClientRecord /\ c \in Client
      BY RekeyAssumption DEF NoRekey, ClientRecord, ClientPhase, Key
    <3>2. CASE RekeySalt(c)
      BY <3>1, <3>2 DEF RekeySalt, RekeyInv, RekeyTypes, ClientRecord, ClientPhase
    <3>3. CASE RekeyFails(c)
      BY <3>1, <3>3 DEF RekeyFails, RekeyInv, RekeyTypes
    <3>4. CASE RekeyDownload(c)
      <4>1. [client[c] EXCEPT !.phase = "downloaded", !.stamp = snapshot.stamp,
                              !.covers = snapshot.covers] \in ClientRecord
        BY <3>1 DEF RekeyInv, RekeyTypes, ClientRecord, ClientPhase, SnapshotRecord
      <4> QED
        BY <3>1, <3>4, <4>1 DEF RekeyDownload, RekeyInv, RekeyTypes
    <3> QED
      BY <1>8, <3>2, <3>3, <3>4
  <2> QED
    BY <1>8, <2>1 DEF RekeySalt, RekeyFails, RekeyDownload, Trouble, RekeyInv, RekeyTypes,
                      deviceVars, serverVars, counters, history
<1>9. ASSUME NEW c \in Rekeyer, RekeyFetch(c) PROVE RekeyTypes'
  <2>1. rekeys' \in 0 .. MaxRekeys /\ rekeys' \in Key /\ rekeys' = rekeys + 1
    BY <1>9, RekeyAssumption DEF RekeyFetch, RekeyInv, RekeyTypes, Key
  <2>2. client' \in [Client -> ClientRecord]
    <3>1. client[c] \in ClientRecord /\ c \in Client /\ Stored \subseteq Stamp
      BY RekeyAssumption DEF RekeyInv, RekeyTypes
    <3>2. [client[c] EXCEPT !.phase = "fetched", !.ops = Stored, !.new = rekeys + 1] \in ClientRecord
      BY <2>1, <3>1 DEF ClientRecord, ClientPhase
    <3>3. client' = [client EXCEPT ![c] = [client[c] EXCEPT !.phase = "fetched", !.ops = Stored,
                                                             !.new = rekeys + 1]]
      BY <1>9 DEF RekeyFetch
    <3> QED
      BY <3>1, <3>2, <3>3, ClientChange
  <2> QED
    BY <1>9, <2>1, <2>2 DEF RekeyFetch, RekeyInv, RekeyTypes, deviceVars, serverVars, history
<1>10. ASSUME NEW c \in Rekeyer, RekeyLock(c) PROVE RekeyTypes'
  <2>1. client' \in [Client -> ClientRecord]
    <3>1. client[c] \in ClientRecord /\ c \in Client
      BY RekeyAssumption DEF RekeyInv, RekeyTypes
    <3>2. [client[c] EXCEPT !.phase = "requested"] \in ClientRecord
      BY <3>1 DEF ClientRecord, ClientPhase
    <3>3. client' = [client EXCEPT ![c] = [client[c] EXCEPT !.phase = "requested"]]
      BY <1>10 DEF RekeyLock
    <3> QED
      BY <3>1, <3>2, <3>3, ClientChange
  <2>2. [phase |-> "locked", ops |-> client[c].ops, done |-> FALSE] \in HandlerRecord
    BY RekeyAssumption DEF RekeyInv, RekeyTypes, ClientRecord, HandlerRecord
  <2>3. handler' \in [Rekeys -> HandlerRecord]
    BY <1>10, <2>2 DEF RekeyLock, RekeyInv, RekeyTypes
  <2> QED
    BY <1>10, <2>1, <2>3 DEF RekeyLock, RekeyInv, RekeyTypes, deviceVars, counters
<1>11. ASSUME NEW c \in Rekeyer, RekeyUpload(c) PROVE RekeyTypes'
  <2>1. client' \in [Client -> ClientRecord]
    <3>1. client[c] \in ClientRecord /\ c \in Client
      BY RekeyAssumption DEF RekeyInv, RekeyTypes
    <3>2. [client[c] EXCEPT !.phase = "uploaded"] \in ClientRecord
      BY <3>1 DEF ClientRecord, ClientPhase
    <3>3. client' = [client EXCEPT ![c] = [client[c] EXCEPT !.phase = "uploaded"]]
      BY <1>11 DEF RekeyUpload
    <3> QED
      BY <3>1, <3>2, <3>3, ClientChange
  <2>2. [stamp |-> client[c].stamp, covers |-> client[c].covers, key |-> client[c].new]
          \in SnapshotRecord
    BY RekeyAssumption DEF RekeyInv, RekeyTypes, ClientRecord, SnapshotRecord
  <2> QED
    BY <1>11, <2>1, <2>2, UploadType DEF RekeyUpload, RekeyInv, RekeyTypes, deviceVars, counters
<1>12. ASSUME NEW c \in Rekeyer, RekeyStoreKey(c) PROVE RekeyTypes'
  <2>1. client' \in [Client -> ClientRecord]
    BY <1>12, RekeyAssumption
    DEF RekeyStoreKey, RekeyInv, RekeyTypes, NoRekey, ClientRecord, ClientPhase, Key
  <2>2. key' \in [Client -> Key]
    BY <1>12, RekeyAssumption DEF RekeyStoreKey, RekeyInv, RekeyTypes, ClientRecord
  <2> QED
    BY <1>12, <2>1, <2>2 DEF RekeyStoreKey, RekeyInv, RekeyTypes, serverVars, counters, history
<1>13. ASSUME NEW n \in Rekeys, RekeyReplace(n) PROVE RekeyTypes'
  <2>1. handler' \in [Rekeys -> HandlerRecord]
    BY <1>13 DEF RekeyReplace, RekeyInv, RekeyTypes, HandlerRecord
  <2>2. DOMAIN server' \subseteq Stamp /\ salt' \in Key
    BY <1>13, RekeyAssumption DEF RekeyReplace, RekeyInv, RekeyTypes, HandlerRecord, Rekeys, Key
  <2> QED
    BY <1>13, <2>1, <2>2 DEF RekeyReplace, RekeyInv, RekeyTypes, deviceVars, counters
<1>14. ASSUME NEW n \in Rekeys, RekeyReplaceFails(n) \/ RekeyUnlock(n) \/ HandlerDies(n)
       PROVE  RekeyTypes'
  <2>1. handler' \in [Rekeys -> HandlerRecord]
    <3>1. NoHandler \in HandlerRecord /\ [handler[n] EXCEPT !.phase = "unlocking"] \in HandlerRecord
      BY DEF RekeyInv, RekeyTypes, HandlerRecord, NoHandler
    <3>2. handler' = [handler EXCEPT ![n] = NoHandler]
          \/ handler' = [handler EXCEPT ![n] = [handler[n] EXCEPT !.phase = "unlocking"]]
      BY <1>14 DEF RekeyReplaceFails, RekeyUnlock, HandlerDies
    <3> QED
      BY <3>1, <3>2 DEF RekeyInv, RekeyTypes
  <2>2. client' \in [Client -> ClientRecord]
    <3>1. client \in [Client -> ClientRecord]
      BY DEF RekeyInv, RekeyTypes
    <3>2. CASE RekeyReplaceFails(n)
      BY <3>1, <3>2 DEF RekeyReplaceFails
    <3>3. CASE RekeyUnlock(n)
      BY <3>1, <3>3, ClientAnswered DEF RekeyUnlock
    <3>4. CASE HandlerDies(n)
      BY <3>1, <3>4, ClientAnswered DEF HandlerDies
    <3> QED
      BY <1>14, <3>2, <3>3, <3>4
  <2>3. lock' \in BOOLEAN
    BY <1>14 DEF RekeyReplaceFails, RekeyUnlock, HandlerDies, RekeyInv, RekeyTypes, serverVars
  <2> QED
    BY <1>14, <2>1, <2>2, <2>3
    DEF RekeyReplaceFails, RekeyUnlock, HandlerDies, Trouble, RekeyInv, RekeyTypes,
        deviceVars, serverVars, counters, history
<1>15. CASE UNCHANGED rekeyVars
  BY <1>15 DEF rekeyVars, RekeyInv, RekeyTypes
<1> QED
  BY <1>1, <1>2, <1>3, <1>4, <1>5, <1>6, <1>7, <1>8, <1>9, <1>10, <1>11, <1>12, <1>13, <1>14,
     <1>15 DEF RekeyNext

-----------------------------------------------------------------------------
(* Numbers and keys. *)

KeyPart == NumbersAreOnce /\ UpcomingIsUnused /\ OldIsGone

\* The steps after the request, but for the transaction itself.
LEMMA KeysSettle ==
  ASSUME RekeyInv, rekeys' = rekeys, salt' = salt,
         \A c \in Client :
           \/ client'[c] = client[c] \/ client'[c] = NoRekey
           \/ /\ client'[c].new = client[c].new /\ client'[c].old = client[c].old
              /\ client[c].phase \in {"answered", "downloaded"}
              /\ client'[c].phase \in {"downloaded", "uploaded"}
           \/ /\ client'[c].new = client[c].new /\ client'[c].old = client[c].old
              /\ client[c].phase = "requested" /\ client'[c].phase = "answered"
              /\ handler[client[c].new].done /\ handler'[client[c].new].phase = "none",
         \A n \in Rekeys :
           \/ handler'[n] = handler[n] \/ handler'[n] = NoHandler
           \/ handler'[n].phase = "unlocking" /\ handler[n].phase = "locked"
              /\ handler'[n].done = handler[n].done,
         \A c \in Client :
           \/ key'[c] = key[c]
           \/ key'[c] = client[c].new /\ client[c].phase \in {"answered", "uploaded"}
  PROVE  KeyPart'
<1>1. /\ Running' \subseteq Running
      /\ \A c \in Client : Numbered(c)' => Numbered(c) /\ client'[c].new = client[c].new
  BY DEF Running, Numbered, NoHandler, NoRekey
<1>2. NumbersAreOnce'
  <2>1. \A c \in Client : Numbered(c)' /\ client'[c].new \in Running' =>
          client'[c].phase = "requested"
    BY <1>1, Number DEF RekeyInv, NumbersAreOnce, Running, Numbered, NoRekey
  <2> QED
    BY <1>1, <2>1 DEF RekeyInv, NumbersAreOnce
<1>3. UpcomingIsUnused'
  <2>1. \A n \in Rekeys : Upcoming(n)' => Upcoming(n)
    BY DEF Upcoming, NoHandler, NoRekey
  <2>2. \A n \in Rekeys, c \in Client :
          Upcoming(n) /\ client[c].phase \in {"answered", "uploaded"} => client[c].new # n
    <3> SUFFICES ASSUME NEW c \in Client, client[c].phase \in {"answered", "uploaded"},
                        Upcoming(client[c].new)
                 PROVE  FALSE
      OBVIOUS
    <3>1. Numbered(c) /\ client[c].new \in Rekeys /\ ~(client[c].new > rekeys)
      BY Number, RekeyAssumption DEF Numbered, RekeyInv, RekeyTypes, NumbersAreOnce
    <3> QED
      BY <3>1 DEF Upcoming, RekeyInv, NumbersAreOnce, Running, Numbered
  <2>3. \A n \in Rekeys, c \in Client : client'[c].old = client[c].old \/ client'[c].old # n
    BY DEF NoRekey, Rekeys
  <2> QED
    BY <2>1, <2>2, <2>3 DEF RekeyInv, UpcomingIsUnused
<1>4. OldIsGone'
  <2>1. \A c \in Client : Through(c)' => Through(c) /\ client'[c].old = client[c].old
    <3> SUFFICES ASSUME NEW c \in Client, Through(c)'
                 PROVE  Through(c) /\ client'[c].old = client[c].old
      OBVIOUS
    <3>1. CASE client'[c] = client[c]
      BY <3>1, Number DEF Through, NoHandler, Numbered
    <3>2. CASE client'[c] # client[c]
      BY <3>2 DEF Through, NoRekey
    <3> QED
      BY <3>1, <3>2
  <2> QED
    BY <2>1 DEF RekeyInv, OldIsGone
<1> QED
  BY <1>2, <1>3, <1>4 DEF KeyPart

\* Every step keeps the parts about keys and the numbers of rekeys.
LEMMA KeyStep ==
  ASSUME RekeyInv, [RekeyNext]_rekeyVars
  PROVE  KeyPart'
<1>1. ASSUME NEW c \in Rekeyer, RekeySalt(c) PROVE KeyPart'
  <2>1. /\ c \in Client
        /\ client' = [client EXCEPT ![c] = [NoRekey EXCEPT !.phase = "salted", !.old = salt]]
        /\ UNCHANGED <<handler, key, salt, rekeys>>
    BY <1>1, RekeyAssumption DEF RekeySalt, deviceVars, serverVars, counters
  <2>2. \A d \in Client :
          \/ client'[d] = client[d]
          \/ client'[d].phase = "salted" /\ client'[d].old = salt
    BY <2>1 DEF RekeyInv, RekeyTypes, NoRekey
  <2>3. NumbersAreOnce'
    BY <2>1, <2>2 DEF RekeyInv, NumbersAreOnce, Numbered, Running
  <2>4. UpcomingIsUnused' /\ OldIsGone'
    BY <2>1, <2>2 DEF RekeyInv, UpcomingIsUnused, Upcoming, OldIsGone, Through
  <2> QED
    BY <2>3, <2>4 DEF KeyPart
<1>2. ASSUME NEW c \in Rekeyer, RekeyFetch(c) PROVE KeyPart'
  <2>1. /\ c \in Client /\ client[c].phase = "salted"
        /\ rekeys' = rekeys + 1 /\ rekeys \in Nat /\ rekeys + 1 \in Rekeys
        /\ client' = [client EXCEPT ![c] = [client[c] EXCEPT !.phase = "fetched",
                                              !.ops = Stored, !.new = rekeys + 1]]
        /\ UNCHANGED <<handler, key, salt>>
    BY <1>2, RekeyAssumption
    DEF RekeyFetch, deviceVars, serverVars, RekeyInv, RekeyTypes, Rekeys
  <2>2. /\ client'[c].phase = "fetched" /\ client'[c].new = rekeys + 1
        /\ client'[c].old = client[c].old
        /\ \A d \in Client \ {c} : client'[d] = client[d]
    BY <2>1 DEF RekeyInv, RekeyTypes, ClientRecord
  <2>3. Running' = Running /\ \A n \in Running : n \in Rekeys /\ n # rekeys + 1
    BY <2>1 DEF Running, RekeyInv, NumbersAreOnce, Rekeys
  <2>4. \A d \in Client : Numbered(d) => client[d].new \in 1 .. rekeys
    BY DEF RekeyInv, NumbersAreOnce
  <2>5. NumbersAreOnce'
    <3>1. \A d \in Client : Numbered(d)' => client'[d].new \in 1 .. rekeys'
      BY <2>1, <2>2, <2>4 DEF Numbered
    <3>2. \A d, e \in Client : Numbered(d)' /\ Numbered(e)' /\ client'[d].new = client'[e].new
            => d = e
      BY <2>1, <2>2, <2>4 DEF Numbered, RekeyInv, NumbersAreOnce
    <3>3. \A n \in Running' : n <= rekeys'
      BY <2>1, <2>3, RekeyAssumption DEF RekeyInv, NumbersAreOnce, Rekeys
    <3>4. \A d \in Client : Numbered(d)' /\ client'[d].new \in Running' =>
            client'[d].phase = "requested"
      BY <2>2, <2>3 DEF Numbered, RekeyInv, NumbersAreOnce
    <3> QED
      BY <3>1, <3>2, <3>3, <3>4 DEF NumbersAreOnce
  <2>6. UpcomingIsUnused'
    <3>1. \A n \in Rekeys : Upcoming(n)' => Upcoming(n)
      BY <2>1, <2>2, RekeyAssumption DEF Upcoming, Rekeys
    <3> QED
      BY <2>1, <2>2, <3>1 DEF RekeyInv, UpcomingIsUnused
  <2>7. OldIsGone'
    BY <2>1, <2>2 DEF RekeyInv, OldIsGone, Through
  <2> QED
    BY <2>5, <2>6, <2>7 DEF KeyPart
<1>3. ASSUME NEW c \in Rekeyer, RekeyLock(c) PROVE KeyPart'
  <2> DEFINE n == client[c].new
  <2>1. c \in Client /\ client[c].phase = "fetched" /\ n \in Rekeys /\ n \in 1 .. rekeys
    BY <1>3, Number, RekeyAssumption DEF RekeyLock, Numbered, RekeyInv, NumbersAreOnce
  <2>2. /\ client' = [client EXCEPT ![c].phase = "requested"]
        /\ handler' = [handler EXCEPT ![n] =
                         [phase |-> "locked", ops |-> client[c].ops, done |-> FALSE]]
        /\ UNCHANGED <<key, salt, rekeys>>
    BY <1>3 DEF RekeyLock, deviceVars, counters
  <2>3. /\ client'[c].phase = "requested" /\ client'[c].new = n
        /\ client'[c].old = client[c].old
        /\ \A d \in Client \ {c} : client'[d] = client[d]
    BY <2>1, <2>2 DEF RekeyInv, RekeyTypes, ClientRecord
  <2>4. /\ handler'[n].phase = "locked" /\ ~handler'[n].done
        /\ \A m \in Rekeys \ {n} : handler'[m] = handler[m]
    BY <2>1, <2>2 DEF RekeyInv, RekeyTypes
  <2>5. n \notin Running /\ Running' = Running \cup {n}
    BY <2>1, <2>4 DEF Running, RekeyInv, NumbersAreOnce, Numbered
  <2>6. \A d \in Client \ {c} : Numbered(d) => client[d].new # n
    BY <2>1 DEF RekeyInv, NumbersAreOnce, Numbered
  <2> HIDE DEF n
  <2>7. NumbersAreOnce'
    <3>1. /\ \A d \in Client : Numbered(d)' => client'[d].new \in 1 .. rekeys
          /\ \A d, e \in Client : Numbered(d)' /\ Numbered(e)' /\ client'[d].new = client'[e].new
               => d = e
      BY <2>1, <2>3, <2>6 DEF Numbered, RekeyInv, NumbersAreOnce
    <3>2. \A m \in Running' : m <= rekeys
      BY <2>1, <2>5 DEF RekeyInv, NumbersAreOnce
    <3>3. \A d \in Client : Numbered(d)' /\ client'[d].new \in Running' =>
            client'[d].phase = "requested"
      BY <2>3, <2>5, <2>6 DEF Numbered, RekeyInv, NumbersAreOnce
    <3> QED
      BY <2>2, <3>1, <3>2, <3>3 DEF NumbersAreOnce
  <2>8. UpcomingIsUnused'
    <3>1. Upcoming(n)
      BY <2>1 DEF Upcoming, n
    <3>2. \A m \in Rekeys : Upcoming(m)' => Upcoming(m)
      BY <2>2, <2>3, <2>4, <3>1 DEF Upcoming
    <3> QED
      BY <2>2, <2>3, <3>2 DEF RekeyInv, UpcomingIsUnused
  <2>9. OldIsGone'
    BY <2>2, <2>3, <2>4, <2>6, Number DEF RekeyInv, OldIsGone, Through, Numbered
  <2> QED
    BY <2>7, <2>8, <2>9 DEF KeyPart
<1>4. ASSUME NEW n \in Rekeys, RekeyReplace(n) PROVE KeyPart'
  <2>1. /\ handler[n].phase = "locked" /\ salt' = n
        /\ handler' = [handler EXCEPT ![n] = [handler[n] EXCEPT !.phase = "unlocking",
                                                               !.done = TRUE]]
        /\ UNCHANGED <<client, key, rekeys>>
    BY <1>4 DEF RekeyReplace, deviceVars, counters
  <2>2. /\ handler'[n].phase = "unlocking" /\ \A m \in Rekeys \ {n} : handler'[m] = handler[m]
    BY <2>1 DEF RekeyInv, RekeyTypes, HandlerRecord
  <2>3. Running' = Running /\ n \in Running
    BY <2>1, <2>2 DEF Running
  <2>4. NumbersAreOnce'
    BY <2>1, <2>3 DEF RekeyInv, NumbersAreOnce, Numbered
  <2>5. Upcoming(n) /\ ~Upcoming(n)'
    BY <2>1, <2>2, <2>3, RekeyAssumption
    DEF Upcoming, RekeyInv, RekeyTypes, NumbersAreOnce, Numbered, Rekeys
  <2>6. UpcomingIsUnused'
    <3>1. \A m \in Rekeys : Upcoming(m)' => Upcoming(m) /\ m # n
      BY <2>1, <2>2, <2>5 DEF Upcoming
    <3> QED
      BY <2>1, <3>1 DEF RekeyInv, UpcomingIsUnused
  <2>7. OldIsGone'
    BY <2>1, <2>5 DEF RekeyInv, UpcomingIsUnused, OldIsGone
  <2> QED
    BY <2>4, <2>6, <2>7 DEF KeyPart
<1>5. ASSUME NEW c \in Rekeyer,
             RekeyDownload(c) \/ RekeyUpload(c) \/ RekeyStoreKey(c) \/ RekeyFails(c)
      PROVE  KeyPart'
  <2>1. /\ c \in Client /\ \A d \in Client \ {c} : client'[d] = client[d] /\ key'[d] = key[d]
        /\ UNCHANGED <<handler, salt, rekeys>>
    BY <1>5, RekeyAssumption DEF RekeyDownload, RekeyUpload, RekeyStoreKey, RekeyFails,
       Trouble, RekeyInv, RekeyTypes, deviceVars, serverVars, counters
  <2>2. \/ client'[c] = NoRekey
        \/ /\ client'[c].new = client[c].new /\ client'[c].old = client[c].old
           /\ client[c].phase \in {"answered", "downloaded"}
           /\ client'[c].phase \in {"downloaded", "uploaded"}
    <3>1. CASE RekeyDownload(c)
      <4>1. client'[c] = NoRekey
            \/ client'[c] = [client[c] EXCEPT !.phase = "downloaded", !.stamp = snapshot.stamp,
                                              !.covers = snapshot.covers]
        BY <2>1, <3>1 DEF RekeyDownload, RekeyInv, RekeyTypes
      <4> QED
        BY <2>1, <3>1, <4>1 DEF RekeyDownload, RekeyInv, RekeyTypes, ClientRecord
    <3>2. CASE RekeyUpload(c)
      BY <2>1, <3>2 DEF RekeyUpload, RekeyInv, RekeyTypes, ClientRecord
    <3>3. CASE RekeyStoreKey(c) \/ RekeyFails(c)
      BY <2>1, <3>3 DEF RekeyStoreKey, RekeyFails, RekeyInv, RekeyTypes
    <3> QED
      BY <1>5, <3>1, <3>2, <3>3
  <2>3. \/ key'[c] = key[c]
        \/ key'[c] = client[c].new /\ client[c].phase \in {"answered", "uploaded"}
    BY <1>5, <2>1 DEF RekeyDownload, RekeyUpload, RekeyStoreKey, RekeyFails, deviceVars,
                      RekeyInv, RekeyTypes
  <2> QED
    BY <2>1, <2>2, <2>3, KeysSettle
<1>6. ASSUME NEW n \in Rekeys, RekeyReplaceFails(n) \/ RekeyUnlock(n) \/ HandlerDies(n)
      PROVE  KeyPart'
  <2>1. UNCHANGED <<key, salt, rekeys>>
    BY <1>6 DEF RekeyReplaceFails, RekeyUnlock, HandlerDies, Trouble, deviceVars, serverVars, counters
  <2>2. \A m \in Rekeys :
           \/ handler'[m] = handler[m] \/ handler'[m] = NoHandler
           \/ handler'[m].phase = "unlocking" /\ handler[m].phase = "locked"
              /\ handler'[m].done = handler[m].done
    BY <1>6 DEF RekeyReplaceFails, RekeyUnlock, HandlerDies, RekeyInv, RekeyTypes, HandlerRecord
  <2>3. \A c \in Client :
          \/ client'[c] = client[c] \/ client'[c] = NoRekey
          \/ /\ client'[c].new = client[c].new /\ client'[c].old = client[c].old
             /\ client[c].phase = "requested" /\ client'[c].phase = "answered"
             /\ handler[client[c].new].done /\ handler'[client[c].new].phase = "none"
    BY <1>6 DEF RekeyReplaceFails, RekeyUnlock, HandlerDies, Waits, NoHandler,
                RekeyInv, RekeyTypes, ClientRecord
  <2> QED
    BY <2>1, <2>2, <2>3, KeysSettle
<1>7. ASSUME UNCHANGED <<client, handler, key, salt, rekeys>> PROVE KeyPart'
  BY <1>7, KeysSettle
<1>8. ASSUME NEW c \in Client,
             \/ \E h \in Stamp : Emit(c, h)
             \/ PushCheck(c) \/ PushStore(c) \/ PushMark(c) \/ PushFails(c)
      PROVE  KeyPart'
  BY <1>7, <1>8 DEF Emit, PushCheck, PushStore, PushMark, PushFails, Trouble,
                    deviceVars, serverVars, counters
<1>9. CASE Backup \/ Restore \/ UNCHANGED rekeyVars
  BY <1>7, <1>9 DEF Backup, Restore, Trouble, deviceVars, serverVars, counters, rekeyVars
<1>10. ASSUME NEW c \in Compactor, NEW h \in Stamp, Compact(c, h) PROVE KeyPart'
  BY <1>7, <1>10 DEF Compact, Trouble, deviceVars
<1> QED
  BY <1>1, <1>2, <1>3, <1>4, <1>5, <1>6, <1>8, <1>9, <1>10 DEF RekeyNext

-----------------------------------------------------------------------------
(* The snapshot: its key, its date, and what it has deleted. *)

SnapshotPart == UploadedIsReadable /\ SnapshotReadable /\ SnapshotsAreDated /\ PrunedIsCovered

\* The steps that leave the snapshot and the clients that deal with it alone.
LEMMA SnapshotStays ==
  ASSUME RekeyInv, UNCHANGED <<snapshot, pruned>>,
         salt' = salt \/ salt' \in {n \in Rekeys : Upcoming(n)},
         late \subseteq late', events \subseteq events',
         \A h \in Stored' \ Stored : h <= snapshot.stamp => h \in late',
         \A c \in Client :
           /\ client'[c].phase = "uploaded" => client'[c] = client[c]
           /\ client'[c].phase = "downloaded" => client'[c].stamp # 0,
         \A c \in Client :
           \/ key'[c] = key[c]
           \/ salt' = salt /\ key'[c] # salt
           \/ snapshot = NoSnapshot \/ snapshot.key = salt' \/ Bent
  PROVE  SnapshotPart'
<1>1. UploadedIsReadable'
  <2>1. \A c \in Client : client[c].phase = "uploaded" => ~Upcoming(client[c].new)
    BY Number, RekeyAssumption
    DEF Numbered, Upcoming, RekeyInv, RekeyTypes, NumbersAreOnce, Running, Rekeys
  <2> QED
    BY <2>1 DEF RekeyInv, UploadedIsReadable, Bent
<1>2. SnapshotReadable'
  BY DEF RekeyInv, UpcomingIsUnused, LibraryIsWhole, SnapshotReadable, Bent
<1>3. SnapshotsAreDated'
  BY DEF RekeyInv, SnapshotsAreDated
<1>4. PrunedIsCovered'
  BY DEF RekeyInv, LibraryIsWhole, PrunedIsCovered
<1> QED
  BY <1>1, <1>2, <1>3, <1>4 DEF SnapshotPart

\* Every step keeps the parts about the snapshot and what it prunes.
LEMMA SnapshotStep ==
  ASSUME RekeyInv, [RekeyNext]_rekeyVars
  PROVE  SnapshotPart'
<1>1. ASSUME NEW c \in Client, PushStore(c) PROVE SnapshotPart'
  <2>1. /\ Stored' \ Stored \subseteq push[c].ops \ Stored
        /\ late' = late \cup {h \in push[c].ops \ Stored : h <= snapshot.stamp}
        /\ events \subseteq events' /\ UNCHANGED <<snapshot, pruned, salt, client, key>>
    BY <1>1 DEF PushStore, Stored, deviceVars
  <2> QED
    BY <2>1, SnapshotStays DEF RekeyInv, SnapshotsAreDated
<1>2. CASE Restore
  <2>1. /\ Stored' \ Stored \subseteq DOMAIN bundle \ Stored
        /\ late' = late \cup {h \in DOMAIN bundle \ Stored : h <= snapshot.stamp}
        /\ events \subseteq events' /\ UNCHANGED <<snapshot, pruned, salt, client, key>>
    BY <1>2 DEF Restore, Stored, deviceVars
  <2> QED
    BY <2>1, SnapshotStays DEF RekeyInv, SnapshotsAreDated
<1>3. ASSUME NEW n \in Rekeys, RekeyReplace(n) PROVE SnapshotPart'
  <2>1. /\ Stored' = handler[n].ops /\ salt' = n /\ Upcoming(n)
        /\ late' = late \cup {h \in handler[n].ops \ Stored : h <= snapshot.stamp}
        /\ UNCHANGED <<snapshot, pruned, client, key, events>>
    BY <1>3 DEF RekeyReplace, Stored, Upcoming, deviceVars
  <2> QED
    BY <2>1, SnapshotStays DEF RekeyInv, SnapshotsAreDated
<1>4. ASSUME NEW c \in Compactor, NEW h \in Stamp, Compact(c, h) PROVE SnapshotPart'
  <2> DEFINE new == [stamp |-> h, covers |-> Stored \cup pruned \cup own[c], key |-> key[c]]
  <2>1. /\ Upload(new) /\ UNCHANGED <<client, key, salt, late>>
        /\ events \subseteq events'
        /\ snapshot' = snapshot => "tied" \in events'
        /\ key[c] # salt => "outdated" \in events'
    BY <1>4 DEF Compact, deviceVars
  <2>2. CASE snapshot' = snapshot
    <3>1. "tied" \in events' /\ Stored' \subseteq Stored
      BY <2>1, <2>2 DEF Upload, Stored
    <3> QED
      BY <2>1, <2>2, <3>1 DEF SnapshotPart, UploadedIsReadable, SnapshotReadable, Bent,
                              PrunedIsCovered, RekeyInv, SnapshotsAreDated
  <2>3. CASE snapshot' = new
    <3>1. /\ Stored' = Stored \ {q \in Stored : q <= h}
          /\ pruned' = pruned \cup {q \in Stored : q <= h}
          /\ snapshot'.stamp = h /\ snapshot'.covers = Stored \cup pruned \cup own[c]
          /\ snapshot'.key = key[c] /\ h # 0
      BY <2>1, <2>3, RekeyAssumption DEF Upload, Stored, Stamp
    <3>2. snapshot'.key = salt \/ Bent'
      BY <2>1, <3>1 DEF Bent
    <3> QED
      BY <2>1, <3>1, <3>2 DEF SnapshotPart, UploadedIsReadable, SnapshotReadable, Bent,
                              PrunedIsCovered, RekeyInv, SnapshotsAreDated
  <2> QED
    BY <2>1, <2>2, <2>3 DEF Upload
<1>5. ASSUME NEW c \in Rekeyer, RekeyUpload(c) PROVE SnapshotPart'
  <2> DEFINE new == [stamp |-> client[c].stamp, covers |-> client[c].covers,
                     key |-> client[c].new]
  <2>1. /\ c \in Client /\ client[c].phase = "downloaded"
        /\ Upload(new) /\ UNCHANGED <<key, salt, late>>
        /\ client' = [client EXCEPT ![c].phase = "uploaded"]
        /\ events \subseteq events'
        /\ snapshot' = snapshot => "tied" \in events'
        /\ ~Downloaded(c) => "superseded" \in events'
    BY <1>5, RekeyAssumption DEF RekeyUpload, deviceVars
  <2>2. /\ client'[c].phase = "uploaded" /\ client'[c].new = client[c].new
        /\ \A d \in Client \ {c} : client'[d] = client[d]
    BY <2>1 DEF RekeyInv, RekeyTypes, ClientRecord
  <2>3. \A d \in Client : client'[d].phase = "downloaded" => client'[d].stamp # 0
    BY <2>2 DEF RekeyInv, SnapshotsAreDated
  <2>4. CASE "tied" \in events' \/ "superseded" \in events'
    <3>1. UploadedIsReadable' /\ SnapshotReadable' /\ PrunedIsCovered'
      BY <2>4 DEF UploadedIsReadable, SnapshotReadable, Bent, PrunedIsCovered
    <3>2. SnapshotsAreDated'
      <4>1. \/ snapshot' = snapshot /\ Stored' \subseteq Stored
            \/ snapshot' = new /\ Stored' = Stored \ {q \in Stored : q <= client[c].stamp}
        BY <2>1 DEF Upload, Stored
      <4> QED
        BY <2>1, <2>3, <4>1 DEF RekeyInv, SnapshotsAreDated
    <3> QED
      BY <3>1, <3>2 DEF SnapshotPart
  <2>5. CASE ~("tied" \in events' \/ "superseded" \in events')
    <3>1. /\ snapshot' = new /\ Downloaded(c)
          /\ Stored' = Stored \ {q \in Stored : q <= client[c].stamp}
          /\ pruned' = pruned \cup {q \in Stored : q <= client[c].stamp}
      BY <2>1, <2>5 DEF Upload, Stored
    <3>2. /\ snapshot.stamp = client[c].stamp /\ snapshot.covers = client[c].covers
          /\ snapshot.key = client[c].old /\ snapshot.stamp # 0
      BY <2>1, <3>1 DEF Downloaded, RekeyInv, SnapshotsAreDated
    <3>3. snapshot.key # salt /\ snapshot # NoSnapshot
      BY <2>1, <3>2 DEF RekeyInv, OldIsGone, Through, NoSnapshot
    <3>4. UploadedIsReadable'
      <4>1. ASSUME NEW d \in Client, d # c, client[d].phase = "uploaded", client[d].new = salt
            PROVE  Bent
        BY <3>3, <4>1 DEF RekeyInv, UploadedIsReadable
      <4> QED
        BY <2>1, <2>2, <3>1, <4>1 DEF UploadedIsReadable, Bent
    <3>5. SnapshotReadable'
      BY <2>1, <3>3 DEF RekeyInv, LibraryIsWhole, SnapshotReadable
    <3>6. SnapshotsAreDated' /\ PrunedIsCovered'
      BY <2>1, <2>3, <3>1, <3>2 DEF RekeyInv, SnapshotsAreDated, LibraryIsWhole, PrunedIsCovered
    <3> QED
      BY <3>4, <3>5, <3>6 DEF SnapshotPart
  <2> QED
    BY <2>4, <2>5
<1>6. ASSUME NEW c \in Rekeyer, RekeyStoreKey(c) PROVE SnapshotPart'
  <2>1. /\ c \in Client
        /\ UNCHANGED <<server, salt, snapshot, pruned, late, events>>
        /\ key'[c] = client[c].new /\ \A d \in Client \ {c} : key'[d] = key[d]
        /\ \A d \in Client : client'[d] = client[d] \/ client'[d] = NoRekey
    BY <1>6, RekeyAssumption
    DEF RekeyStoreKey, RekeyInv, RekeyTypes, serverVars, history
  <2>2. client[c].new = salt => snapshot = NoSnapshot \/ snapshot.key = salt \/ Bent
    BY <1>6, <2>1 DEF RekeyStoreKey, RekeyInv, UploadedIsReadable
  <2>3. \A d \in Client : client'[d].phase = "downloaded" => client'[d].stamp # 0
    BY <2>1 DEF NoRekey, RekeyInv, SnapshotsAreDated
  <2> QED
    BY <2>1, <2>2, <2>3, SnapshotStays DEF NoRekey, Stored
<1>7. ASSUME UNCHANGED <<server, snapshot, pruned, salt, late, key>>, events \subseteq events',
             \A c \in Client : \/ client'[c].phase \notin {"downloaded", "uploaded"}
                               \/ client'[c] = client[c]
      PROVE  SnapshotPart'
  BY <1>7, SnapshotStays DEF Stored, RekeyInv, SnapshotsAreDated
<1>8. ASSUME NEW c \in Client,
             \/ \E h \in Stamp : Emit(c, h)
             \/ PushCheck(c) \/ PushMark(c) \/ PushFails(c)
      PROVE  SnapshotPart'
  BY <1>7, <1>8 DEF Emit, PushCheck, PushMark, PushFails, deviceVars, serverVars, history
<1>9. CASE Backup \/ UNCHANGED rekeyVars
  BY <1>7, <1>9 DEF Backup, deviceVars, serverVars, history, rekeyVars
<1>10. ASSUME NEW c \in Rekeyer,
              RekeySalt(c) \/ RekeyFetch(c) \/ RekeyLock(c) \/ RekeyFails(c)
       PROVE  SnapshotPart'
  <2>1. UNCHANGED <<server, snapshot, pruned, salt, late, key>> /\ events \subseteq events'
    BY <1>10 DEF RekeySalt, RekeyFetch, RekeyLock, RekeyFails, deviceVars, serverVars, history
  <2>2. c \in Client /\ client'[c].phase \notin {"downloaded", "uploaded"}
        /\ \A d \in Client \ {c} : client'[d] = client[d]
    <3>1. c \in Client
      BY RekeyAssumption
    <3>2. CASE RekeySalt(c)
      <4>1. client'[c] = [NoRekey EXCEPT !.phase = "salted", !.old = salt]
            /\ \A d \in Client \ {c} : client'[d] = client[d]
        BY <3>1, <3>2 DEF RekeySalt, RekeyInv, RekeyTypes
      <4> QED
        BY <3>1, <4>1 DEF NoRekey
    <3>5. CASE RekeyFails(c)
      BY <3>1, <3>5 DEF RekeyFails, RekeyInv, RekeyTypes, NoRekey
    <3>3. CASE RekeyFetch(c)
      <4>1. client'[c] = [client[c] EXCEPT !.phase = "fetched", !.ops = Stored, !.new = rekeys + 1]
            /\ \A d \in Client \ {c} : client'[d] = client[d]
        BY <3>1, <3>3 DEF RekeyFetch, RekeyInv, RekeyTypes
      <4> QED
        BY <3>1, <4>1 DEF RekeyInv, RekeyTypes, ClientRecord
    <3>4. CASE RekeyLock(c)
      BY <3>1, <3>4 DEF RekeyLock, RekeyInv, RekeyTypes, ClientRecord
    <3> QED
      BY <1>10, <3>1, <3>2, <3>3, <3>4, <3>5
  <2> QED
    BY <1>7, <2>1, <2>2
<1>11. ASSUME NEW c \in Rekeyer, RekeyDownload(c) PROVE SnapshotPart'
  <2>1. /\ UNCHANGED <<server, snapshot, pruned, salt, late, key, events>>
        /\ snapshot # NoSnapshot /\ c \in Client
    BY <1>11, RekeyAssumption DEF RekeyDownload, deviceVars, serverVars, history
  <2>2. /\ \A d \in Client \ {c} : client'[d] = client[d]
        /\ client'[c].phase # "uploaded"
        /\ client'[c].phase = "downloaded" => client'[c].stamp = snapshot.stamp
    <3>1. client'[c] = NoRekey
          \/ client'[c] = [client[c] EXCEPT !.phase = "downloaded", !.stamp = snapshot.stamp,
                                            !.covers = snapshot.covers]
      BY <1>11, <2>1 DEF RekeyDownload, RekeyInv, RekeyTypes
    <3>2. \A d \in Client \ {c} : client'[d] = client[d]
      BY <1>11, <2>1 DEF RekeyDownload, RekeyInv, RekeyTypes
    <3>3. CASE client'[c] = NoRekey
      BY <3>2, <3>3 DEF NoRekey
    <3>4. CASE client'[c] = [client[c] EXCEPT !.phase = "downloaded", !.stamp = snapshot.stamp,
                                              !.covers = snapshot.covers]
      BY <2>1, <3>2, <3>4 DEF RekeyInv, RekeyTypes, ClientRecord
    <3> QED
      BY <3>1, <3>3, <3>4
  <2> QED
    BY <2>1, <2>2, SnapshotStays DEF Stored, RekeyInv, SnapshotsAreDated
<1>12. ASSUME NEW n \in Rekeys, RekeyReplaceFails(n) \/ RekeyUnlock(n) \/ HandlerDies(n)
       PROVE  SnapshotPart'
  <2>1. UNCHANGED <<server, snapshot, pruned, salt, late, key>> /\ events \subseteq events'
    BY <1>12 DEF RekeyReplaceFails, RekeyUnlock, HandlerDies, deviceVars, serverVars, history
  <2>2. \A c \in Client : \/ client'[c].phase \notin {"downloaded", "uploaded"}
                          \/ client'[c] = client[c]
    BY <1>12 DEF RekeyReplaceFails, RekeyUnlock, HandlerDies, RekeyInv, RekeyTypes, NoRekey,
                 ClientRecord
  <2> QED
    BY <1>7, <2>1, <2>2
<1> QED
  BY <1>1, <1>2, <1>3, <1>4, <1>5, <1>6, <1>8, <1>9, <1>10, <1>11, <1>12 DEF RekeyNext

-----------------------------------------------------------------------------
(* The ops: under which key they are, and that none is lost. *)

\* What is stored stays readable with the newest key, or nothing was promised.
LEMMA ReadableStep ==
  ASSUME RekeyInv, [RekeyNext]_rekeyVars
  PROVE  ServerReadable'
<1> USE DEF Stored, ServerReadable
<1>1. ServerReadable
  BY DEF RekeyInv, LibraryIsWhole
<1>2. ASSUME NEW c \in Client, PushStore(c) PROVE ServerReadable'
  BY <1>1, <1>2 DEF PushStore
<1>3. CASE Restore
  BY <1>1, <1>3 DEF Restore
<1>4. ASSUME NEW n \in Rekeys, RekeyReplace(n) PROVE ServerReadable'
  BY <1>4 DEF RekeyReplace
<1>5. ASSUME NEW new \in SnapshotRecord, Upload(new), UNCHANGED <<salt, stale>> PROVE ServerReadable'
  BY <1>1, <1>5 DEF Upload
<1>6. ASSUME NEW c \in Compactor, NEW h \in Stamp, Compact(c, h) PROVE ServerReadable'
  BY <1>1, <1>6 DEF Compact, Upload
<1>7. ASSUME NEW c \in Rekeyer, RekeyUpload(c) PROVE ServerReadable'
  BY <1>1, <1>7 DEF RekeyUpload, Upload
<1>8. ASSUME UNCHANGED <<server, salt, stale>> PROVE ServerReadable'
  BY <1>1, <1>8
<1>9. ASSUME NEW c \in Client,
             \/ \E h \in Stamp : Emit(c, h)
             \/ PushCheck(c) \/ PushMark(c) \/ PushFails(c)
             \/ RekeySalt(c) \/ RekeyFetch(c) \/ RekeyLock(c) \/ RekeyDownload(c)
             \/ RekeyStoreKey(c) \/ RekeyFails(c)
      PROVE  ServerReadable'
  BY <1>8, <1>9 DEF Emit, PushCheck, PushMark, PushFails, RekeySalt, RekeyFetch, RekeyLock,
     RekeyDownload, RekeyStoreKey, RekeyFails, serverVars, history
<1>10. ASSUME NEW n \in Rekeys, RekeyReplaceFails(n) \/ RekeyUnlock(n) \/ HandlerDies(n)
       PROVE  ServerReadable'
  BY <1>8, <1>10 DEF RekeyReplaceFails, RekeyUnlock, HandlerDies, serverVars, history
<1>11. CASE Backup \/ UNCHANGED rekeyVars
  BY <1>8, <1>11 DEF Backup, serverVars, history, rekeyVars
<1> QED
  BY <1>2, <1>3, <1>4, <1>6, <1>7, <1>9, <1>10, <1>11, RekeyAssumption DEF RekeyNext

\* The lock is held while a rekey is between its two transactions, and no longer.
LEMMA LockStep ==
  ASSUME RekeyInv, [RekeyNext]_rekeyVars
  PROVE  LockReleased'
<1>1. LockReleased
  BY DEF RekeyInv, PushIsHonoured
<1>2. ASSUME NEW n \in Rekeys, RekeyReplace(n) \/ RekeyReplaceFails(n) PROVE LockReleased'
  <2>1. handler'[n].phase # "none" /\ lock' = lock
    <3>1. \/ handler'[n] = [handler[n] EXCEPT !.phase = "unlocking", !.done = TRUE]
          \/ handler'[n] = [handler[n] EXCEPT !.phase = "unlocking"]
      BY <1>2 DEF RekeyReplace, RekeyReplaceFails, RekeyInv, RekeyTypes
    <3>2. lock' = lock
      BY <1>2 DEF RekeyReplace, RekeyReplaceFails, serverVars
    <3> QED
      BY <3>1, <3>2 DEF RekeyInv, RekeyTypes, HandlerRecord
  <2> QED
    BY <2>1 DEF LockReleased, Running
<1>3. ASSUME NEW c \in Rekeyer, RekeyLock(c) PROVE LockReleased'
  <2>1. client[c].new \in Rekeys
    BY <1>3, Number, RekeyAssumption DEF RekeyLock, Numbered
  <2>2. handler'[client[c].new].phase # "none"
    BY <1>3, <2>1 DEF RekeyLock, RekeyInv, RekeyTypes
  <2> QED
    BY <2>1, <2>2 DEF LockReleased, Running
<1>4. ASSUME NEW n \in Rekeys, RekeyUnlock(n) \/ HandlerDies(n) PROVE LockReleased'
  BY <1>4 DEF RekeyUnlock, HandlerDies, LockReleased
<1>5. ASSUME UNCHANGED <<handler, lock>>, events \subseteq events' PROVE LockReleased'
  BY <1>1, <1>5 DEF LockReleased, Running
<1>6. ASSUME NEW c \in Client,
             \/ \E h \in Stamp : Emit(c, h) \/ Compact(c, h)
             \/ PushCheck(c) \/ PushStore(c) \/ PushMark(c) \/ PushFails(c)
             \/ RekeySalt(c) \/ RekeyFetch(c) \/ RekeyDownload(c) \/ RekeyUpload(c)
             \/ RekeyStoreKey(c) \/ RekeyFails(c)
      PROVE  LockReleased'
  BY <1>5, <1>6 DEF Emit, Compact, PushCheck, PushStore, PushMark, PushFails, RekeySalt,
     RekeyFetch, RekeyDownload, RekeyUpload, RekeyStoreKey, RekeyFails, serverVars, history
<1>7. CASE Backup \/ Restore \/ UNCHANGED rekeyVars
  BY <1>5, <1>7 DEF Backup, Restore, serverVars, history, rekeyVars
<1> QED
  BY <1>2, <1>3, <1>4, <1>6, <1>7, RekeyAssumption DEF RekeyNext

\* Without overlap: the copies, the backup and what was pushed are of one piece.
CopyPart == CopiesAreWhole /\ RekeyKeepsPushed

OneAtATime ==
  /\ \A m, n \in Running : m = n
  /\ Running # {} => lock
  /\ \A c \in Client : push[c].phase = "checked" => push[c].calm

NothingGoesMissing ==
  /\ \A X \in Copies : X \cup Gone = Stored \cup Gone
  /\ DOMAIN bundle \subseteq Stored \cup Gone
  /\ \A c \in Client : push[c].phase = "stored" => push[c].ops \subseteq Stored \cup Gone
  /\ \A c \in Client : own[c] \ unpushed[c] \subseteq Stored \cup Gone

\* CopyPart, for one device at a time and for what is missing.
LEMMA CopyParts ==
  /\ RekeyInv /\ "overlap" \notin events => OneAtATime /\ NothingGoesMissing
  /\ ("overlap" \notin events => OneAtATime /\ NothingGoesMissing) => CopyPart
<1>1. Stored \cup Gone = Stored \cup pruned \cup raced
  BY DEF Gone
<1> QED
  BY <1>1 DEF RekeyInv, CopiesAreWhole, PushIsHonoured, RekeyKeepsPushed, CopyPart, OneAtATime,
              NothingGoesMissing

\* Without an overlap there is one rekey at a time, and it has the lock.
LEMMA OneAtATimeStep ==
  ASSUME RekeyInv, [RekeyNext]_rekeyVars, OneAtATime, "overlap" \notin events'
  PROVE  OneAtATime'
<1>1. ASSUME NEW c \in Client, PushCheck(c) PROVE OneAtATime'
  <2>1. ~lock /\ UNCHANGED <<handler, lock>>
        /\ \A d \in Client : push'[d] = push[d] \/ push'[d].calm = (Running = {})
    BY <1>1 DEF PushCheck, serverVars, RekeyInv, RekeyTypes
  <2>2. Running = {}
    BY <2>1 DEF OneAtATime
  <2> QED
    BY <2>1, <2>2 DEF OneAtATime, Running
<1>2. ASSUME NEW c \in Rekeyer, RekeyLock(c) PROVE OneAtATime'
  <2>1. client[c].new \in Rekeys /\ UNCHANGED push
    BY <1>2, Number, RekeyAssumption DEF RekeyLock, Numbered
  <2>2. Running = {} /\ lock'
    BY <1>2 DEF RekeyLock
  <2>3. Running' \subseteq {client[c].new}
    BY <1>2, <2>1, <2>2 DEF RekeyLock, Running, RekeyInv, RekeyTypes
  <2> QED
    BY <2>1, <2>2, <2>3 DEF OneAtATime
<1>3. ASSUME NEW n \in Rekeys, RekeyUnlock(n) PROVE OneAtATime'
  <2>1. n \in Running /\ Running' = Running \ {n} /\ UNCHANGED push
    BY <1>3 DEF RekeyUnlock, Running, RekeyInv, RekeyTypes, NoHandler
  <2> QED
    BY <2>1 DEF OneAtATime
<1>4. ASSUME Running' \subseteq Running, lock' = lock,
             \A c \in Client : push'[c].phase = "checked" => push'[c] = push[c]
      PROVE  OneAtATime'
  BY <1>4 DEF OneAtATime
<1>5. ASSUME NEW n \in Rekeys, RekeyReplace(n) \/ RekeyReplaceFails(n) \/ HandlerDies(n)
      PROVE  OneAtATime'
  <2>1. handler[n].phase # "none" /\ UNCHANGED <<lock, push>>
        /\ \A m \in Rekeys \ {n} : handler'[m] = handler[m]
    BY <1>5 DEF RekeyReplace, RekeyReplaceFails, HandlerDies, serverVars, RekeyInv, RekeyTypes
  <2>2. Running' \subseteq Running
    BY <2>1 DEF Running
  <2> QED
    BY <1>4, <2>1, <2>2
<1>6. ASSUME NEW c \in Client, PushStore(c) \/ PushMark(c) \/ PushFails(c) PROVE OneAtATime'
  <2>1. \A d \in Client : push'[d].phase = "checked" => push'[d] = push[d]
    BY <1>6 DEF PushStore, PushMark, PushFails, RekeyInv, RekeyTypes, NoPush, PushRecord
  <2>2. UNCHANGED <<handler, lock>>
    BY <1>6 DEF PushStore, PushMark, PushFails, serverVars
  <2> QED
    BY <1>4, <2>1, <2>2 DEF Running
<1>7. ASSUME NEW c \in Client,
             \/ \E h \in Stamp : Emit(c, h) \/ Compact(c, h)
             \/ RekeySalt(c) \/ RekeyFetch(c) \/ RekeyDownload(c) \/ RekeyUpload(c)
             \/ RekeyStoreKey(c) \/ RekeyFails(c)
      PROVE  OneAtATime'
  <2>1. UNCHANGED <<handler, lock, push>>
    BY <1>7 DEF Emit, Compact, RekeySalt, RekeyFetch, RekeyDownload, RekeyUpload,
                RekeyStoreKey, RekeyFails, serverVars
  <2> QED
    BY <1>4, <2>1 DEF Running
<1>8. CASE Backup \/ Restore \/ UNCHANGED rekeyVars
  BY <1>4, <1>8 DEF Backup, Restore, serverVars, rekeyVars, Running
<1> QED
  BY <1>1, <1>2, <1>3, <1>5, <1>6, <1>7, <1>8, RekeyAssumption DEF RekeyNext

\* Each copy of the next state is one of this state, or one just taken.
LEMMA CopiesFrom ==
  ASSUME RekeyInv, [RekeyNext]_rekeyVars
  PROVE  \/ Copies' \subseteq Copies
         \/ /\ Copies' \subseteq Copies \cup {Stored}
            /\ UNCHANGED <<server, pruned, raced>>
<1> DEFINE Of(X) == \/ \E c \in Client : client[c].phase = "fetched" /\ client[c].ops = X
                    \/ \E n \in Rekeys : handler[n].phase = "locked" /\ handler[n].ops = X
           Kept == Copies' \subseteq Copies
<1>1. (\A X : X \in Copies <=> Of(X)) /\ (\A X : X \in Copies' <=> Of(X)')
  BY DEF Copies
<1>2. ASSUME \A c \in Client : client'[c].phase = "fetched" => client'[c] = client[c],
             \A n \in Rekeys : handler'[n].phase = "locked" => handler'[n] = handler[n]
      PROVE  Kept
  BY <1>1, <1>2
<1>3. ASSUME NEW c \in Rekeyer, RekeyFetch(c)
      PROVE  Copies' \subseteq Copies \cup {Stored} /\ UNCHANGED <<server, pruned, raced>>
  <2>1. /\ c \in Client /\ handler' = handler /\ UNCHANGED <<server, pruned, raced>>
        /\ client'[c] = [client[c] EXCEPT !.phase = "fetched", !.ops = Stored, !.new = rekeys + 1]
        /\ \A d \in Client \ {c} : client'[d] = client[d]
    BY <1>3, RekeyAssumption DEF RekeyFetch, serverVars, history, RekeyInv, RekeyTypes
  <2>2. client'[c].ops = Stored
    BY <2>1 DEF RekeyInv, RekeyTypes, ClientRecord
  <2>3. \A X : Of(X)' => Of(X) \/ X = Stored
    BY <2>1, <2>2
  <2> HIDE DEF Of
  <2> QED
    BY <1>1, <2>1, <2>3
<1>4. ASSUME NEW c \in Rekeyer, RekeyLock(c) PROVE Kept
  <2>1. /\ c \in Client /\ client[c].phase = "fetched" /\ client[c].new \in Rekeys
        /\ client'[c].phase = "requested" /\ \A d \in Client \ {c} : client'[d] = client[d]
    BY <1>4, Number, RekeyAssumption
    DEF RekeyLock, Numbered, RekeyInv, RekeyTypes, ClientRecord
  <2>2. \A n \in Rekeys : handler'[n] = handler[n] \/ handler'[n].ops = client[c].ops
    BY <1>4 DEF RekeyLock, RekeyInv, RekeyTypes
  <2> QED
    BY <1>1, <2>1, <2>2
<1>5. ASSUME NEW c \in Rekeyer,
             RekeySalt(c) \/ RekeyDownload(c) \/ RekeyUpload(c) \/ RekeyStoreKey(c) \/ RekeyFails(c)
      PROVE  Kept
  <2>1. handler' = handler /\ c \in Client /\ \A d \in Client \ {c} : client'[d] = client[d]
    BY <1>5, RekeyAssumption
    DEF RekeySalt, RekeyDownload, RekeyUpload, RekeyStoreKey, RekeyFails, RekeyInv, RekeyTypes
  <2>2. client'[c].phase # "fetched"
    <3>1. CASE RekeySalt(c)
      <4>1. client'[c] = [NoRekey EXCEPT !.phase = "salted", !.old = salt]
        BY <2>1, <3>1 DEF RekeySalt, RekeyInv, RekeyTypes
      <4> QED
        BY <4>1 DEF NoRekey
    <3>2. CASE RekeyDownload(c)
      <4>1. client'[c] = NoRekey
            \/ client'[c] = [client[c] EXCEPT !.phase = "downloaded", !.stamp = snapshot.stamp,
                                              !.covers = snapshot.covers]
        BY <2>1, <3>2 DEF RekeyDownload, RekeyInv, RekeyTypes
      <4>2. CASE client'[c] = NoRekey
        BY <4>2 DEF NoRekey
      <4>3. CASE client'[c] # NoRekey
        BY <2>1, <4>1, <4>3 DEF RekeyInv, RekeyTypes, ClientRecord
      <4> QED
        BY <4>2, <4>3
    <3>3. CASE RekeyUpload(c)
      BY <2>1, <3>3 DEF RekeyUpload, RekeyInv, RekeyTypes, ClientRecord
    <3>4. CASE RekeyStoreKey(c) \/ RekeyFails(c)
      BY <2>1, <3>4 DEF RekeyStoreKey, RekeyFails, RekeyInv, RekeyTypes, NoRekey
    <3> QED
      BY <1>5, <3>1, <3>2, <3>3, <3>4
  <2> QED
    BY <1>2, <2>1, <2>2
<1>6. ASSUME NEW n \in Rekeys,
             RekeyReplace(n) \/ RekeyReplaceFails(n) \/ RekeyUnlock(n) \/ HandlerDies(n)
      PROVE  Kept
  <2>1. \A c \in Client : client'[c].phase = "fetched" => client'[c] = client[c]
    BY <1>6 DEF RekeyReplace, RekeyReplaceFails, RekeyUnlock, HandlerDies, NoRekey,
                RekeyInv, RekeyTypes, ClientRecord
  <2>2. \A m \in Rekeys : handler'[m].phase = "locked" => handler'[m] = handler[m]
    <3>1. \/ handler' = [handler EXCEPT ![n] = [handler[n] EXCEPT !.phase = "unlocking", !.done = TRUE]]
          \/ handler' = [handler EXCEPT ![n] = [handler[n] EXCEPT !.phase = "unlocking"]]
          \/ handler' = [handler EXCEPT ![n] = NoHandler]
      BY <1>6 DEF RekeyReplace, RekeyReplaceFails, RekeyUnlock, HandlerDies
    <3>2. handler'[n].phase # "locked" /\ \A m \in Rekeys \ {n} : handler'[m] = handler[m]
      <4>1. CASE handler' = [handler EXCEPT ![n] = NoHandler]
        BY <4>1 DEF RekeyInv, RekeyTypes, NoHandler
      <4>2. CASE handler' = [handler EXCEPT ![n] = [handler[n] EXCEPT !.phase = "unlocking"]]
        BY <4>2 DEF RekeyInv, RekeyTypes, HandlerRecord
      <4>3. CASE handler' = [handler EXCEPT ![n] = [handler[n] EXCEPT !.phase = "unlocking", !.done = TRUE]]
        BY <4>3 DEF RekeyInv, RekeyTypes, HandlerRecord
      <4> QED
        BY <3>1, <4>1, <4>2, <4>3
    <3> QED
      BY <3>2
  <2> QED
    BY <1>2, <2>1, <2>2
<1>7. ASSUME NEW c \in Client,
             \/ \E h \in Stamp : Emit(c, h) \/ Compact(c, h)
             \/ PushCheck(c) \/ PushStore(c) \/ PushMark(c) \/ PushFails(c)
      PROVE  Kept
  <2>1. client' = client /\ handler' = handler
    BY <1>7 DEF Emit, Compact, PushCheck, PushStore, PushMark, PushFails
  <2> QED
    BY <1>2, <2>1
<1>8. ASSUME Backup \/ Restore \/ UNCHANGED rekeyVars PROVE Kept
  <2>1. client' = client /\ handler' = handler
    BY <1>8 DEF Backup, Restore, rekeyVars
  <2> QED
    BY <1>2, <2>1
<1>9. CASE \E c \in Rekeyer : RekeyFetch(c)
  BY <1>3, <1>9
<1> HIDE DEF Kept
<1>10. CASE ~ \E c \in Rekeyer : RekeyFetch(c)
  <2>1. ASSUME Backup \/ Restore \/ UNCHANGED rekeyVars
       PROVE  Kept
    BY <1>8, <2>1
  <2>2. ASSUME \E c \in Client : \/ \E h \in Stamp : Emit(c, h) \/ Compact(c, h)
                                 \/ PushCheck(c) \/ PushStore(c) \/ PushMark(c) \/ PushFails(c)
       PROVE  Kept
    BY <1>7, <2>2
  <2>3. ASSUME \E c \in Rekeyer : RekeyLock(c)
       PROVE  Kept
    BY <1>4, <2>3
  <2>4. ASSUME \E c \in Rekeyer : \/ RekeySalt(c) \/ RekeyDownload(c) \/ RekeyUpload(c)
                                  \/ RekeyStoreKey(c) \/ RekeyFails(c)
       PROVE  Kept
    BY <1>5, <2>4
  <2>5. ASSUME \E n \in Rekeys : \/ RekeyReplace(n) \/ RekeyReplaceFails(n)
                                 \/ RekeyUnlock(n) \/ HandlerDies(n)
       PROVE  Kept
    BY <1>6, <2>5
  <2>6. Kept
    BY <1>10, <2>1, <2>2, <2>3, <2>4, <2>5, RekeyAssumption, SMTT(60) DEF RekeyNext
  <2> QED
    BY <2>6 DEF Kept
<1> QED
  BY <1>9, <1>10

\* Without an overlap the copies of a rekey are what the server holds.
LEMMA NothingGoesMissingStep ==
  ASSUME RekeyInv, [RekeyNext]_rekeyVars, OneAtATime, NothingGoesMissing
  PROVE  NothingGoesMissing'
<1> DEFINE All == Stored \cup Gone
\* What a step has to show: the ops of before stay, and no copy falls behind.
<1>1. ASSUME All \subseteq All', \A X \in Copies' : All' = X \cup Gone',
             DOMAIN bundle' \subseteq DOMAIN bundle \cup Stored,
             \A c \in Client : push'[c].phase = "stored" =>
               push'[c].ops \subseteq All' \/ push'[c] = push[c],
             \A c \in Client : own'[c] \ unpushed'[c] \subseteq (own[c] \ unpushed[c]) \cup All'
      PROVE  NothingGoesMissing'
  BY <1>1 DEF NothingGoesMissing
<1>2. ASSUME UNCHANGED <<own, unpushed, bundle>>,
             \A c \in Client : push'[c].phase = "stored" => push'[c] = push[c],
             All' = All, Gone \subseteq Gone'
      PROVE  NothingGoesMissing'
  <2>1. \A X \in Copies' : All' = X \cup Gone'
    <3>1. ASSUME NEW X \in Copies' PROVE All' = X \cup Gone'
      <4>1. X \cup Gone = All
        <5>1. CASE X \in Copies
          BY <5>1 DEF NothingGoesMissing
        <5>2. CASE X \notin Copies
          BY <3>1, <5>2, CopiesFrom
        <5> QED
          BY <5>1, <5>2
      <4>2. Gone' \subseteq All'
        OBVIOUS
      <4> QED
        BY <1>2, <4>1, <4>2
    <3> QED
      BY <3>1
  <2> HIDE DEF All
  <2> QED
    BY <1>1, <1>2, <2>1
<1>3. ASSUME NEW c \in Client, PushStore(c) PROVE NothingGoesMissing'
  <2> DEFINE new == push[c].ops \ Stored
  <2>1. /\ push[c].phase = "checked" /\ push[c].calm
        /\ Stored' = Stored \cup new
        /\ raced' = IF CopyHeld THEN raced \cup new ELSE raced
        /\ UNCHANGED <<client, handler, own, unpushed, bundle, pruned>>
    BY <1>3 DEF PushStore, Stored, deviceVars, counters, OneAtATime
  <2>2. \A d \in Client : push'[d] = push[d] \/ push'[d].ops \subseteq All'
    <3>1. push[c].ops \subseteq Stored'
      BY <2>1
    <3>2. push' = [push EXCEPT ![c].phase = "stored"]
      BY <1>3 DEF PushStore
    <3> QED
      BY <3>1, <3>2 DEF RekeyInv, RekeyTypes, PushRecord
  <2>3. Copies' = Copies /\ (Copies # {} => CopyHeld)
    BY <2>1 DEF Copies, CopyHeld
  <2>4. \A X \in Copies' : All' = X \cup Gone'
    BY <2>1, <2>3 DEF NothingGoesMissing, Gone
  <2>5. All \subseteq All'
    BY <2>1 DEF Gone
  <2> HIDE DEF All
  <2> QED
    BY <1>1, <2>1, <2>2, <2>4, <2>5
<1>4. CASE Restore
  <2>1. /\ Stored' = Stored \cup (DOMAIN bundle \ Stored)
        /\ UNCHANGED <<push, own, unpushed, bundle, pruned, raced>>
    BY <1>4 DEF Restore, Stored, deviceVars, Trouble
  <2> QED
    BY <1>2, <2>1 DEF NothingGoesMissing, Gone
<1>5. ASSUME NEW n \in Rekeys, RekeyReplace(n) PROVE NothingGoesMissing'
  <2>1. /\ Stored' = handler[n].ops /\ handler[n].ops \in Copies
        /\ UNCHANGED <<push, own, unpushed, bundle, pruned, raced>>
    BY <1>5 DEF RekeyReplace, Stored, deviceVars, counters, Copies
  <2> QED
    BY <1>2, <2>1 DEF NothingGoesMissing, Gone
<1>6. ASSUME NEW c \in Client,
             \/ c \in Compactor /\ \E h \in Stamp : Compact(c, h)
             \/ RekeyUpload(c)
      PROVE  NothingGoesMissing'
  <2>1. PICK stamp \in Nat :
          /\ Stored' = Stored \ {h \in Stored : h <= stamp}
          /\ pruned' = pruned \cup {h \in Stored : h <= stamp}
    <3>1. CASE RekeyUpload(c)
      BY <3>1, RekeyAssumption DEF RekeyUpload, Upload, Stored, RekeyInv, RekeyTypes, ClientRecord
    <3>2. CASE ~RekeyUpload(c)
      BY <1>6, <3>2 DEF Compact, Upload, Stored, Stamp
    <3> QED
      BY <3>1, <3>2
  <2>2. UNCHANGED <<push, own, unpushed, bundle, raced>>
    BY <1>6 DEF Compact, RekeyUpload, Trouble, deviceVars, counters
  <2> QED
    BY <1>2, <2>1, <2>2 DEF Gone
<1>7. ASSUME UNCHANGED <<server, pruned, raced, own, unpushed, bundle>>,
             \A c \in Client : push'[c].phase = "stored" => push'[c] = push[c]
      PROVE  NothingGoesMissing'
  BY <1>2, <1>7 DEF Gone, Stored
<1>8. ASSUME NEW c \in Client, PushCheck(c) \/ PushFails(c) PROVE NothingGoesMissing'
  <2>1. \A d \in Client : push'[d].phase = "stored" => push'[d] = push[d]
    BY <1>8 DEF PushCheck, PushFails, RekeyInv, RekeyTypes, NoPush
  <2>2. UNCHANGED <<server, pruned, raced, own, unpushed, bundle>>
    BY <1>8 DEF PushCheck, PushFails, Trouble, deviceVars, serverVars, counters, history
  <2> QED
    BY <1>7, <2>1, <2>2
<1>9. ASSUME NEW c \in Client, (\E h \in Stamp : Emit(c, h)) \/ PushMark(c)
      PROVE  NothingGoesMissing'
  <2>1. UNCHANGED <<server, pruned, raced, bundle, client, handler>>
    BY <1>9 DEF Emit, PushMark, serverVars, counters, history
  <2>2. /\ All' = All /\ Copies' = Copies /\ Gone' = Gone
    BY <2>1 DEF Gone, Stored, Copies
  <2>3. \A d \in Client : push'[d].phase = "stored" => push'[d] = push[d]
    BY <1>9 DEF Emit, PushMark, RekeyInv, RekeyTypes, NoPush
  <2>4. \A d \in Client : own'[d] \ unpushed'[d] \subseteq (own[d] \ unpushed[d]) \cup All'
    <3>1. CASE \E h \in Stamp : Emit(c, h)
      BY <3>1 DEF Emit, RekeyInv, RekeyTypes
    <3>2. CASE PushMark(c)
      BY <2>2, <3>2 DEF PushMark, RekeyInv, RekeyTypes, NothingGoesMissing
    <3> QED
      BY <1>9, <3>1, <3>2
  <2>5. \A X \in Copies' : All' = X \cup Gone'
    BY <2>2 DEF NothingGoesMissing
  <2> HIDE DEF All
  <2> QED
    BY <1>1, <2>1, <2>2, <2>3, <2>4, <2>5
<1>10. CASE Backup
  <2>1. UNCHANGED <<server, pruned, raced, own, unpushed, push, client, handler>> /\ bundle' = server
    BY <1>10 DEF Backup, deviceVars, serverVars, history
  <2>2. /\ All' = All /\ Copies' = Copies /\ Gone' = Gone
    BY <2>1 DEF Gone, Stored, Copies
  <2>3. \A X \in Copies' : All' = X \cup Gone'
    BY <2>2 DEF NothingGoesMissing
  <2>4. DOMAIN bundle' \subseteq Stored
    BY <2>1 DEF Stored
  <2> HIDE DEF All
  <2> QED
    BY <1>1, <2>1, <2>2, <2>3, <2>4
<1>11. ASSUME NEW c \in Client,
              \/ RekeySalt(c) \/ RekeyFetch(c) \/ RekeyLock(c) \/ RekeyDownload(c)
              \/ RekeyStoreKey(c) \/ RekeyFails(c)
       PROVE  NothingGoesMissing'
  <2>1. UNCHANGED <<server, pruned, raced, own, unpushed, bundle, push>>
    BY <1>11 DEF RekeySalt, RekeyFetch, RekeyLock, RekeyDownload, RekeyStoreKey, RekeyFails,
                 Trouble, deviceVars, serverVars, counters, history
  <2> QED
    BY <1>7, <2>1
<1>12. ASSUME NEW n \in Rekeys, RekeyReplaceFails(n) \/ RekeyUnlock(n) \/ HandlerDies(n)
       PROVE  NothingGoesMissing'
  <2>1. UNCHANGED <<server, pruned, raced, own, unpushed, bundle, push>>
    BY <1>12 DEF RekeyReplaceFails, RekeyUnlock, HandlerDies, Trouble, deviceVars, serverVars,
                 counters, history
  <2> QED
    BY <1>7, <2>1
<1>13. CASE UNCHANGED rekeyVars
  BY <1>7, <1>13 DEF rekeyVars
<1> QED
  BY <1>3, <1>4, <1>5, <1>6, <1>8, <1>9, <1>10, <1>11, <1>12, <1>13, RekeyAssumption
  DEF RekeyNext

\* What the properties except stays on record.
LEMMA EventsStay ==
  ASSUME [RekeyNext]_rekeyVars
  PROVE  events \subseteq events'
<1>1. ASSUME NEW c \in Client,
             \/ \E h \in Stamp : Emit(c, h) \/ Compact(c, h)
             \/ PushCheck(c) \/ PushStore(c) \/ PushMark(c) \/ PushFails(c)
             \/ RekeySalt(c) \/ RekeyFetch(c) \/ RekeyLock(c) \/ RekeyDownload(c)
             \/ RekeyUpload(c) \/ RekeyStoreKey(c) \/ RekeyFails(c)
      PROVE  events \subseteq events'
  BY <1>1 DEF Emit, Compact, PushCheck, PushStore, PushMark, PushFails, RekeySalt, RekeyFetch,
     RekeyLock, RekeyDownload, RekeyUpload, RekeyStoreKey, RekeyFails, history
<1>2. ASSUME NEW n \in Rekeys,
             RekeyReplace(n) \/ RekeyReplaceFails(n) \/ RekeyUnlock(n) \/ HandlerDies(n)
      PROVE  events \subseteq events'
  BY <1>2 DEF RekeyReplace, RekeyReplaceFails, RekeyUnlock, HandlerDies, history
<1>3. CASE Backup \/ Restore \/ UNCHANGED rekeyVars
  BY <1>3 DEF Backup, Restore, history, rekeyVars
<1> QED
  BY <1>1, <1>2, <1>3, RekeyAssumption DEF RekeyNext

\* Every step keeps the parts about the copies.
LEMMA CopyStep ==
  ASSUME RekeyInv, [RekeyNext]_rekeyVars
  PROVE  CopyPart'
<1>1. events \subseteq events'
  BY EventsStay
<1>2. ASSUME "overlap" \notin events' PROVE OneAtATime' /\ NothingGoesMissing'
  <2>1. OneAtATime /\ NothingGoesMissing
    BY <1>1, <1>2, CopyParts
  <2>2. OneAtATime'
    BY <1>2, <2>1, OneAtATimeStep
  <2>3. NothingGoesMissing'
    BY <2>1, NothingGoesMissingStep
  <2> QED
    BY <2>2, <2>3
<1>3. Gone' = pruned' \cup raced'
  BY DEF Gone
<1> QED
  BY <1>2, <1>3
  DEF CopyPart, CopiesAreWhole, RekeyKeepsPushed, OneAtATime, NothingGoesMissing

\* Every step keeps the parts about the quota.
LEMMA QuotaStep ==
  ASSUME RekeyInv, [RekeyNext]_rekeyVars
  PROVE  FitsQuota' /\ QuotaRespected'
<1> USE DEF RekeyInv
<1>1. quota' = quota
  <2>1. ASSUME NEW c \in Client,
               \/ \E h \in Stamp : Emit(c, h) \/ Compact(c, h)
               \/ PushCheck(c) \/ PushStore(c) \/ PushMark(c) \/ PushFails(c)
               \/ RekeySalt(c) \/ RekeyFetch(c) \/ RekeyLock(c) \/ RekeyDownload(c)
               \/ RekeyUpload(c) \/ RekeyStoreKey(c) \/ RekeyFails(c)
        PROVE  quota' = quota
    BY <2>1 DEF Emit, Compact, PushCheck, PushStore, PushMark, PushFails, RekeySalt, RekeyFetch,
       RekeyLock, RekeyDownload, RekeyUpload, RekeyStoreKey, RekeyFails, Trouble, counters
  <2>2. ASSUME NEW n \in Rekeys,
               RekeyReplace(n) \/ RekeyReplaceFails(n) \/ RekeyUnlock(n) \/ HandlerDies(n)
        PROVE  quota' = quota
    BY <2>2 DEF RekeyReplace, RekeyReplaceFails, RekeyUnlock, HandlerDies, Trouble, counters
  <2>3. CASE Backup \/ Restore \/ UNCHANGED rekeyVars
    BY <2>3 DEF Backup, Restore, Trouble, rekeyVars
  <2> QED
    BY <2>1, <2>2, <2>3, RekeyAssumption DEF RekeyNext
<1>2. Crowded => Crowded'
  BY EventsStay DEF Crowded
<1>3. \A c \in Client : push'[c].phase = "checked" =>
        push'[c].seen + Cardinality(push'[c].ops) <= quota
  <2>1. ASSUME NEW c \in Client, PushCheck(c), NEW d \in Client, push'[d].phase = "checked"
        PROVE  push'[d].seen + Cardinality(push'[d].ops) <= quota
    <3>1. /\ push'[c].seen = Cardinality(Stored) /\ push'[c].ops = unpushed[c]
          /\ d # c => push'[d] = push[d]
          /\ Cardinality(Stored) + Cardinality(unpushed[c]) <= quota
      BY <2>1 DEF PushCheck, QuotaAllows, RekeyTypes
    <3> QED
      BY <2>1, <3>1 DEF FitsQuota
  <2>2. ASSUME NEW c \in Client, PushStore(c) \/ PushMark(c) \/ PushFails(c),
               NEW d \in Client, push'[d].phase = "checked"
        PROVE  push'[d].seen + Cardinality(push'[d].ops) <= quota
    <3>1. push'[d] = push[d]
      BY <2>2 DEF PushStore, PushMark, PushFails, RekeyTypes, PushRecord, NoPush
    <3> QED
      BY <2>2, <3>1 DEF FitsQuota
  <2>3. ASSUME UNCHANGED push, NEW d \in Client, push'[d].phase = "checked"
        PROVE  push'[d].seen + Cardinality(push'[d].ops) <= quota
    BY <2>3 DEF FitsQuota
  <2>4. ASSUME NEW c \in Client,
               \/ \E h \in Stamp : Emit(c, h) \/ Compact(c, h)
               \/ RekeySalt(c) \/ RekeyFetch(c) \/ RekeyLock(c) \/ RekeyDownload(c)
               \/ RekeyUpload(c) \/ RekeyStoreKey(c) \/ RekeyFails(c)
        PROVE  UNCHANGED push
    BY <2>4 DEF Emit, Compact, RekeySalt, RekeyFetch,
       RekeyLock, RekeyDownload, RekeyUpload, RekeyStoreKey, RekeyFails
  <2>5. ASSUME NEW n \in Rekeys,
               RekeyReplace(n) \/ RekeyReplaceFails(n) \/ RekeyUnlock(n) \/ HandlerDies(n)
        PROVE  UNCHANGED push
    BY <2>5 DEF RekeyReplace, RekeyReplaceFails, RekeyUnlock, HandlerDies
  <2>6. ASSUME Backup \/ Restore \/ UNCHANGED rekeyVars
        PROVE  UNCHANGED push
    BY <2>6 DEF Backup, Restore, rekeyVars
  <2>7. \/ UNCHANGED push
        \/ \E c \in Client : PushCheck(c) \/ PushStore(c) \/ PushMark(c) \/ PushFails(c)
    BY <2>4, <2>5, <2>6, RekeyAssumption DEF RekeyNext
  <2> QED
    BY <2>1, <2>2, <2>3, <2>7
<1>4. Crowded' \/ \A X \in Copies' : Cardinality(X) <= quota
  <2>1. Copies' \subseteq Copies \cup {Stored}
    BY CopiesFrom
  <2>2. Crowded \/ \A X \in Copies \cup {Stored} : Cardinality(X) <= quota
    BY DEF FitsQuota, PushIsHonoured, QuotaRespected, Crowded
  <2> QED
    BY <1>2, <2>1, <2>2
<1>5. FitsQuota'
  BY <1>1, <1>3, <1>4 DEF FitsQuota
<1>6. /\ \A X \in SUBSET Stamp : IsFiniteSet(X) /\ Cardinality(X) \in Nat
      /\ Stored \subseteq Stamp /\ quota \in Nat
  BY Sizes DEF RekeyTypes
<1>7. Crowded \/ Cardinality(Stored) <= quota
  BY DEF PushIsHonoured, QuotaRespected, Crowded
<1>8. ASSUME Crowded' \/ Cardinality(Stored') <= quota PROVE QuotaRespected'
  BY <1>1, <1>8 DEF QuotaRespected, Crowded
<1>9. ASSUME Stored' \subseteq Stored PROVE QuotaRespected'
  <2>1. Cardinality(Stored') <= Cardinality(Stored) /\ Cardinality(Stored') \in Nat
    BY <1>6, <1>9, FS_Subset
  <2> QED
    BY <1>2, <1>6, <1>7, <1>8, <2>1
<1>10. ASSUME NEW c \in Client, PushStore(c) PROVE QuotaRespected'
  <2>1. /\ push[c].phase = "checked"
        /\ Stored' = Stored \cup (push[c].ops \ Stored)
        /\ Cardinality(Stored) > push[c].seen => Crowded'
    BY <1>10 DEF PushStore, Stored, Crowded
  <2>2. /\ push[c].ops \subseteq Stamp /\ push[c].seen \in Nat
        /\ push[c].seen + Cardinality(push[c].ops) <= quota
    BY <2>1 DEF FitsQuota, RekeyTypes, PushRecord
  <2>3. Stored' = Stored \cup push[c].ops /\ Stored' \subseteq Stamp
    BY <1>6, <2>1, <2>2
  <2>4. /\ Cardinality(Stored') \in Nat /\ Cardinality(Stored) \in Nat
        /\ Cardinality(push[c].ops) \in Nat
        /\ Cardinality(Stored') <= Cardinality(Stored) + Cardinality(push[c].ops)
    <3>1. /\ Cardinality(Stored \cup push[c].ops)
               = Cardinality(Stored) + Cardinality(push[c].ops) - Cardinality(Stored \cap push[c].ops)
      BY <1>6, <2>2, FS_Union
    <3>2. Cardinality(Stored \cap push[c].ops) \in Nat
      BY <1>6
    <3> QED
      BY <1>6, <2>2, <2>3, <3>1, <3>2
  <2> QED
    BY <1>6, <1>8, <2>1, <2>2, <2>4
<1>11. ASSUME Restore PROVE QuotaRespected'
  <2>1. CASE DOMAIN bundle \ Stored = {}
    <3>1. Stored' = Stored
      BY <1>11, <2>1 DEF Restore, Stored
    <3> QED
      BY <1>9, <3>1
  <2>2. CASE DOMAIN bundle \ Stored # {}
    <3>1. Crowded'
      BY <1>11, <2>2 DEF Restore, Crowded
    <3> QED
      BY <1>8, <3>1
  <2> QED
    BY <2>1, <2>2
<1>12. ASSUME NEW n \in Rekeys, RekeyReplace(n) PROVE QuotaRespected'
  <2>1. Stored' = handler[n].ops /\ handler[n].ops \in Copies
    BY <1>12 DEF RekeyReplace, Stored, Copies
  <2> QED
    BY <1>2, <1>8, <2>1 DEF FitsQuota
<1>13. ASSUME NEW c \in Client,
              \/ \E h \in Stamp : Compact(c, h)
              \/ RekeyUpload(c)
       PROVE  QuotaRespected'
  <2>1. Stored' \subseteq Stored
    BY <1>13 DEF Compact, RekeyUpload, Upload, Stored
  <2> QED
    BY <1>9, <2>1
<1>14. ASSUME UNCHANGED server PROVE QuotaRespected'
  BY <1>9, <1>14 DEF Stored
<1>15. ASSUME NEW c \in Client,
              \/ \E h \in Stamp : Emit(c, h)
              \/ PushCheck(c) \/ PushMark(c) \/ PushFails(c)
              \/ RekeySalt(c) \/ RekeyFetch(c) \/ RekeyLock(c) \/ RekeyDownload(c)
              \/ RekeyStoreKey(c) \/ RekeyFails(c)
       PROVE  UNCHANGED server
  BY <1>15 DEF Emit, PushCheck, PushMark, PushFails, RekeySalt, RekeyFetch, RekeyLock,
               RekeyDownload, RekeyStoreKey, RekeyFails, serverVars
<1>16. ASSUME NEW n \in Rekeys, RekeyReplaceFails(n) \/ RekeyUnlock(n) \/ HandlerDies(n)
       PROVE  UNCHANGED server
  BY <1>16 DEF RekeyReplaceFails, RekeyUnlock, HandlerDies, serverVars
<1>17. ASSUME Backup \/ UNCHANGED rekeyVars PROVE UNCHANGED server
  BY <1>17 DEF Backup, serverVars, rekeyVars
<1>18. QuotaRespected'
  BY <1>10, <1>11, <1>12, <1>13, <1>14, <1>15, <1>16, <1>17, RekeyAssumption DEF RekeyNext
<1> QED
  BY <1>5, <1>18

\* Every step of pushes, rekeys and compactions keeps the invariant.
LEMMA RekeyNextInv == RekeyInv /\ [RekeyNext]_rekeyVars => RekeyInv'
<1> SUFFICES ASSUME RekeyInv, [RekeyNext]_rekeyVars PROVE RekeyInv'
  OBVIOUS
<1>1. RekeyTypes'
  BY RekeyTypesStep
<1>2. NumbersAreOnce' /\ UpcomingIsUnused' /\ OldIsGone'
  BY KeyStep DEF KeyPart
<1>3. UploadedIsReadable' /\ SnapshotReadable' /\ SnapshotsAreDated' /\ PrunedIsCovered'
  BY SnapshotStep DEF SnapshotPart
<1>4. ServerReadable' /\ LockReleased'
  BY ReadableStep, LockStep
<1>5. CopiesAreWhole' /\ RekeyKeepsPushed'
  BY CopyStep DEF CopyPart
<1>6. FitsQuota' /\ QuotaRespected'
  BY QuotaStep
<1>7. LibraryIsWhole' /\ PushIsHonoured'
  BY <1>3, <1>4, <1>5, <1>6 DEF LibraryIsWhole, PushIsHonoured
<1> QED
  BY <1>1, <1>2, <1>3, <1>5, <1>6, <1>7 DEF RekeyInv

(***************************************************************************)
(* The inductive invariant of Rekey: the numbers and keys of the rekeys,   *)
(* the snapshot and what it prunes, the copies of the ops, and the quota.  *)
(***************************************************************************)
THEOREM RekeyInvariant == RekeySpec => []RekeyInv
BY RekeyInitInv, RekeyNextInv, PTL DEF RekeySpec

(***************************************************************************)
(* For any number of devices, ops and rekeys: whatever is stored on the    *)
(* server is readable with the key its salt gives, the snapshot too, and   *)
(* what was pruned is in a snapshot, save where the run has seen one of the *)
(* events that the code does not guard against.                            *)
(***************************************************************************)
THEOREM LibraryStaysWhole == RekeySpec => []LibraryIsWhole
<1>1. RekeyInv => LibraryIsWhole
  BY DEF RekeyInv
<1> QED
  BY <1>1, RekeyInvariant, PTL

(***************************************************************************)
(* For any number of devices, ops, rekeys and any quota: what a push was   *)
(* told is stored is not lost to a rekey, the lock is released, and the    *)
(* quota holds, with the same exceptions.                                  *)
(***************************************************************************)
THEOREM PushesAreHonoured == RekeySpec => []PushIsHonoured
<1>1. RekeyInv => PushIsHonoured
  BY DEF RekeyInv
<1> QED
  BY <1>1, RekeyInvariant, PTL

-----------------------------------------------------------------------------
-----------------------------------------------------------------------------
(* Migration: the inductive invariant, in parts. *)

Ops == Nat \ {0}
MigrationPhase == {"idle", "keyed", "account", "session", "fetched", "replaced", "stored",
                   "configuring"}

MigrationRecord == [phase : MigrationPhase, old : Nat, new : Nat, ops : SUBSET Ops]

MigrationTypes ==
  /\ keeper \in Nat /\ salted \in BOOLEAN /\ fresh \in Nat /\ writes \in Nat
  /\ DOMAIN opstore \subseteq Ops
  /\ unsent \in [Migrator -> SUBSET Ops] /\ vault \in [Migrator -> Nat]
  /\ sealed \in [Migrator -> BOOLEAN] /\ migrating \in [Migrator -> MigrationRecord]

\* The account takes one data key, and only the migration that brought it goes on.
OneDataKey ==
  \A m \in Migrator :
    /\ At(m, "keyed") => migrating[m].new # Plain
    /\ ~At(m, "idle") /\ ~At(m, "keyed") => migrating[m].new = keeper /\ keeper # Plain

\* While the server has the passphrase's salt there are no other keys about.
KeysBefore ==
  salted =>
    /\ \A h \in DOMAIN opstore : opstore[h] \in {Plain, Passphrase, keeper}
    /\ blob \subseteq {Plain, Passphrase, keeper}
    /\ \A m \in Migrator : /\ vault[m] \in {Plain, Passphrase, keeper}
                           /\ migrating[m].phase \notin {"replaced", "stored", "configuring"}

\* And once the ops are replaced, the account's key is the one of what did not stray.
KeysAfter ==
  ~salted =>
    /\ keeper # Plain
    /\ \A h \in DOMAIN opstore \ strayed : opstore[h] = keeper
    /\ Blob \notin strayed => blob \subseteq {Plain, keeper}

MigrationInv == MigrationTypes /\ OneDataKey /\ KeysBefore /\ KeysAfter

\* Initially nothing is written, and one key is the data key.
LEMMA MigrationInitInv == MigrationInit => MigrationInv
<1> SUFFICES ASSUME MigrationInit PROVE MigrationInv
  OBVIOUS
<1>1. PICK k \in {Plain, Passphrase} :
        /\ opstore = [h \in {1} |-> k] /\ blob \in {{}, {k}}
        /\ vault = [m \in Migrator |-> k] /\ sealed = [m \in Migrator |-> k # Plain]
  BY DEF MigrationInit
<1>2. /\ keeper = Plain /\ salted = TRUE /\ unsent = [m \in Migrator |-> {}]
      /\ migrating = [m \in Migrator |-> NoMigration] /\ writes = 1 /\ fresh = 0
  BY DEF MigrationInit
<1>3. NoMigration \in MigrationRecord /\ NoMigration.phase = "idle"
  BY DEF NoMigration, MigrationRecord, MigrationPhase, Plain
<1>4. MigrationTypes
  <2>1. sealed \in [Migrator -> BOOLEAN]
    BY <1>1
  <2>2. DOMAIN opstore = {1} /\ vault \in [Migrator -> Nat]
    BY <1>1 DEF Plain, Passphrase
  <2> QED
    BY <1>2, <1>3, <2>1, <2>2 DEF MigrationTypes, Ops, Plain
<1>5. OneDataKey /\ KeysBefore /\ KeysAfter
  BY <1>1, <1>2, <1>3 DEF OneDataKey, At, KeysBefore, KeysAfter
<1> QED
  BY <1>4, <1>5 DEF MigrationInv

\* What the steps of a machine do to the record of its migration.
LEMMA MovesTo ==
  ASSUME MigrationInv, NEW m \in Migrator, NEW next \in MigrationPhase, MoveTo(m, next)
  PROVE  /\ migrating' \in [Migrator -> MigrationRecord]
         /\ migrating'[m].phase = next /\ migrating'[m].new = migrating[m].new
         /\ \A n \in Migrator \ {m} : migrating'[n] = migrating[n]
BY DEF MoveTo, MigrationInv, MigrationTypes, MigrationRecord

\* A command that gives up, or is killed, takes its record with it.
LEMMA GivesUp ==
  ASSUME MigrationInv, NEW m \in Migrator, GiveUp(m)
  PROVE  /\ migrating' \in [Migrator -> MigrationRecord] /\ migrating'[m].phase = "idle"
         /\ \A n \in Migrator \ {m} : migrating'[n] = migrating[n]
BY DEF GiveUp, MigrationInv, MigrationTypes, MigrationRecord, MigrationPhase, NoMigration, Plain

\* The key a machine pushes and compacts with.
LEMMA KeyOfMachine ==
  ASSUME MigrationInv, NEW m \in Migrator
  PROVE  KeyOf(m) \in Nat /\ (salted => KeyOf(m) \in {Plain, Passphrase, keeper})
BY DEF KeyOf, MigrationInv, MigrationTypes, KeysBefore, Plain

(***************************************************************************)
(* What goes on beside a migration.                                        *)
(***************************************************************************)
LEMMA BesideStep ==
  ASSUME MigrationInv, NEW m \in Migrator,
         MachineWrites(m) \/ PushSealed(m) \/ CompactSealed(m) \/ LogIn(m)
  PROVE  MigrationInv'
<1>1. CASE MachineWrites(m)
  <2>1. MigrationTypes'
    BY <1>1 DEF MachineWrites, MigrationInv, MigrationTypes, Ops
  <2> QED
    BY <1>1, <2>1 DEF MachineWrites, MigrationInv, OneDataKey, At, KeysBefore, KeysAfter
<1>2. CASE PushSealed(m)
  <2>1. UNCHANGED <<keeper, blob, salted, vault, sealed, migrating, writes, fresh>>
    BY <1>2 DEF PushSealed
  <2>2. /\ opstore' = [h \in DOMAIN opstore \cup unsent[m] |->
                         IF h \in DOMAIN opstore THEN opstore[h] ELSE KeyOf(m)]
        /\ unsent' = [unsent EXCEPT ![m] = {}]
        /\ strayed' = IF ~salted /\ KeyOf(m) # keeper
                        THEN strayed \cup (unsent[m] \ DOMAIN opstore) ELSE strayed
    BY <1>2 DEF PushSealed
  <2>3. DOMAIN opstore' = DOMAIN opstore \cup unsent[m]
        /\ \A h \in DOMAIN opstore' : opstore'[h] = IF h \in DOMAIN opstore THEN opstore[h] ELSE KeyOf(m)
    BY <2>2
  <2>4. MigrationTypes'
    BY <2>1, <2>2, <2>3 DEF MigrationInv, MigrationTypes
  <2>5. OneDataKey'
    BY <2>1 DEF MigrationInv, OneDataKey, At
  <2>6. KeysBefore'
    BY <2>1, <2>3, KeyOfMachine DEF MigrationInv, KeysBefore
  <2>7. KeysAfter'
    <3> SUFFICES ASSUME ~salted PROVE KeysAfter'
      BY <2>1 DEF KeysAfter
    <3>1. \A h \in DOMAIN opstore' \ strayed' : opstore'[h] = keeper
      BY <2>2, <2>3 DEF MigrationInv, KeysAfter
    <3>2. Blob \notin strayed' => Blob \notin strayed
      BY <2>2
    <3> QED
      BY <2>1, <3>1, <3>2 DEF MigrationInv, KeysAfter
  <2> QED
    BY <2>4, <2>5, <2>6, <2>7 DEF MigrationInv
<1>3. CASE CompactSealed(m)
  <2>1. /\ UNCHANGED <<keeper, unsent, salted, vault, sealed, migrating, writes, fresh>>
        /\ DOMAIN opstore' = {} /\ blob' = {KeyOf(m)}
        /\ strayed' = IF ~salted /\ KeyOf(m) # keeper THEN {Blob} ELSE {}
    BY <1>3 DEF CompactSealed
  <2>2. MigrationTypes' /\ OneDataKey'
    BY <2>1 DEF MigrationInv, MigrationTypes, OneDataKey, At
  <2>3. KeysBefore'
    BY <2>1, KeyOfMachine DEF MigrationInv, KeysBefore
  <2>4. KeysAfter'
    BY <2>1 DEF MigrationInv, KeysAfter
  <2> QED
    BY <2>2, <2>3, <2>4 DEF MigrationInv
<1>4. CASE LogIn(m)
  <2>1. /\ UNCHANGED <<keeper, opstore, blob, salted, unsent, sealed, migrating, writes, fresh,
                       strayed>>
        /\ vault' = [vault EXCEPT ![m] = keeper]
    BY <1>4 DEF LogIn, StoresKey
  <2>2. MigrationTypes' /\ OneDataKey' /\ KeysAfter'
    BY <2>1 DEF MigrationInv, MigrationTypes, OneDataKey, At, KeysAfter
  <2>3. KeysBefore'
    BY <2>1 DEF MigrationInv, MigrationTypes, KeysBefore
  <2> QED
    BY <2>2, <2>3 DEF MigrationInv
<1> QED
  BY <1>1, <1>2, <1>3, <1>4

(***************************************************************************)
(* The migration up to the download: the account gets its key once.        *)
(***************************************************************************)
LEMMA MigrateSignsUp ==
  ASSUME MigrationInv, NEW m \in Migrator,
         MigrateBegin(m) \/ MigrateSignup(m) \/ MigrateSession(m) \/ MigrateFetch(m)
  PROVE  MigrationInv'
<1>1. CASE MigrateBegin(m)
  <2>1. /\ UNCHANGED <<keeper, opstore, blob, salted, unsent, vault, sealed, writes, strayed>>
        /\ fresh' = fresh + 1
        /\ migrating' = [migrating EXCEPT ![m] =
             [phase |-> "keyed", old |-> KeyOf(m), new |-> fresh + 2, ops |-> {}]]
    BY <1>1 DEF MigrateBegin
  <2>2. /\ migrating' \in [Migrator -> MigrationRecord]
        /\ migrating'[m].phase = "keyed" /\ migrating'[m].new = fresh + 2
        /\ \A n \in Migrator \ {m} : migrating'[n] = migrating[n]
    <3>1. KeyOf(m) \in Nat /\ fresh + 2 \in Nat
      BY KeyOfMachine DEF MigrationInv, MigrationTypes
    <3> DEFINE r == [phase |-> "keyed", old |-> KeyOf(m), new |-> fresh + 2, ops |-> {}]
    <3>2. r \in MigrationRecord /\ r.phase = "keyed" /\ r.new = fresh + 2
      BY <3>1 DEF MigrationRecord, MigrationPhase
    <3>3. migrating' = [migrating EXCEPT ![m] = r]
      BY <2>1
    <3> HIDE DEF r
    <3> QED
      BY <3>2, <3>3 DEF MigrationInv, MigrationTypes
  <2>3. fresh + 2 \in Nat /\ fresh + 2 # Plain /\ fresh' \in Nat
    BY <2>1 DEF MigrationInv, MigrationTypes, Plain
  <2>4. MigrationTypes'
    BY <2>1, <2>2, <2>3 DEF MigrationInv, MigrationTypes
  <2>5. OneDataKey' /\ KeysBefore' /\ KeysAfter'
    BY <2>1, <2>2, <2>3 DEF MigrationInv, OneDataKey, At, KeysBefore, KeysAfter
  <2> QED
    BY <2>4, <2>5 DEF MigrationInv
<1>2. CASE MigrateSignup(m) /\ keeper = Plain
  <2>1. /\ UNCHANGED <<opstore, blob, salted, unsent, vault, sealed, writes, fresh, strayed>>
        /\ keeper' = migrating[m].new /\ MoveTo(m, "account") /\ At(m, "keyed")
    BY <1>2 DEF MigrateSignup
  <2>2. /\ migrating' \in [Migrator -> MigrationRecord]
        /\ migrating'[m].phase = "account" /\ migrating'[m].new = keeper'
        /\ \A n \in Migrator \ {m} : migrating'[n] = migrating[n]
    BY <2>1, MovesTo DEF MigrationPhase
  <2>3. keeper' \in Nat /\ keeper' # Plain
    BY <2>1 DEF MigrationInv, MigrationTypes, MigrationRecord, OneDataKey
  <2>4. MigrationTypes'
    BY <2>1, <2>2, <2>3 DEF MigrationInv, MigrationTypes
  <2>5. OneDataKey'
    BY <1>2, <2>2, <2>3 DEF MigrationInv, OneDataKey, At
  <2>6. KeysBefore' /\ KeysAfter'
    BY <1>2, <2>1, <2>2 DEF MigrationInv, KeysBefore, KeysAfter
  <2> QED
    BY <2>4, <2>5, <2>6 DEF MigrationInv
<1>3. ASSUME UNCHANGED <<keeper, opstore, blob, salted, unsent, vault, sealed, writes, fresh,
                         strayed>>,
             migrating' \in [Migrator -> MigrationRecord],
             \A n \in Migrator \ {m} : migrating'[n] = migrating[n],
             \/ migrating'[m].phase = "idle"
             \/ /\ migrating[m].phase \in {"account", "session"}
                /\ migrating'[m].phase \in {"session", "fetched"}
                /\ migrating'[m].new = migrating[m].new
      PROVE  MigrationInv'
  <2>1. MigrationTypes' /\ KeysAfter'
    BY <1>3 DEF MigrationInv, MigrationTypes, KeysAfter
  <2>2. OneDataKey' /\ KeysBefore'
    BY <1>3 DEF MigrationInv, OneDataKey, At, KeysBefore
  <2> QED
    BY <2>1, <2>2 DEF MigrationInv
<1>4. CASE MigrateSignup(m) /\ keeper # Plain
  BY <1>3, <1>4, GivesUp DEF MigrateSignup
<1>5. CASE MigrateSession(m)
  BY <1>3, <1>5, MovesTo DEF MigrateSession, At, MigrationPhase
<1>6. CASE MigrateFetch(m)
  <2>1. UNCHANGED <<keeper, opstore, blob, salted, unsent, vault, sealed, writes, fresh, strayed>>
        /\ At(m, "session")
    BY <1>6 DEF MigrateFetch
  <2>2. CASE GiveUp(m)
    BY <1>3, <2>1, <2>2, GivesUp
  <2>3. CASE ~GiveUp(m)
    <3>1. migrating' = [migrating EXCEPT ![m].phase = "fetched", ![m].ops = DOMAIN opstore]
      BY <1>6, <2>3 DEF MigrateFetch
    <3>2. /\ migrating' \in [Migrator -> MigrationRecord]
          /\ migrating'[m].phase = "fetched" /\ migrating'[m].new = migrating[m].new
          /\ \A n \in Migrator \ {m} : migrating'[n] = migrating[n]
      BY <3>1 DEF MigrationInv, MigrationTypes, MigrationRecord, MigrationPhase
    <3> QED
      BY <1>3, <2>1, <3>2 DEF At
  <2> QED
    BY <2>2, <2>3
<1> QED
  BY <1>1, <1>2, <1>4, <1>5, <1>6

(***************************************************************************)
(* From the replacement on the account's key is the one that counts.       *)
(***************************************************************************)
LEMMA MigrateReplaces ==
  ASSUME MigrationInv, NEW m \in Migrator,
         \/ MigrateReplace(m) \/ MigrateSnapshot(m) \/ MigrateStoreKey(m)
         \/ MigrateConfig(m) \/ MigrateCut(m)
  PROVE  MigrationInv'
<1>1. CASE MigrateReplace(m) /\ migrating[m].ops # {}
  <2>1. /\ UNCHANGED <<keeper, blob, unsent, vault, sealed, writes, fresh>>
        /\ At(m, "fetched") /\ MoveTo(m, "replaced") /\ salted' = FALSE
        /\ opstore' = [h \in migrating[m].ops |-> migrating[m].new]
        /\ strayed' = IF blob \subseteq {Plain} THEN {} ELSE {Blob}
    BY <1>1 DEF MigrateReplace
  <2>2. /\ migrating' \in [Migrator -> MigrationRecord]
        /\ migrating'[m].phase = "replaced" /\ migrating'[m].new = migrating[m].new
        /\ \A n \in Migrator \ {m} : migrating'[n] = migrating[n]
    BY <2>1, MovesTo DEF MigrationPhase
  <2>3. migrating[m].new = keeper /\ keeper # Plain
    BY <2>1 DEF MigrationInv, OneDataKey, At
  <2>4. DOMAIN opstore' \subseteq Ops /\ \A h \in DOMAIN opstore' : opstore'[h] = keeper
    BY <2>1, <2>3 DEF MigrationInv, MigrationTypes, MigrationRecord
  <2>5. MigrationTypes'
    BY <2>1, <2>2, <2>4 DEF MigrationInv, MigrationTypes
  <2>6. OneDataKey'
    BY <2>1, <2>2, <2>3 DEF MigrationInv, OneDataKey, At
  <2>7. KeysBefore' /\ KeysAfter'
    BY <2>1, <2>3, <2>4 DEF KeysBefore, KeysAfter
  <2> QED
    BY <2>5, <2>6, <2>7 DEF MigrationInv
\* The other steps are of a machine that has replaced the ops, or give up.
<1>2. ASSUME UNCHANGED <<keeper, opstore, salted, unsent, writes, fresh>>,
             \/ blob' = blob /\ strayed' = strayed
             \/ blob' = {keeper} /\ strayed' = strayed \ {Blob} /\ ~salted,
             vault' \in [Migrator -> Nat], vault' = vault \/ ~salted,
             sealed' \in [Migrator -> BOOLEAN],
             migrating' \in [Migrator -> MigrationRecord],
             \A n \in Migrator \ {m} : migrating'[n] = migrating[n],
             \/ migrating'[m].phase = "idle"
             \/ /\ migrating[m].phase \in {"replaced", "stored"}
                /\ migrating'[m].phase \in {"stored", "configuring"}
                /\ migrating'[m].new = migrating[m].new
      PROVE  MigrationInv'
  <2>1. MigrationTypes'
    BY <1>2 DEF MigrationInv, MigrationTypes
  <2>2. OneDataKey'
    BY <1>2 DEF MigrationInv, OneDataKey, At
  <2>3. KeysBefore'
    BY <1>2 DEF MigrationInv, KeysBefore
  <2>4. KeysAfter'
    <3>1. Blob \notin DOMAIN opstore
      BY DEF MigrationInv, MigrationTypes, Ops, Blob
    <3> QED
      BY <1>2, <3>1 DEF MigrationInv, KeysAfter
  <2> QED
    BY <2>1, <2>2, <2>3, <2>4 DEF MigrationInv
<1>3. vault \in [Migrator -> Nat] /\ sealed \in [Migrator -> BOOLEAN]
  BY DEF MigrationInv, MigrationTypes
<1>4. migrating[m].phase \in {"replaced", "stored", "configuring"} =>
        ~salted /\ migrating[m].new = keeper
  BY DEF MigrationInv, KeysBefore, OneDataKey, At
<1>5. CASE MigrateSnapshot(m)
  <2>1. /\ UNCHANGED <<keeper, opstore, salted, unsent, vault, sealed, writes, fresh>>
        /\ migrating[m].phase = "replaced" /\ ~salted /\ migrating[m].new = keeper
    BY <1>4, <1>5 DEF MigrateSnapshot, At
  <2>2. \/ MoveTo(m, "stored") /\ UNCHANGED <<blob, strayed>>
        \/ MoveTo(m, "stored") /\ blob' = {migrating[m].new} /\ strayed' = strayed \ {Blob}
        \/ GiveUp(m) /\ UNCHANGED <<blob, strayed>>
    BY <1>5 DEF MigrateSnapshot
  <2>3. CASE MoveTo(m, "stored")
    <3>1. /\ migrating' \in [Migrator -> MigrationRecord]
          /\ migrating'[m].phase = "stored" /\ migrating'[m].new = migrating[m].new
          /\ \A n \in Migrator \ {m} : migrating'[n] = migrating[n]
      BY <2>3, MovesTo DEF MigrationPhase
    <3>2. \/ blob' = blob /\ strayed' = strayed
          \/ blob' = {keeper} /\ strayed' = strayed \ {Blob} /\ ~salted
      BY <2>1, <2>2
    <3> QED
      BY <1>2, <1>3, <2>1, <3>1, <3>2
  <2>4. CASE GiveUp(m) /\ UNCHANGED <<blob, strayed>>
    BY <1>2, <1>3, <2>1, <2>4, GivesUp
  <2> QED
    BY <2>2, <2>3, <2>4
<1>6. CASE MigrateStoreKey(m)
  <2>1. /\ UNCHANGED <<keeper, opstore, blob, salted, unsent, sealed, writes, fresh, strayed>>
        /\ migrating[m].phase = "stored" /\ MoveTo(m, "configuring")
        /\ vault' = [vault EXCEPT ![m] = migrating[m].new]
    BY <1>6 DEF MigrateStoreKey, At, StoresKey
  <2>2. vault' \in [Migrator -> Nat] /\ ~salted
    BY <1>4, <2>1 DEF MigrationInv, MigrationTypes, MigrationRecord
  <2>3. /\ migrating' \in [Migrator -> MigrationRecord]
        /\ migrating'[m].phase = "configuring" /\ migrating'[m].new = migrating[m].new
        /\ \A n \in Migrator \ {m} : migrating'[n] = migrating[n]
    BY <2>1, MovesTo DEF MigrationPhase
  <2> QED
    BY <1>2, <1>3, <2>1, <2>2, <2>3
<1>7. CASE MigrateConfig(m)
  <2>1. /\ UNCHANGED <<keeper, opstore, blob, salted, unsent, vault, writes, fresh, strayed>>
        /\ GiveUp(m) /\ sealed' = [sealed EXCEPT ![m] = TRUE]
    BY <1>7 DEF MigrateConfig
  <2>2. sealed' \in [Migrator -> BOOLEAN]
    BY <1>3, <2>1
  <2> QED
    BY <1>2, <1>3, <2>1, <2>2, GivesUp
<1>8. CASE MigrateCut(m)
  BY <1>2, <1>3, <1>8, GivesUp DEF MigrateCut
<1>9. CASE MigrateReplace(m) /\ migrating[m].ops = {}
  <2>1. /\ UNCHANGED <<keeper, opstore, blob, salted, unsent, vault, sealed, writes, fresh,
                       strayed>>
        /\ GiveUp(m)
    BY <1>9 DEF MigrateReplace
  <2> QED
    BY <1>2, <1>3, <2>1, GivesUp
<1> QED
  BY <1>1, <1>5, <1>6, <1>7, <1>8, <1>9

(***************************************************************************)
(* The inductive invariant of migrate: who has which key before and after  *)
(* the ops are replaced.                                                   *)
(***************************************************************************)
THEOREM MigrationInvariant == MigrationSpec => []MigrationInv
<1>1. MigrationInv /\ [MigrationNext]_migrationVars => MigrationInv'
  <2> SUFFICES ASSUME MigrationInv, [MigrationNext]_migrationVars PROVE MigrationInv'
    OBVIOUS
  <2>1. CASE UNCHANGED migrationVars
    BY <2>1 DEF migrationVars, MigrationInv, MigrationTypes, OneDataKey, At, KeysBefore, KeysAfter
  <2> QED
    BY <2>1, BesideStep, MigrateSignsUp, MigrateReplaces DEF MigrationNext
<1> QED
  BY <1>1, MigrationInitInv, PTL DEF MigrationSpec

(***************************************************************************)
(* For any number of machines, ops, runs of migrate and interruptions,     *)
(* somebody can decrypt what the server holds, and once the ops are        *)
(* replaced the bundle of the account is enough, but for what strayed.     *)
(***************************************************************************)
THEOREM KeysAreHeld == MigrationSpec => []NoKeyIsLost
<1>1. MigrationInv => NoKeyIsLost
  BY DEF MigrationInv, KeysBefore, KeysAfter, NoKeyIsLost, Held
<1> QED
  BY <1>1, MigrationInvariant, PTL

-----------------------------------------------------------------------------
\* A set of numbers that is not empty has a least member.
LEMMA Least ==
  ASSUME NEW S \in SUBSET Nat, S # {}
  PROVE  \E m \in S : \A k \in S : m <= k
<1>1. OpToRel(<, Nat) = {ss \in Nat \X Nat : ss[1] < ss[2]}
  BY DEF OpToRel
<1>2. PICK m \in S : \A k \in S : <<k, m>> \notin OpToRel(<, Nat)
  BY NatLessThanWellFounded, WFMin
<1>3. ASSUME NEW k \in S PROVE m <= k
  <2>1. k \in Nat /\ m \in Nat
    OBVIOUS
  <2>2. <<k, m>> \in Nat \X Nat /\ <<k, m>>[1] = k /\ <<k, m>>[2] = m
    BY <2>1
  <2>3. ~(k < m)
    BY <1>1, <1>2, <2>2
  <2> QED
    BY <2>1, <2>3
<1> QED
  BY <1>3

\* A bounded set of numbers that is not empty has a greatest member.
LEMMA Greatest ==
  ASSUME NEW n \in Nat, NEW S \in SUBSET (0 .. n), S # {}
  PROVE  \E m \in S : \A k \in S : k <= m
<1> DEFINE T == {j \in 0 .. n : \E k \in S : j = n - k}
<1>1. T \in SUBSET Nat
  OBVIOUS
<1>2. T # {}
  <2>1. PICK k \in S : TRUE
    OBVIOUS
  <2>2. n - k \in T
    OBVIOUS
  <2> QED
    BY <2>2
<1>3. PICK t \in T : \A u \in T : t <= u
  <2> HIDE DEF T
  <2> QED
    BY <1>1, <1>2, Least
<1>4. PICK m \in S : t = n - m
  BY <1>3
<1>5. ASSUME NEW k \in S PROVE k <= m
  <2>1. n - k \in T
    OBVIOUS
  <2>2. t <= n - k
    BY <1>3, <2>1
  <2>3. k \in 0 .. n /\ m \in 0 .. n
    OBVIOUS
  <2> HIDE DEF T
  <2> QED
    BY <1>4, <2>2, <2>3
<1> QED
  BY <1>5

-----------------------------------------------------------------------------
(* LibraryLogin: the inductive invariant, in parts. *)

Stage == {"idle", "enrolled", "challenged", "verified", "registered", "named"}
MemberRecord == [of : Machine, born : Nat]

LoginTypes ==
  /\ verifier \in BOOLEAN /\ members \in Seq(MemberRecord)
  /\ bound \in [1 .. MaxTokens -> Nat] /\ messages \in Seq(Nat)
  /\ doing \in [Machine -> Stage] /\ first \in [Machine -> {0, 1}]
  /\ kept \in [Machine -> 0 .. MaxTokens] /\ name \in [Machine -> Nat]
  /\ listed \in [Machine -> Nat] /\ got \in [Machine -> SUBSET Nat]
  /\ passed \in [Machine -> Nat] /\ slips \in Nat /\ astray \subseteq Machine

\* A session names a device, and there is none before the library is enrolled.
SessionsHaveDevices ==
  /\ ~verifier => members = <<>>
  /\ \A t \in Issued : bound[t] \in Members

\* A machine is given devices of its own, and names itself after one of them.
OwnDevices ==
  \A m \in Machine :
    /\ first[m] # 0 => first[m] \in Own(m)
    /\ doing[m] \in {"registered", "named"} => Own(m) # {}
    /\ doing[m] = "named" => name[m] # 0
    /\ name[m] # 0 => name[m] \in Own(m)
    /\ listed[m] # 0 => name[m] # 0

\* No two machines hold the same session.
OneHolder == \A m, n \in Machine : kept[m] = kept[n] /\ kept[m] # 0 => m = n

\* A session that is used is in the name of a device of its machine, unless the
\* machine is astray or has not registered yet.
Waiting(m) == doing[m] = "verified" /\ first[m] = 0
SessionIsOwn ==
  \A m \in Machine \ astray :
    kept[m] \in Issued /\ ~Waiting(m) => bound[kept[m]] \in Own(m)

\* Every op carries the identity of a machine.
MessagesAreNamed ==
  \A i \in 1 .. Len(messages) : \E m \in Machine : messages[i] = name[m] /\ name[m] # 0

CursorIsBehind == \A m \in Machine : passed[m] <= Len(messages)

LibraryLoginInv ==
  /\ LoginTypes /\ SessionsHaveDevices /\ OwnDevices /\ OneHolder /\ SessionIsOwn
  /\ MessagesAreNamed /\ CursorIsBehind /\ NothingIsHidden

\* Initially no machine has a session, a device or an op.
LEMMA LibraryLoginInitInv == LibraryLoginInit => LibraryLoginInv
<1> SUFFICES ASSUME LibraryLoginInit PROVE LibraryLoginInv
  OBVIOUS
<1>1. Issued = {} /\ Members = {} /\ Len(messages) = 0
  BY DEF LibraryLoginInit, Issued, Members
<1>2. LoginTypes
  <2>1. members \in Seq(MemberRecord) /\ messages \in Seq(Nat)
    BY DEF LibraryLoginInit
  <2>2. 0 \in 0 .. MaxTokens
    BY LibraryLoginAssumption
  <2> QED
    BY <2>1, <2>2 DEF LibraryLoginInit, LoginTypes, Stage
<1>3. SessionsHaveDevices /\ OneHolder /\ SessionIsOwn /\ MessagesAreNamed
  BY <1>1 DEF LibraryLoginInit, SessionsHaveDevices, OneHolder, SessionIsOwn, MessagesAreNamed
<1>4. OwnDevices /\ CursorIsBehind /\ NothingIsHidden
  BY <1>1 DEF LibraryLoginInit, OwnDevices, CursorIsBehind, NothingIsHidden
<1> QED
  BY <1>2, <1>3, <1>4 DEF LibraryLoginInv

\* The device that a machine was given last is one of its own.
LEMMA GivenIsOwn ==
  ASSUME LibraryLoginInv, NEW m \in Machine, Own(m) # {}
  PROVE  Given(m) \in Own(m)
<1>1. Len(members) \in Nat /\ Own(m) \in SUBSET (0 .. Len(members))
  BY DEF LibraryLoginInv, LoginTypes, Own, Members
<1>2. \E d \in Own(m) : \A e \in Own(m) : e <= d
  BY <1>1, Greatest
<1> QED
  BY <1>2 DEF Given

\* What a new row in devices changes: the machine has one more device.
LEMMA JoinsAdds ==
  ASSUME LibraryLoginInv, NEW m \in Machine, Joins(m)
  PROVE  /\ members' \in Seq(MemberRecord) /\ Members \subseteq Members'
         /\ Len(members) + 1 \in Own(m)' /\ (members = <<>> => 1 \in Own(m)')
         /\ \A n \in Machine : Own(n) \subseteq Own(n)'
<1>1. PICK second \in Nat : members' = Append(members, [of |-> m, born |-> second])
  <2>1. ASSUME members # <<>> PROVE members[Len(members)].born \in Nat
    <3>1. members \in Seq(MemberRecord) /\ Len(members) \in 1 .. Len(members)
      BY <2>1 DEF LibraryLoginInv, LoginTypes
    <3>2. members[Len(members)] \in MemberRecord
      BY <3>1
    <3> QED
      BY <3>2 DEF MemberRecord
  <2> QED
    BY <2>1 DEF Joins
<1>2. [of |-> m, born |-> second] \in MemberRecord /\ members \in Seq(MemberRecord)
  BY DEF MemberRecord, LibraryLoginInv, LoginTypes
<1>3. /\ members' \in Seq(MemberRecord) /\ Len(members') = Len(members) + 1 /\ Len(members) \in Nat
      /\ members'[Len(members) + 1].of = m
      /\ \A d \in Members : members'[d] = members[d]
  BY <1>1, <1>2 DEF Members
<1>4. Members \subseteq Members' /\ Len(members) + 1 \in Members'
  BY <1>3 DEF Members
<1>5. members = <<>> => Len(members) + 1 = 1
  OBVIOUS
<1> QED
  BY <1>3, <1>4, <1>5 DEF Own

\* Steps that touch neither the ops nor the cursors.
LEMMA HidesNothing ==
  ASSUME LibraryLoginInv, UNCHANGED <<messages, passed, got>>, astray \subseteq astray',
         \A m \in Machine : name[m] # 0 => name'[m] = name[m]
  PROVE  MessagesAreNamed' /\ CursorIsBehind' /\ NothingIsHidden'
<1>1. MessagesAreNamed'
  BY DEF LibraryLoginInv, MessagesAreNamed
<1>2. \A m \in Machine : \A i \in 1 .. passed[m] : i \in 1 .. Len(messages)
  BY DEF LibraryLoginInv, LoginTypes, CursorIsBehind
<1>3. \A m \in Machine : \A i \in 1 .. passed[m] : messages[i] # 0
  BY <1>2 DEF LibraryLoginInv, MessagesAreNamed
<1>4. NothingIsHidden'
  BY <1>3 DEF LibraryLoginInv, NothingIsHidden
<1> QED
  BY <1>1, <1>4 DEF LibraryLoginInv, CursorIsBehind

(***************************************************************************)
(* enroll, challenge and verify.                                           *)
(***************************************************************************)
LEMMA InitAsksStep ==
  ASSUME LibraryLoginInv, NEW m \in Machine,
         InitEnrolls(m) \/ InitChallenges(m) \/ InitVerifies(m)
  PROVE  LibraryLoginInv'
<1> USE DEF LibraryLoginInv
<1>1. CASE InitEnrolls(m)
  <2>1. /\ UNCHANGED <<bound, messages, kept, name, listed, got, passed, slips, astray>>
        /\ doing[m] = "idle" /\ doing' = [doing EXCEPT ![m] = "enrolled"]
    BY <1>1 DEF InitEnrolls, To
  <2>2. \/ verifier /\ first' = [first EXCEPT ![m] = 0] /\ UNCHANGED <<verifier, members>>
        \/ /\ ~verifier /\ Joins(m) /\ verifier' = TRUE
           /\ first' = [first EXCEPT ![m] = 1]
    BY <1>1 DEF InitEnrolls, LoginTypes
  <2>3. MessagesAreNamed' /\ CursorIsBehind' /\ NothingIsHidden'
    BY <2>1, HidesNothing
  <2>4. /\ members' \in Seq(MemberRecord) /\ Members \subseteq Members'
        /\ \A n \in Machine : Own(n) \subseteq Own(n)'
        /\ first'[m] # 0 => first'[m] \in Own(m)'
        /\ verifier' = TRUE
    <3>1. CASE verifier /\ UNCHANGED <<verifier, members>> /\ first' = [first EXCEPT ![m] = 0]
      BY <3>1 DEF LoginTypes, Members, Own
    <3>2. CASE ~verifier /\ Joins(m) /\ verifier' = TRUE /\ first' = [first EXCEPT ![m] = 1]
      BY <3>2, JoinsAdds DEF LoginTypes, SessionsHaveDevices
    <3> QED
      BY <2>2, <3>1, <3>2
  <2>5. LoginTypes'
    <3>1. verifier' \in BOOLEAN /\ doing' \in [Machine -> Stage]
      BY <2>1, <2>4 DEF LoginTypes, Stage
    <3>2. first' \in [Machine -> {0, 1}]
      BY <2>2 DEF LoginTypes
    <3> QED
      BY <2>1, <2>4, <3>1, <3>2 DEF LoginTypes
  <2>6. SessionsHaveDevices'
    BY <2>1, <2>4 DEF SessionsHaveDevices, Issued
  <2>7. \A n \in Machine \ {m} : first'[n] = first[n] /\ doing'[n] = doing[n]
    BY <2>1, <2>2 DEF LoginTypes
  <2>8. doing'[m] = "enrolled"
    BY <2>1 DEF LoginTypes
  <2>9. OwnDevices'
    <3> SUFFICES ASSUME NEW n \in Machine
                 PROVE  /\ first'[n] # 0 => first'[n] \in Own(n)'
                        /\ doing'[n] \in {"registered", "named"} => Own(n)' # {}
                        /\ doing'[n] = "named" => name[n] # 0
                        /\ name[n] # 0 => name[n] \in Own(n)'
                        /\ listed[n] # 0 => name[n] # 0
      BY <2>1 DEF OwnDevices
    <3>1. CASE n = m
      BY <2>4, <2>8, <3>1 DEF OwnDevices
    <3>2. CASE n # m
      BY <2>4, <2>7, <3>2 DEF OwnDevices
    <3> QED
      BY <3>1, <3>2
  <2>10. OneHolder'
    BY <2>1 DEF OneHolder
  <2>11. SessionIsOwn'
    BY <2>1, <2>4, <2>7 DEF SessionIsOwn, Issued, Waiting
  <2> QED
    BY <2>3, <2>5, <2>6, <2>9, <2>10, <2>11
<1>2. CASE InitChallenges(m)
  <2>1. /\ UNCHANGED <<verifier, members, bound, messages, first, kept, name, listed, got, passed,
                       slips, astray>>
        /\ doing[m] = "enrolled" /\ doing' = [doing EXCEPT ![m] = "challenged"]
    BY <1>2 DEF InitChallenges, To, relaySide, machineSide
  <2>2. LoginTypes' /\ SessionsHaveDevices' /\ OneHolder'
    BY <2>1 DEF LoginTypes, Stage, SessionsHaveDevices, OneHolder, Issued, Members
  <2>3. OwnDevices' /\ SessionIsOwn'
    BY <2>1 DEF LoginTypes, OwnDevices, Own, Members, SessionIsOwn, Waiting, Issued
  <2> QED
    BY <2>1, <2>2, <2>3, HidesNothing
<1>3. CASE InitVerifies(m)
  <2>1. PICK t \in (1 .. MaxTokens) \ (Issued \cup {kept[n] : n \in Machine \ {m}}),
             d \in Newest :
          /\ bound' = [bound EXCEPT ![t] = d] /\ kept' = [kept EXCEPT ![m] = t]
          /\ astray' = IF first[m] # 0 /\ d # first[m] THEN astray \cup {m} ELSE astray
    BY <1>3 DEF InitVerifies, Keeps
  <2>2. /\ UNCHANGED <<verifier, members, messages, first, name, listed, got, passed, slips>>
        /\ doing[m] = "challenged" /\ doing' = [doing EXCEPT ![m] = "verified"]
    BY <1>3 DEF InitVerifies, To
  <2>3. d \in Members /\ d \in Nat /\ d # 0
    BY DEF Newest, Members, LoginTypes
  <2>4. /\ Issued' = Issued \cup {t} /\ bound'[t] = d /\ bound' \in [1 .. MaxTokens -> Nat]
        /\ \A s \in Issued : s # t /\ bound'[s] = bound[s]
    BY <2>1, <2>3 DEF Issued, LoginTypes
  <2>5. /\ kept' \in [Machine -> 0 .. MaxTokens] /\ kept'[m] = t
        /\ \A n \in Machine \ {m} : kept'[n] = kept[n] /\ kept[n] # t
    BY <2>1, LibraryLoginAssumption DEF LoginTypes
  <2>6. doing' \in [Machine -> Stage] /\ doing'[m] = "verified"
        /\ \A n \in Machine \ {m} : doing'[n] = doing[n]
    BY <2>2 DEF LoginTypes, Stage
  <2>7. MessagesAreNamed' /\ CursorIsBehind' /\ NothingIsHidden'
    BY <2>1, <2>2, HidesNothing
  <2>8. LoginTypes'
    BY <2>1, <2>2, <2>4, <2>5, <2>6 DEF LoginTypes
  <2>9. SessionsHaveDevices'
    BY <2>2, <2>3, <2>4 DEF SessionsHaveDevices, Members
  <2>10. OwnDevices'
    BY <2>2, <2>6 DEF OwnDevices, Own, Members
  <2>11. OneHolder'
    BY <2>5 DEF OneHolder
  <2>12. SessionIsOwn'
    <3> SUFFICES ASSUME NEW n \in Machine, n \notin astray', kept'[n] \in Issued', ~Waiting(n)'
                 PROVE  bound'[kept'[n]] \in Own(n)
      BY <2>2 DEF SessionIsOwn, Own, Members
    <3>1. CASE n = m
      BY <2>1, <2>2, <2>4, <2>5, <2>6, <3>1 DEF Waiting, OwnDevices
    <3>2. CASE n # m
      BY <2>1, <2>2, <2>4, <2>5, <2>6, <3>2 DEF Waiting, SessionIsOwn
    <3> QED
      BY <3>1, <3>2
  <2> QED
    BY <2>7, <2>8, <2>9, <2>10, <2>11, <2>12
<1> QED
  BY <1>1, <1>2, <1>3

(***************************************************************************)
(* register, the local identity and config, and an init that is cut off.   *)
(***************************************************************************)
LEMMA InitJoinsStep ==
  ASSUME LibraryLoginInv, NEW m \in Machine,
         InitRegisters(m) \/ InitNames(m) \/ InitConfigures(m) \/ InitCut(m)
  PROVE  LibraryLoginInv'
<1> USE DEF LibraryLoginInv
<1>1. CASE InitRegisters(m)
  <2>1. /\ UNCHANGED <<verifier, messages, first, kept, name, listed, got, passed>>
        /\ doing[m] = "verified" /\ doing' = [doing EXCEPT ![m] = "registered"]
        /\ first[m] = 0 /\ kept[m] \in Issued /\ Joins(m)
    BY <1>1 DEF InitRegisters, To, machineSide
  <2>2. \/ bound' = [bound EXCEPT ![kept[m]] = Len(members) + 1] /\ UNCHANGED <<slips, astray>>
        \/ bound' = bound /\ slips' = slips + 1 /\ astray' = astray \cup {m}
    BY <1>1 DEF InitRegisters
  <2>3. /\ members' \in Seq(MemberRecord) /\ Members \subseteq Members'
        /\ Len(members) + 1 \in Own(m)'
        /\ \A n \in Machine : Own(n) \subseteq Own(n)'
    BY <2>1, JoinsAdds
  <2>4. doing' \in [Machine -> Stage] /\ doing'[m] = "registered"
        /\ \A n \in Machine \ {m} : doing'[n] = doing[n]
    BY <2>1 DEF LoginTypes, Stage
  <2>5. /\ Len(members) + 1 \in Nat /\ Len(members) + 1 # 0
        /\ kept[m] \in 1 .. MaxTokens /\ kept[m] # 0
    BY <2>1 DEF LoginTypes, Issued
  <2>6. /\ bound' \in [1 .. MaxTokens -> Nat] /\ Issued' = Issued
        /\ \A t \in Issued : t # kept[m] => bound'[t] = bound[t]
        /\ \/ bound'[kept[m]] = Len(members) + 1
           \/ m \in astray' /\ bound' = bound
    BY <2>1, <2>2, <2>5 DEF LoginTypes, Issued
  <2>7. slips' \in Nat /\ astray' \subseteq Machine /\ astray \subseteq astray'
    BY <2>2 DEF LoginTypes
  <2>8. MessagesAreNamed' /\ CursorIsBehind' /\ NothingIsHidden'
    BY <2>1, <2>7, HidesNothing
  <2>9. LoginTypes'
    BY <2>1, <2>3, <2>4, <2>6, <2>7 DEF LoginTypes
  <2>10. SessionsHaveDevices'
    <3>1. Own(m)' \subseteq Members'
      BY DEF Own
    <3>2. verifier
      <4>1. Members # {}
        BY <2>1 DEF SessionsHaveDevices
      <4> QED
        BY <4>1 DEF SessionsHaveDevices, Members, LoginTypes
    <3> QED
      BY <2>1, <2>3, <2>6, <3>1, <3>2 DEF SessionsHaveDevices
  <2>11. OwnDevices'
    BY <2>1, <2>3, <2>4 DEF OwnDevices
  <2>12. OneHolder'
    BY <2>1 DEF OneHolder
  <2>13. SessionIsOwn'
    <3> SUFFICES ASSUME NEW n \in Machine, n \notin astray', kept[n] \in Issued, ~Waiting(n)'
                 PROVE  bound'[kept[n]] \in Own(n)'
      BY <2>1, <2>6 DEF SessionIsOwn
    <3>1. CASE n = m
      BY <2>3, <2>6, <3>1
    <3>2. CASE n # m
      <4>1. kept[n] # kept[m]
        BY <2>5, <3>2 DEF OneHolder
      <4> QED
        BY <2>1, <2>3, <2>4, <2>6, <2>7, <3>2, <4>1 DEF Waiting, SessionIsOwn
    <3> QED
      BY <3>1, <3>2
  <2> QED
    BY <2>8, <2>9, <2>10, <2>11, <2>12, <2>13
\* The steps that leave sessions and devices as they are.
<1>2. ASSUME UNCHANGED <<verifier, members, bound, messages, kept, got, passed>>,
             LoginTypes', OwnDevices', astray \subseteq astray',
             \A n \in Machine : name[n] # 0 => name'[n] = name[n],
             \A n \in Machine : Waiting(n) => Waiting(n)' \/ n \in astray'
      PROVE  LibraryLoginInv'
  <2>1. SessionsHaveDevices' /\ OneHolder'
    BY <1>2 DEF SessionsHaveDevices, OneHolder, Issued, Members
  <2>2. SessionIsOwn'
    BY <1>2 DEF SessionIsOwn, Issued, Own, Members
  <2> QED
    BY <1>2, <2>1, <2>2, HidesNothing
<1>3. CASE InitNames(m)
  <2>1. /\ UNCHANGED <<verifier, members, bound, messages, first, kept, listed, got, passed, slips,
                       astray>>
        /\ doing[m] = IF first[m] # 0 THEN "verified" ELSE "registered"
        /\ doing' = [doing EXCEPT ![m] = "named"]
        /\ name' = [name EXCEPT ![m] = IF name[m] = 0 THEN Given(m) ELSE name[m]]
    BY <1>3 DEF InitNames, To, relaySide
  <2>2. Given(m) \in Own(m)
    <3>1. Own(m) # {}
      BY <2>1 DEF OwnDevices
    <3> QED
      BY <3>1, GivenIsOwn
  <2>3. Own(m) \subseteq Nat \ {0}
    BY DEF Own, Members, LoginTypes
  <2>4. /\ name'[m] \in Own(m) /\ name'[m] # 0 /\ name'[m] \in Nat /\ (name[m] # 0 => name'[m] = name[m])
        /\ \A n \in Machine \ {m} : name'[n] = name[n] /\ doing'[n] = doing[n]
        /\ name' \in [Machine -> Nat]
    BY <2>1, <2>2, <2>3 DEF OwnDevices, LoginTypes
  <2>5. LoginTypes'
    <3>1. doing' \in [Machine -> Stage]
      BY <2>1 DEF LoginTypes, Stage
    <3> QED
      BY <2>1, <2>4, <3>1 DEF LoginTypes
  <2>6. \A n \in Machine : Own(n)' = Own(n)
    BY <2>1 DEF Own, Members
  <2>7. OwnDevices'
    <3> SUFFICES ASSUME NEW n \in Machine
                 PROVE  /\ first[n] # 0 => first[n] \in Own(n)
                        /\ doing'[n] \in {"registered", "named"} => Own(n) # {}
                        /\ doing'[n] = "named" => name'[n] # 0
                        /\ name'[n] # 0 => name'[n] \in Own(n)
                        /\ listed[n] # 0 => name'[n] # 0
      BY <2>1, <2>6 DEF OwnDevices
    <3>1. CASE n = m
      BY <2>4, <3>1 DEF OwnDevices
    <3>2. CASE n # m
      BY <2>4, <3>2 DEF OwnDevices
    <3> QED
      BY <3>1, <3>2
  <2>8. \A n \in Machine : Waiting(n) => Waiting(n)'
    BY <2>1, <2>4 DEF Waiting
  <2>9. \A n \in Machine : name[n] # 0 => name'[n] = name[n]
    BY <2>4
  <2> QED
    BY <1>2, <2>1, <2>5, <2>7, <2>8, <2>9
<1>4. CASE InitConfigures(m)
  <2>1. /\ UNCHANGED <<verifier, members, bound, messages, kept, name, got, passed, slips, astray>>
        /\ doing[m] = "named" /\ doing' = [doing EXCEPT ![m] = "idle"]
        /\ listed' = [listed EXCEPT ![m] = Given(m)]
        /\ first' = [first EXCEPT ![m] = 0]
    BY <1>4 DEF InitConfigures, To, relaySide
  <2>2. Given(m) \in Nat
    <3>1. Own(m) # {} /\ Own(m) \subseteq Nat
      BY <2>1 DEF OwnDevices, Own, Members
    <3> QED
      BY <3>1, GivenIsOwn
  <2>3. LoginTypes'
    <3>1. doing' \in [Machine -> Stage] /\ first' \in [Machine -> {0, 1}]
      BY <2>1 DEF LoginTypes, Stage
    <3>2. listed' \in [Machine -> Nat]
      BY <2>1, <2>2 DEF LoginTypes
    <3> QED
      BY <2>1, <3>1, <3>2 DEF LoginTypes
  <2>4. name[m] # 0 /\ \A n \in Machine : Own(n)' = Own(n)
    BY <2>1 DEF OwnDevices, Own, Members
  <2>5. /\ doing'[m] = "idle" /\ first'[m] = 0
        /\ \A n \in Machine \ {m} : /\ doing'[n] = doing[n] /\ first'[n] = first[n]
                                    /\ listed'[n] = listed[n]
    BY <2>1 DEF LoginTypes
  <2>6. OwnDevices'
    <3> SUFFICES ASSUME NEW n \in Machine
                 PROVE  /\ first'[n] # 0 => first'[n] \in Own(n)
                        /\ doing'[n] \in {"registered", "named"} => Own(n) # {}
                        /\ doing'[n] = "named" => name[n] # 0
                        /\ name[n] # 0 => name[n] \in Own(n)
                        /\ listed'[n] # 0 => name[n] # 0
      BY <2>1, <2>4 DEF OwnDevices
    <3>1. CASE n = m
      BY <2>4, <2>5, <3>1 DEF OwnDevices
    <3>2. CASE n # m
      BY <2>5, <3>2 DEF OwnDevices
    <3> QED
      BY <3>1, <3>2
  <2>7. \A n \in Machine : Waiting(n) => Waiting(n)'
    BY <2>1, <2>5 DEF Waiting
  <2> QED
    BY <1>2, <2>1, <2>3, <2>6, <2>7
<1>5. CASE InitCut(m)
  <2>1. /\ UNCHANGED <<verifier, members, bound, messages, kept, name, listed, got, passed>>
        /\ doing[m] # "idle" /\ doing' = [doing EXCEPT ![m] = "idle"] /\ slips' = slips + 1
        /\ astray' = IF doing[m] = "verified" THEN astray \cup {m} ELSE astray
        /\ first' = [first EXCEPT ![m] = 0]
    BY <1>5 DEF InitCut, relaySide
  <2>2. LoginTypes'
    <3>1. doing' \in [Machine -> Stage] /\ first' \in [Machine -> {0, 1}]
      BY <2>1 DEF LoginTypes, Stage
    <3>2. slips' \in Nat /\ astray' \subseteq Machine
      BY <2>1 DEF LoginTypes
    <3> QED
      BY <2>1, <3>1, <3>2 DEF LoginTypes
  <2>3. /\ doing'[m] = "idle" /\ first'[m] = 0
        /\ \A n \in Machine \ {m} : doing'[n] = doing[n] /\ first'[n] = first[n]
    BY <2>1 DEF LoginTypes
  <2>4. \A n \in Machine : Own(n)' = Own(n)
    BY <2>1 DEF Own, Members
  <2>5. OwnDevices'
    <3> SUFFICES ASSUME NEW n \in Machine
                 PROVE  /\ first'[n] # 0 => first'[n] \in Own(n)
                        /\ doing'[n] \in {"registered", "named"} => Own(n) # {}
                        /\ doing'[n] = "named" => name[n] # 0
                        /\ name[n] # 0 => name[n] \in Own(n)
                        /\ listed[n] # 0 => name[n] # 0
      BY <2>1, <2>4 DEF OwnDevices
    <3>1. CASE n = m
      BY <2>3, <3>1 DEF OwnDevices
    <3>2. CASE n # m
      BY <2>3, <3>2 DEF OwnDevices
    <3> QED
      BY <3>1, <3>2
  <2>6. \A n \in Machine : Waiting(n) => Waiting(n)' \/ n \in astray'
    BY <2>1, <2>3 DEF Waiting
  <2>7. astray \subseteq astray'
    BY <2>1
  <2> QED
    BY <1>2, <2>1, <2>2, <2>5, <2>6, <2>7
<1> QED
  BY <1>1, <1>3, <1>4, <1>5

(***************************************************************************)
(* push and pull with the session of the token store.                      *)
(***************************************************************************)
LEMMA MessageStep ==
  ASSUME LibraryLoginInv, NEW m \in Machine, MachinePushes(m) \/ MachinePulls(m)
  PROVE  LibraryLoginInv'
<1> USE DEF LibraryLoginInv
<1>1. CASE MachinePushes(m)
  <2>1. /\ UNCHANGED <<verifier, members, bound, doing, first, kept, name, listed, got, passed,
                       slips, astray>>
        /\ messages' = Append(messages, name[m]) /\ listed[m] # 0
    BY <1>1 DEF MachinePushes, Connected, machineSide
  <2>2. name[m] \in Nat /\ name[m] # 0 /\ messages \in Seq(Nat)
    BY <2>1 DEF LoginTypes, OwnDevices
  <2>3. /\ messages' \in Seq(Nat) /\ Len(messages') = Len(messages) + 1 /\ Len(messages) \in Nat
        /\ \A i \in 1 .. Len(messages) : messages'[i] = messages[i]
        /\ messages'[Len(messages) + 1] = name[m]
    BY <2>1, <2>2
  <2>4. LoginTypes' /\ SessionsHaveDevices' /\ OwnDevices' /\ OneHolder' /\ SessionIsOwn'
    <3>1. LoginTypes'
      BY <2>1, <2>3 DEF LoginTypes
    <3> QED
      BY <2>1, <3>1 DEF SessionsHaveDevices, OwnDevices, OneHolder, SessionIsOwn, Issued, Members,
         Own, Waiting
  <2>5. MessagesAreNamed'
    <3> SUFFICES ASSUME NEW i \in 1 .. Len(messages')
                 PROVE  \E n \in Machine : messages'[i] = name[n] /\ name[n] # 0
      BY <2>1 DEF MessagesAreNamed
    <3>1. i \in 1 .. Len(messages) \/ i = Len(messages) + 1
      BY <2>3
    <3> QED
      BY <2>2, <2>3, <3>1 DEF MessagesAreNamed
  <2>6. CursorIsBehind'
    BY <2>1, <2>3 DEF CursorIsBehind, LoginTypes
  <2>7. NothingIsHidden'
    <3>1. \A n \in Machine : \A i \in 1 .. passed[n] : i \in 1 .. Len(messages)
      BY <2>3 DEF CursorIsBehind, LoginTypes
    <3> QED
      BY <2>1, <2>3, <3>1 DEF NothingIsHidden
  <2> QED
    BY <2>4, <2>5, <2>6, <2>7
<1>2. CASE MachinePulls(m)
  <2> DEFINE page == {i \in passed[m] + 1 .. Len(messages) : messages[i] # bound[kept[m]]}
  <2>1. /\ UNCHANGED <<verifier, members, bound, messages, doing, first, kept, name, listed, slips,
                       astray>>
        /\ page # {} /\ got' = [got EXCEPT ![m] = got[m] \cup page]
        /\ passed' = [passed EXCEPT ![m] = CHOOSE i \in page : \A j \in page : j <= i]
        /\ doing[m] = "idle" /\ listed[m] # 0 /\ kept[m] \in Issued
    BY <1>2 DEF MachinePulls, Connected, relaySide
  <2>2. Len(messages) \in Nat /\ passed[m] \in Nat /\ page \subseteq 0 .. Len(messages)
    BY DEF LoginTypes
  <2>3. PICK last \in page : passed' = [passed EXCEPT ![m] = last]
    <3> HIDE DEF page
    <3>1. \E i \in page : \A j \in page : j <= i
      BY <2>1, <2>2, Greatest
    <3> QED
      BY <2>1, <3>1
  <2>4. last \in Nat /\ last <= Len(messages) /\ page \subseteq Nat
    BY <2>2
  <2>5. /\ passed'[m] = last /\ got'[m] = got[m] \cup page
        /\ \A n \in Machine \ {m} : passed'[n] = passed[n] /\ got'[n] = got[n]
        /\ passed' \in [Machine -> Nat] /\ got' \in [Machine -> SUBSET Nat]
    <3> HIDE DEF page
    <3> QED
      BY <2>1, <2>3, <2>4 DEF LoginTypes
  <2>6. LoginTypes' /\ SessionsHaveDevices' /\ OwnDevices' /\ OneHolder' /\ SessionIsOwn'
        /\ MessagesAreNamed'
    <3>1. LoginTypes'
      BY <2>1, <2>5 DEF LoginTypes
    <3> QED
      BY <2>1, <3>1 DEF SessionsHaveDevices, OwnDevices, OneHolder, SessionIsOwn, Issued, Members,
         Own, Waiting, MessagesAreNamed
  <2>7. CursorIsBehind'
    BY <2>1, <2>4, <2>5 DEF CursorIsBehind
\* What the page leaves out is by the device of the session, hence the machine's.
  <2>8. ASSUME m \notin astray, NEW i \in passed[m] + 1 .. last, i \notin page
        PROVE  messages[i] = name[m]
    <3>1. i \in 1 .. Len(messages) /\ messages[i] = bound[kept[m]]
      BY <2>2, <2>4, <2>8
    <3>2. bound[kept[m]] \in Own(m)
      BY <2>1, <2>8 DEF SessionIsOwn, Waiting
    <3>3. PICK n \in Machine : messages[i] = name[n] /\ name[n] # 0
      BY <3>1 DEF MessagesAreNamed
    <3>4. name[n] \in Own(n) /\ name[n] \in Own(m)
      BY <3>1, <3>2, <3>3 DEF OwnDevices
    <3>5. n = m
      BY <3>4 DEF Own
    <3> QED
      BY <3>3, <3>5
  <2>9. NothingIsHidden'
    <3> SUFFICES ASSUME NEW n \in Machine, n \notin astray, NEW i \in 1 .. passed'[n]
                 PROVE  i \in got'[n] \/ messages[i] = name[n]
      BY <2>1 DEF NothingIsHidden
    <3>1. CASE n # m
      BY <2>5, <3>1 DEF NothingIsHidden
    <3>2. CASE n = m /\ i \in 1 .. passed[m]
      BY <2>5, <3>2 DEF NothingIsHidden
    <3>3. CASE n = m /\ i \notin 1 .. passed[m]
      <4>1. i \in passed[m] + 1 .. last
        BY <2>2, <2>4, <2>5, <3>3
      <4> QED
        BY <2>5, <2>8, <3>3, <4>1
    <3> QED
      BY <3>1, <3>2, <3>3
  <2> QED
    BY <2>6, <2>7, <2>9
<1> QED
  BY <1>1, <1>2

\* A session that has run out names no device.
LEMMA RunsOutStep ==
  ASSUME LibraryLoginInv, NEW t \in 1 .. MaxTokens, SessionRunsOut(t)
  PROVE  LibraryLoginInv'
<1> USE DEF LibraryLoginInv
<1>1. /\ UNCHANGED <<verifier, members, messages, doing, first, kept, name, listed, got, passed,
                     slips, astray>>
      /\ bound' = [bound EXCEPT ![t] = 0]
  BY DEF SessionRunsOut, machineSide
<1>2. /\ bound' \in [1 .. MaxTokens -> Nat] /\ Issued' = Issued \ {t}
      /\ \A s \in Issued' : bound'[s] = bound[s]
  BY <1>1 DEF LoginTypes, Issued
<1>3. LoginTypes' /\ SessionsHaveDevices' /\ OneHolder'
  BY <1>1, <1>2 DEF LoginTypes, SessionsHaveDevices, OneHolder, Members
<1>4. OwnDevices'
  BY <1>1 DEF OwnDevices, Own, Members
<1>5. SessionIsOwn'
  BY <1>1, <1>2 DEF SessionIsOwn, Own, Members, Waiting
<1> QED
  BY <1>1, <1>3, <1>4, <1>5, HidesNothing

(***************************************************************************)
(* The inductive invariant of init, push and pull with a passphrase: whose *)
(* device each session, identity and op names.                             *)
(***************************************************************************)
THEOREM LibraryLoginInvariant == LibraryLoginSpec => []LibraryLoginInv
<1>1. LibraryLoginInv /\ [LibraryLoginNext]_libraryLoginVars => LibraryLoginInv'
  <2> SUFFICES ASSUME LibraryLoginInv, [LibraryLoginNext]_libraryLoginVars
               PROVE  LibraryLoginInv'
    OBVIOUS
  <2>1. CASE UNCHANGED libraryLoginVars
    BY <2>1 DEF libraryLoginVars, LibraryLoginInv, LoginTypes, SessionsHaveDevices, OwnDevices,
       OneHolder, SessionIsOwn, MessagesAreNamed, CursorIsBehind, NothingIsHidden, Issued,
       Members, Own, Waiting
  <2> QED
    BY <2>1, InitAsksStep, InitJoinsStep, MessageStep, RunsOutStep DEF LibraryLoginNext
<1> QED
  BY <1>1, LibraryLoginInitInv, PTL DEF LibraryLoginSpec

(***************************************************************************)
(* For any number of machines, sessions and ops: an op that a cursor has   *)
(* passed was pulled or is the machine's own, but on the machines astray.  *)
(***************************************************************************)
THEOREM NothingStaysHidden == LibraryLoginSpec => []NothingIsHidden
<1>1. LibraryLoginInv => NothingIsHidden
  BY DEF LibraryLoginInv
<1> QED
  BY <1>1, LibraryLoginInvariant, PTL

=============================================================================
