------------------------------ MODULE LocalProofs -------------------------------
(***************************************************************************)
(* Theorems about what a library does on its own device: Reading,          *)
(* WebLogin, Shelves, Catalogue and ImportWizard, for every set of shells, *)
(* visitors, books, commands and browsers, and for every bound.            *)
(***************************************************************************)
EXTENDS Reading, WebLogin, Shelves, Catalogue, ImportWizard, KeyVault,
        FiniteSetTheorems, TLAPS

-----------------------------------------------------------------------------
(* The dashboard's login: the inductive invariant, in parts. *)

WebTypes ==
  /\ owner \in [of : SUBSET Visitor, failed : Nat, locked : BOOLEAN]
  /\ visit \in [Visitor -> [next : {"none", "count", "reset", "session"}, failed : Nat]]
  /\ streak \in Nat /\ crossed \in BOOLEAN

\* Before the setup there is nothing to log in to.
NobodyBeforeSetup == ~AdminExists => owner = NoOwner /\ AtWork = {}

\* Logins that are served one after the other: who is at work is alone, and has
\* read the counter as it is.
ServedAlone ==
  ~crossed => \A v \in AtWork :
    /\ AtWork \subseteq {v}
    /\ visit[v].next = "count" => visit[v].failed = owner.failed

WebInv == WebTypes /\ NobodyBeforeSetup /\ ServedAlone /\ WebLockoutIsExact

-----------------------------------------------------------------------------

\* Initially nobody is at work and nothing was counted.
LEMMA WebInitInv == WebLoginInit => WebInv
<1> SUFFICES ASSUME WebLoginInit PROVE WebInv
  OBVIOUS
<1>2. AtWork = {}
  BY DEF WebLoginInit, AtWork
<1>1. WebTypes /\ NobodyBeforeSetup
  BY <1>2 DEF WebLoginInit, WebTypes, NobodyBeforeSetup, NoOwner, Away
<1>3. WebLockoutIsExact
  BY <1>2, WebLoginAssumption DEF WebLoginInit, WebLockoutIsExact, NoOwner
<1> QED
  BY <1>1, <1>2, <1>3 DEF WebInv, ServedAlone

\* A login that reads the counter.
LEMMA WebReadStep ==
  ASSUME WebInv, NEW v \in Visitor, NEW right \in BOOLEAN, LoginReads(v, right)
  PROVE  WebInv'
<1>1. AtWork' = AtWork \cup {v}
  BY DEF WebInv, WebTypes, LoginReads, AtWork, Away
<1>2. WebTypes' /\ NobodyBeforeSetup'
  BY DEF WebInv, WebTypes, NobodyBeforeSetup, AdminExists, LoginReads
<1>3. ~crossed' => ~crossed /\ AtWork = {} /\ AtWork' = {v}
  BY <1>1 DEF LoginReads
<1>4. ServedAlone'
  BY <1>3 DEF WebInv, WebTypes, ServedAlone, LoginReads
<1>5. WebLockoutIsExact'
  BY <1>3 DEF WebInv, WebLockoutIsExact, LoginReads
<1> QED
  BY <1>2, <1>4, <1>5 DEF WebInv

\* A wrong password: the counter that was read, plus one, is written.
LEMMA WebFailureStep ==
  ASSUME WebInv, NEW v \in Visitor, RecordFailure(v)
  PROVE  WebInv'
<1>1. v \in AtWork /\ AtWork' = AtWork \ {v}
  BY DEF WebInv, WebTypes, RecordFailure, AtWork, Away
<1>2. visit' \in [Visitor -> [next : {"none", "count", "reset", "session"}, failed : Nat]]
  BY DEF WebInv, WebTypes, RecordFailure, Away
<1>3. CASE visit[v].failed + 1 >= MaxFailed
  <2>1. /\ owner' = [owner EXCEPT !.failed = 0, !.locked = TRUE]
        /\ streak' = 0 /\ crossed' = (AtWork \ {v} # {})
    BY <1>3 DEF RecordFailure, Counted
  <2>2. ~crossed' => AtWork' = {}
    BY <1>1, <2>1
  <2>3. WebTypes' /\ NobodyBeforeSetup'
    BY <1>1, <1>2, <2>1 DEF WebInv, WebTypes, NobodyBeforeSetup, AdminExists
  <2> QED
    BY <2>1, <2>2, <2>3, WebLoginAssumption
    DEF WebInv, WebTypes, ServedAlone, WebLockoutIsExact
<1>4. CASE ~(visit[v].failed + 1 >= MaxFailed)
  <2>1. /\ owner' = [owner EXCEPT !.failed = visit[v].failed + 1]
        /\ streak' = streak + 1 /\ crossed' = crossed /\ visit[v].next = "count"
    BY <1>4 DEF RecordFailure
  <2>2. ~crossed => AtWork' = {} /\ visit[v].failed = owner.failed /\ ~owner.locked
    BY <1>1, <2>1 DEF WebInv, ServedAlone, WebLockoutIsExact
  <2>3. WebTypes' /\ NobodyBeforeSetup'
    BY <1>1, <1>2, <2>1 DEF WebInv, WebTypes, NobodyBeforeSetup, AdminExists
  <2> QED
    BY <1>4, <2>1, <2>2, <2>3, WebLoginAssumption
    DEF WebInv, WebTypes, ServedAlone, WebLockoutIsExact
<1> QED
  BY <1>3, <1>4

\* A right password: the counter is cleared.
LEMMA WebResetStep ==
  ASSUME WebInv, NEW v \in Visitor, LoginResets(v)
  PROVE  WebInv'
<1>1. v \in AtWork /\ AtWork' = AtWork
  BY DEF WebInv, WebTypes, LoginResets, AtWork, Away
<1>2. ~crossed' => AtWork' = {v} /\ visit'[v].next = "session"
  <2>1. visit'[v].next = "session"
    BY DEF WebInv, WebTypes, LoginResets
  <2>2. crossed' = (AtWork \ {v} # {})
    BY DEF LoginResets, Counted
  <2> QED
    BY <1>1, <2>1, <2>2
<1>3. WebTypes' /\ NobodyBeforeSetup'
  BY <1>1 DEF WebInv, WebTypes, NobodyBeforeSetup, AdminExists, LoginResets, Counted
<1>4. ServedAlone'
  BY <1>2 DEF ServedAlone
<1>5. WebLockoutIsExact'
  BY WebLoginAssumption DEF WebInv, WebTypes, WebLockoutIsExact, LoginResets
<1> QED
  BY <1>3, <1>4, <1>5 DEF WebInv

\* The steps after which nobody new is at work and the counter is as it was.
LEMMA WebQuietStep ==
  ASSUME WebInv, WebTypes', NobodyBeforeSetup', AtWork' \subseteq AtWork,
         \A v \in AtWork' : visit'[v].next = "count" => visit'[v] = visit[v],
         owner'.failed = owner.failed, owner'.locked => owner.locked,
         UNCHANGED <<streak, crossed>>
  PROVE  WebInv'
BY DEF WebInv, WebTypes, ServedAlone, WebLockoutIsExact

\* Every step of the dashboard keeps the invariant.
LEMMA WebNextInv ==
  ASSUME WebInv, [WebLoginNext]_webLoginVars
  PROVE  WebInv'
<1>1. ASSUME NEW v \in Visitor, Setup(v) PROVE WebInv'
  BY <1>1, WebQuietStep
  DEF Setup, WebInv, WebTypes, NobodyBeforeSetup, AdminExists, NoOwner, AtWork
<1>2. ASSUME NEW v \in Visitor, LoginOpensSession(v) PROVE WebInv'
  BY <1>2, WebQuietStep
  DEF LoginOpensSession, WebInv, WebTypes, NobodyBeforeSetup, AdminExists, NoOwner, AtWork, Away
<1>3. CASE LockPasses
  <2>1. AtWork' = AtWork /\ owner' = [owner EXCEPT !.locked = FALSE] /\ owner.locked
        /\ UNCHANGED <<visit, streak, crossed>>
    BY <1>3 DEF LockPasses, AtWork
  <2>2. WebTypes'
    BY <2>1 DEF WebInv, WebTypes
  <2>3. NobodyBeforeSetup'
    BY <2>1 DEF WebInv, WebTypes, NobodyBeforeSetup, AdminExists, NoOwner
  <2> QED
    BY <2>1, <2>2, <2>3, WebQuietStep DEF WebInv, WebTypes
<1>4. CASE DashboardStops
  BY <1>4, WebQuietStep
  DEF DashboardStops, WebInv, WebTypes, NobodyBeforeSetup, AdminExists, NoOwner, AtWork, Away
<1>5. CASE UNCHANGED webLoginVars
  BY <1>5, WebQuietStep
  DEF webLoginVars, WebInv, WebTypes, NobodyBeforeSetup, AdminExists, NoOwner, AtWork
<1> QED
  BY <1>1, <1>2, <1>3, <1>4, <1>5, WebReadStep, WebFailureStep, WebResetStep DEF WebLoginNext

(***************************************************************************)
(* The inductive invariant of the dashboard's login: logins that are       *)
(* served one after the other leave the counter that they have read.       *)
(***************************************************************************)
THEOREM WebLoginInvariant == WebLoginSpec => []WebInv
<1>1. WebLoginInit => WebInv
  BY WebInitInv
<1>2. WebInv /\ [WebLoginNext]_webLoginVars => WebInv'
  BY WebNextInv
<1> QED
  BY <1>1, <1>2, PTL DEF WebLoginSpec

(***************************************************************************)
(* For any number of visitors and any limit: the dashboard locks after as  *)
(* many wrong logins in a row as MAX_FAILED_ATTEMPTS says and no fewer, as *)
(* long as no two are served at once.                                      *)
(***************************************************************************)
THEOREM WebLockoutHolds == WebLoginSpec => []WebLockoutIsExact
<1>1. WebInv => WebLockoutIsExact
  BY DEF WebInv
<1> QED
  BY <1>1, WebLoginInvariant, PTL

-----------------------------------------------------------------------------
(* Reading: the inductive invariant, in parts. *)

ReadingTypes ==
  /\ session \in Seq([at : Nat, finished : BOOLEAN, reading : Nat])
  /\ entries \subseteq [reading : Nat, session : Nat]
  /\ job \in [Shell -> [next : {"none", "status", "rating", "session", "find", "log"},
                        to : Status \cup {"reading"}, then : {"none", "session"},
                        reading : Nat, session : Nat]]
  /\ clock \in Nat /\ reading \in Nat /\ unclear \subseteq Nat

\* The session i is that of the reading r, if anything can be said of r.
IsOf(i, r) == r \notin unclear \cup {0} => i \in DOMAIN session /\ session[i].reading = r

\* The book's reading has a session, dated after all others, or will have one.
ReadingHasSession ==
  reading \notin unclear \cup {0} =>
    \/ \E s \in Shell : job[s].next = "session" /\ job[s].reading = reading
    \/ \E i \in Unfinished : /\ session[i].reading = reading
                             /\ \A j \in Unfinished \ {i} : session[j].at < session[i].at

\* What an update has found is the session of the reading it has checked.
FoundIsOf == \A s \in Shell : job[s].next = "log" => IsOf(job[s].session, job[s].reading)
EntriesAreOf == \A e \in entries : IsOf(e.session, e.reading)

ReadingInv == ReadingTypes /\ ReadingHasSession /\ FoundIsOf /\ EntriesAreOf

-----------------------------------------------------------------------------

\* Initially the book has not been begun.
LEMMA ReadingInitInv == ReadingInit => ReadingInv
<1> SUFFICES ASSUME ReadingInit PROVE ReadingInv
  OBVIOUS
<1>1. /\ session = << >> /\ entries = {} /\ reading = 0 /\ unclear = {} /\ clock = 1
      /\ job = [s \in Shell |-> Free]
  BY DEF ReadingInit
<1>2. << >> \in Seq([at : Nat, finished : BOOLEAN, reading : Nat])
  OBVIOUS
<1>3. ReadingTypes
  BY <1>1, <1>2 DEF ReadingTypes, Free
<1> QED
  BY <1>1, <1>3 DEF ReadingInv, ReadingHasSession, FoundIsOf, EntriesAreOf, Free

\* What the readings have can only become unclear.
LEMMA StillOf ==
  ASSUME NEW i, NEW r, IsOf(i, r), unclear \subseteq unclear',
         \/ session' = session
         \/ \E row : session \in Seq([at : Nat, finished : BOOLEAN, reading : Nat]) /\ session' = Append(session, row)
  PROVE  IsOf(i, r)'
<1>1. CASE session' = session
  BY <1>1 DEF IsOf
<1>2. ASSUME NEW row, session \in Seq([at : Nat, finished : BOOLEAN, reading : Nat]), session' = Append(session, row)
      PROVE  IsOf(i, r)'
  <2>1. \A j \in DOMAIN session : j \in DOMAIN session' /\ session'[j] = session[j]
    BY <1>2
  <2> QED
    BY <2>1 DEF IsOf
<1> QED
  BY <1>1, <1>2

\* The steps that write no session and begin no reading.
LEMMA SameSessions ==
  ASSUME ReadingInv, ReadingTypes', session' = session, reading' = reading, unclear \subseteq unclear',
         reading \notin unclear' => \A s \in Shell :
           job[s].next = "session" /\ job[s].reading = reading =>
             job'[s].next = "session" /\ job'[s].reading = reading,
         \A s \in Shell : job'[s].next = "log" =>
           IsOf(job[s].session, job[s].reading)' \/ (job'[s] = job[s] /\ job[s].next = "log"),
         \A e \in entries' : e \in entries \/ IsOf(e.session, e.reading)'
  PROVE  ReadingInv'
<1>1. FoundIsOf'
  <2> SUFFICES ASSUME NEW s \in Shell, job'[s].next = "log"
               PROVE  IsOf(job[s].session, job[s].reading)'
    BY DEF FoundIsOf
  <2>1. CASE job'[s] = job[s] /\ job[s].next = "log"
    <3>1. IsOf(job[s].session, job[s].reading)
      BY <2>1 DEF ReadingInv, FoundIsOf
    <3> QED
      BY <2>1, <3>1 DEF IsOf
  <2> QED
    BY <2>1
<1>2. EntriesAreOf'
  <2> SUFFICES ASSUME NEW e \in entries' PROVE IsOf(e.session, e.reading)'
    BY DEF EntriesAreOf
  <2>1. CASE e \in entries
    <3>1. IsOf(e.session, e.reading)
      BY <2>1 DEF ReadingInv, EntriesAreOf
    <3> QED
      BY <3>1 DEF IsOf
  <2> QED
    BY <2>1
<1>3. ReadingHasSession'
  <2>1. Unfinished' = Unfinished
    BY DEF Unfinished
  <2> QED
    BY <2>1 DEF ReadingInv, ReadingHasSession
<1> QED
  BY <1>1, <1>2, <1>3 DEF ReadingInv

\* A status is set: a reading that begins will have a session, or is unclear.
LEMMA StatusStep ==
  ASSUME ReadingInv, ReadingTypes', session' = session, entries' = entries, unclear \subseteq unclear',
         reading' \in {reading, reading + 1},
         reading' # reading => \/ reading' \in unclear'
                               \/ \E s \in Shell : job'[s].next = "session" /\ job'[s].reading = reading',
         \A s \in Shell : job'[s] = job[s] \/ (job[s].next = "status" /\ job'[s].next \in {"session", "none"})
  PROVE  ReadingInv'
<1>1. Unfinished' = Unfinished
  BY DEF Unfinished
<1>2. FoundIsOf'
  <2> SUFFICES ASSUME NEW s \in Shell, job'[s].next = "log"
               PROVE  IsOf(job[s].session, job[s].reading)'
    BY DEF FoundIsOf
  <2>1. job'[s] = job[s]
    OBVIOUS
  <2>2. IsOf(job[s].session, job[s].reading)
    BY <2>1 DEF ReadingInv, FoundIsOf
  <2> QED
    BY <2>1, <2>2 DEF IsOf
<1>3. EntriesAreOf'
  BY DEF ReadingInv, EntriesAreOf, IsOf
<1>4. ReadingHasSession'
  <2>1. CASE reading' = reading
    <3> SUFFICES ASSUME reading \notin unclear' \cup {0}
                 PROVE  \/ \E s \in Shell : job'[s].next = "session" /\ job'[s].reading = reading
                        \/ \E i \in Unfinished : /\ session[i].reading = reading
                                                 /\ \A j \in Unfinished \ {i} : session[j].at < session[i].at
      BY <1>1, <2>1 DEF ReadingHasSession
    <3>1. CASE \E s \in Shell : job[s].next = "session" /\ job[s].reading = reading
      <4>1. PICK s \in Shell : job[s].next = "session" /\ job[s].reading = reading
        BY <3>1
      <4>2. job'[s] = job[s]
        BY <4>1
      <4> QED
        BY <4>1, <4>2
    <3> QED
      BY <3>1 DEF ReadingInv, ReadingHasSession
  <2>2. CASE reading' # reading
    BY <2>2 DEF ReadingHasSession
  <2> QED
    BY <2>1, <2>2
<1> QED
  BY <1>2, <1>3, <1>4 DEF ReadingInv

\* A command writes the session of a reading.
LEMMA CommandAddsSessionStep ==
  ASSUME ReadingInv, NEW s \in Shell, CommandAddsSession(s)
  PROVE  ReadingInv'
<1> DEFINE row == [at |-> clock, finished |-> FALSE, reading |-> job[s].reading]
<1>1. /\ job[s].next = "session" /\ session' = Append(session, row) /\ clock' = clock + 1
      /\ unclear' = IF job[s].reading = reading /\ \A i \in DOMAIN session : session[i].at < clock
                    THEN unclear ELSE unclear \cup {reading}
      /\ job' = [job EXCEPT ![s] = Free]
      /\ UNCHANGED <<entries, reading>>
  BY DEF CommandAddsSession, AddSession
<1>2. /\ session \in Seq([at : Nat, finished : BOOLEAN, reading : Nat])
      /\ job[s].reading \in Nat /\ clock \in Nat /\ reading \in Nat /\ unclear \subseteq Nat
  BY DEF ReadingInv, ReadingTypes
<1>3. row \in [at : Nat, finished : BOOLEAN, reading : Nat] /\ ~row.finished /\ row.reading = job[s].reading /\ row.at = clock
  BY <1>2
<1> HIDE DEF row
<1>4. Free \in [next : {"none", "status", "rating", "session", "find", "log"},
                to : Status \cup {"reading"}, then : {"none", "session"},
                reading : Nat, session : Nat] /\ Free.next = "none"
  BY DEF Free
<1>5. unclear \subseteq unclear' /\ unclear' \subseteq Nat
  BY <1>1, <1>2
<1>6. /\ session' \in Seq([at : Nat, finished : BOOLEAN, reading : Nat])
      /\ DOMAIN session = 1 .. Len(session) /\ Len(session) \in Nat
      /\ DOMAIN session' = 1 .. Len(session) + 1 /\ session'[Len(session) + 1] = row
      /\ \A i \in DOMAIN session : session'[i] = session[i]
  BY <1>1, <1>2, <1>3
<1>7. ReadingTypes'
  <2>1. job' \in [Shell -> [next : {"none", "status", "rating", "session", "find", "log"},
                        to : Status \cup {"reading"}, then : {"none", "session"},
                        reading : Nat, session : Nat]]
    BY <1>1, <1>4 DEF ReadingInv, ReadingTypes
  <2> QED
    BY <1>1, <1>2, <1>5, <1>6, <2>1 DEF ReadingInv, ReadingTypes
<1>8. job'[s].next = "none" /\ \A o \in Shell \ {s} : job'[o] = job[o]
  BY <1>1, <1>4 DEF ReadingInv, ReadingTypes
<1>9. FoundIsOf'
  BY <1>1, <1>2, <1>5, <1>8, StillOf DEF ReadingInv, FoundIsOf
<1>10. EntriesAreOf'
  BY <1>1, <1>2, <1>5, StillOf DEF ReadingInv, EntriesAreOf
<1>11. ReadingHasSession'
  <2> SUFFICES ASSUME reading \notin unclear'
               PROVE  \E i \in Unfinished' : /\ session'[i].reading = reading
                                             /\ \A j \in Unfinished' \ {i} : session'[j].at < session'[i].at
    BY <1>1 DEF ReadingHasSession
  <2>1. job[s].reading = reading /\ \A i \in DOMAIN session : session[i].at < clock
    BY <1>1
  <2>2. Len(session) + 1 \in Unfinished'
    BY <1>3, <1>6 DEF Unfinished
  <2>3. \A j \in Unfinished' \ {Len(session) + 1} : j \in DOMAIN session
    BY <1>6 DEF Unfinished
  <2> QED
    BY <1>3, <1>6, <2>1, <2>2, <2>3
<1> QED
  BY <1>7, <1>9, <1>10, <1>11 DEF ReadingInv

\* A peer's session makes the reading unclear, unless it has an end.
LEMMA PeerAddsSessionStep ==
  ASSUME ReadingInv, NEW t \in 1 .. MaxTime, NEW finished \in BOOLEAN, PeerAddsSession(t, finished)
  PROVE  ReadingInv'
<1> DEFINE row == [at |-> t, finished |-> finished, reading |-> 0]
<1>1. /\ session' = Append(session, row)
      /\ unclear' = IF finished THEN unclear ELSE unclear \cup {reading}
      /\ UNCHANGED <<entries, clock, job, reading>>
  BY DEF PeerAddsSession
<1>2. /\ session \in Seq([at : Nat, finished : BOOLEAN, reading : Nat])
      /\ reading \in Nat /\ unclear \subseteq Nat
  BY DEF ReadingInv, ReadingTypes
<1>3. row \in [at : Nat, finished : BOOLEAN, reading : Nat] /\ row.finished = finished
  BY ReadingAssumption
<1> HIDE DEF row
<1>4. unclear \subseteq unclear' /\ unclear' \subseteq Nat
  BY <1>1, <1>2
<1>5. /\ session' \in Seq([at : Nat, finished : BOOLEAN, reading : Nat])
      /\ DOMAIN session = 1 .. Len(session) /\ Len(session) \in Nat
      /\ DOMAIN session' = 1 .. Len(session) + 1 /\ session'[Len(session) + 1] = row
      /\ \A i \in DOMAIN session : session'[i] = session[i]
  BY <1>1, <1>2, <1>3
<1>6. ReadingTypes'
  BY <1>1, <1>2, <1>4, <1>5 DEF ReadingInv, ReadingTypes
<1>7. FoundIsOf'
  BY <1>1, <1>2, <1>4, StillOf DEF ReadingInv, FoundIsOf
<1>8. EntriesAreOf'
  BY <1>1, <1>2, <1>4, StillOf DEF ReadingInv, EntriesAreOf
<1>9. ReadingHasSession'
  <2> SUFFICES ASSUME finished, reading \notin unclear \cup {0}
               PROVE  \/ \E s \in Shell : job[s].next = "session" /\ job[s].reading = reading
                      \/ \E i \in Unfinished' : /\ session'[i].reading = reading
                                                /\ \A j \in Unfinished' \ {i} : session'[j].at < session'[i].at
    BY <1>1 DEF ReadingHasSession
  <2>1. Unfinished' = Unfinished
    <3>1. \A i \in DOMAIN session' : i \in DOMAIN session \/ i = Len(session) + 1
      BY <1>5
    <3>2. \A i \in DOMAIN session : i \in DOMAIN session'
      BY <1>5
    <3> QED
      BY <1>3, <1>5, <3>1, <3>2 DEF Unfinished
  <2>2. \A i \in Unfinished : session'[i] = session[i]
    BY <1>5 DEF Unfinished
  <2> QED
    BY <2>1, <2>2 DEF ReadingInv, ReadingHasSession
<1> QED
  BY <1>6, <1>7, <1>8, <1>9 DEF ReadingInv

\* An update finds the session of the reading it has checked, or that one is unclear.
LEMMA UpdateFindsStep ==
  ASSUME ReadingInv, NEW s \in Shell, UpdateFinds(s)
  PROVE  ReadingInv'
<1>1. PICK i \in 0 .. Len(session) :
        Active(i) /\ job' = [job EXCEPT ![s].next = "log", ![s].session = i]
  BY DEF UpdateFinds
<1>2. /\ job[s].next = "find" /\ UNCHANGED <<session, entries, clock, reading>>
      /\ unclear' = IF job[s].reading # reading \/ \E o \in Shell : job[o].next = "session"
                    THEN unclear \cup {job[s].reading} ELSE unclear
  BY DEF UpdateFinds
<1>3. /\ job \in [Shell -> [next : {"none", "status", "rating", "session", "find", "log"},
                            to : Status \cup {"reading"}, then : {"none", "session"},
                            reading : Nat, session : Nat]]
      /\ session \in Seq([at : Nat, finished : BOOLEAN, reading : Nat]) /\ reading \in Nat
      /\ Len(session) \in Nat /\ i \in Nat
  BY DEF ReadingInv, ReadingTypes
<1>4. /\ job'[s].next = "log" /\ job'[s].session = i /\ job'[s].reading = job[s].reading
      /\ job'[s].to = job[s].to /\ job'[s].then = job[s].then
      /\ \A o \in Shell \ {s} : job'[o] = job[o]
      /\ job' \in [Shell -> [next : {"none", "status", "rating", "session", "find", "log"},
                             to : Status \cup {"reading"}, then : {"none", "session"},
                             reading : Nat, session : Nat]]
  <2> DEFINE new == [job[s] EXCEPT !.next = "log", !.session = i]
  <2>1. /\ new \in [next : {"none", "status", "rating", "session", "find", "log"},
                    to : Status \cup {"reading"}, then : {"none", "session"},
                    reading : Nat, session : Nat]
        /\ new.next = "log" /\ new.session = i /\ new.reading = job[s].reading
        /\ new.to = job[s].to /\ new.then = job[s].then
    BY <1>3
  <2>2. job' = [job EXCEPT ![s] = new]
    BY <1>1, <1>3
  <2> HIDE DEF new
  <2> QED
    BY <1>3, <2>1, <2>2
<1>5. ReadingTypes'
  <2>1. unclear' \subseteq Nat
    BY <1>2, <1>3 DEF ReadingInv, ReadingTypes
  <2> QED
    BY <1>2, <1>4, <2>1 DEF ReadingInv, ReadingTypes
<1>6. IsOf(i, job[s].reading)'
  <2> SUFFICES ASSUME job[s].reading \notin unclear' \cup {0}
               PROVE  i \in DOMAIN session /\ session[i].reading = job[s].reading
    BY <1>2, <1>4 DEF IsOf
  <2>1. job[s].reading = reading /\ ~(\E o \in Shell : job[o].next = "session") /\ unclear' = unclear
    BY <1>2
  <2>2. PICK k \in Unfinished : /\ session[k].reading = reading
                                /\ \A j \in Unfinished \ {k} : session[j].at < session[k].at
    BY <2>1 DEF ReadingInv, ReadingHasSession
  <2>3. i \in Unfinished /\ \A j \in Unfinished : session[j].at <= session[i].at
    BY <1>1, <2>2 DEF Active
  <2>4. session[k].at \in Nat /\ session[i].at \in Nat /\ i \in DOMAIN session
    <3>1. k \in DOMAIN session /\ i \in DOMAIN session
      BY <2>2, <2>3 DEF Unfinished
    <3>2. PICK Kind : Kind = [at : Nat, finished : BOOLEAN, reading : Nat]
      OBVIOUS
    <3>3. session \in Seq(Kind)
      BY <1>3, <3>2
    <3>4. \A j \in DOMAIN session : session[j] \in Kind
      BY <3>3
    <3>5. \A j \in DOMAIN session : session[j] \in [at : Nat, finished : BOOLEAN, reading : Nat]
      BY <3>2, <3>4
    <3> QED
      BY <3>1, <3>5
  <2>5. i = k
    BY <2>2, <2>3, <2>4
  <2> QED
    BY <2>1, <2>2, <2>4, <2>5
<1>7. \A o \in Shell : job'[o].next = "log" =>
        IsOf(job[o].session, job[o].reading)' \/ (job'[o] = job[o] /\ job[o].next = "log")
  <2> SUFFICES ASSUME NEW o \in Shell, job'[o].next = "log"
               PROVE  IsOf(job[o].session, job[o].reading)' \/ (job'[o] = job[o] /\ job[o].next = "log")
    OBVIOUS
  <2>1. CASE o = s
    <3>1. job'[o].session = i /\ job'[o].reading = job'[s].reading
      BY <1>4, <2>1
    <3>2. job'[s].reading \notin unclear' \cup {0} => i \in DOMAIN session' /\ session'[i].reading = job'[s].reading
      BY <1>6 DEF IsOf
    <3> QED
      BY <3>1, <3>2 DEF IsOf
  <2>2. CASE o # s
    BY <1>4, <2>2
  <2> QED
    BY <2>1, <2>2
<1>8. \A o \in Shell : job[o].next = "session" => job'[o] = job[o]
  BY <1>2, <1>4
<1>9. unclear \subseteq unclear'
  BY <1>2
<1> QED
  BY <1>2, <1>5, <1>7, <1>8, <1>9, SameSessions

\* The steps of a shell that change its own job and nothing that others look at.
LEMMA JobStep ==
  ASSUME ReadingInv, NEW s \in Shell, NEW new, job' = [job EXCEPT ![s] = new],
         new \in [next : {"none", "status", "rating", "session", "find", "log"},
                  to : Status \cup {"reading"}, then : {"none", "session"},
                  reading : Nat, session : Nat],
         new.next \notin {"session", "log"},
         session' = session, reading' = reading, clock' = clock, 
         unclear' \in {unclear, unclear \cup {job[s].reading}},
         job[s].next = "session" => job[s].reading \in unclear',
         \A e \in entries' : \/ e \in entries
                             \/ /\ e = [reading |-> job[s].reading, session |-> job[s].session]
                                /\ job[s].next = "log"
  PROVE  ReadingInv'
<1>1. job'[s] = new /\ \A o \in Shell \ {s} : job'[o] = job[o]
  BY DEF ReadingInv, ReadingTypes
<1>2. job[s].reading \in Nat /\ job[s].session \in Nat
  BY DEF ReadingInv, ReadingTypes
<1>3. ReadingTypes'
  <2>1. job' \in [Shell -> [next : {"none", "status", "rating", "session", "find", "log"},
                            to : Status \cup {"reading"}, then : {"none", "session"},
                            reading : Nat, session : Nat]]
    BY DEF ReadingInv, ReadingTypes
  <2>2. entries' \subseteq [reading : Nat, session : Nat] /\ unclear' \subseteq Nat
    BY <1>2 DEF ReadingInv, ReadingTypes
  <2> QED
    BY <2>1, <2>2 DEF ReadingInv, ReadingTypes
<1>4. \A e \in entries' : e \in entries \/ IsOf(e.session, e.reading)'
  <2> SUFFICES ASSUME job[s].next = "log",
                      NEW e, e = [reading |-> job[s].reading, session |-> job[s].session]
               PROVE  IsOf(e.session, e.reading)'
    OBVIOUS
  <2>1. IsOf(job[s].session, job[s].reading)
    BY DEF ReadingInv, FoundIsOf
  <2> QED
    BY <2>1 DEF IsOf
<1>5. \A o \in Shell : job'[o].next = "log" => job'[o] = job[o] /\ job[o].next = "log"
  BY <1>1
<1>6. reading \notin unclear' => \A o \in Shell :
        job[o].next = "session" /\ job[o].reading = reading =>
          job'[o].next = "session" /\ job'[o].reading = reading
  BY <1>1
<1>7. unclear \subseteq unclear'
  OBVIOUS
<1> QED
  BY <1>3, <1>4, <1>5, <1>6, <1>7, SameSessions

\* Every step of the shells and of what is outside of them preserves the invariant.
LEMMA ReadingNextInv == ReadingInv /\ [ReadingNext]_readingVars => ReadingInv'
<1> SUFFICES ASSUME ReadingInv, [ReadingNext]_readingVars PROVE ReadingInv'
  OBVIOUS
<1> DEFINE Jobs == [next : {"none", "status", "rating", "session", "find", "log"},
                    to : Status \cup {"reading"}, then : {"none", "session"},
                    reading : Nat, session : Nat]
<1>1. /\ job \in [Shell -> Jobs] /\ reading \in Nat /\ clock \in Nat /\ unclear \subseteq Nat
  BY DEF ReadingInv, ReadingTypes
<1>2. ASSUME NEW s \in Shell, NEW to \in Status, StatusReads(s, to) \/ AddReads(s, to) \/ BulkReads(s, to)
      PROVE  ReadingInv'
  <2>1. \A first \in {"status", "rating"}, last \in {"none", "session"} :
          /\ [Free EXCEPT !.next = first, !.to = to, !.then = last] \in Jobs
          /\ [Free EXCEPT !.next = first, !.to = to, !.then = last].next = first
    BY DEF Free
  <2>2. /\ [Free EXCEPT !.next = "status", !.to = to] \in Jobs
        /\ [Free EXCEPT !.next = "status", !.to = to].next = "status"
    BY DEF Free
  <2>3. PICK new \in Jobs : job' = [job EXCEPT ![s] = new] /\ new.next \notin {"session", "log"}
    <3>1. (IF to = "reading" THEN "session" ELSE "none") \in {"none", "session"}
      OBVIOUS
    <3>2. CASE StatusReads(s, to)
      <4>1. PICK first \in {"status"} \cup (IF to = "read" THEN {"rating"} ELSE {}) :
              job' = [job EXCEPT ![s] = [Free EXCEPT !.next = first, !.to = to,
                        !.then = IF to = "reading" THEN "session" ELSE "none"]]
        BY <3>2 DEF StatusReads
      <4>2. first \in {"status", "rating"}
        BY <4>1
      <4> QED
        BY <2>1, <3>1, <4>1, <4>2
    <3>3. CASE AddReads(s, to)
      BY <2>1, <3>1, <3>3 DEF AddReads
    <3>4. CASE BulkReads(s, to)
      BY <2>2, <3>4 DEF BulkReads
    <3> QED
      BY <1>2, <3>2, <3>3, <3>4
  <2>4. job[s].next = "none" /\ UNCHANGED <<session, reading, clock, unclear, entries>>
    BY <1>2 DEF StatusReads, AddReads, BulkReads
  <2> QED
    BY <2>3, <2>4, JobStep
<1>3. ASSUME NEW s \in Shell, CommandRates(s)
      PROVE  ReadingInv'
  <2>1. PICK new : new = [job[s] EXCEPT !.next = "status"]
    OBVIOUS
  <2>2. new \in Jobs /\ new.next = "status" /\ job' = [job EXCEPT ![s] = new]
    BY <1>1, <1>3, <2>1 DEF CommandRates
  <2>3. job[s].next = "rating" /\ UNCHANGED <<session, reading, clock, unclear, entries>>
    BY <1>3 DEF CommandRates
  <2> QED
    BY <2>2, <2>3, JobStep
<1>4. ASSUME NEW s \in Shell, UpdateReads(s) \/ ApplicationLogs(s)
      PROVE  ReadingInv'
  <2>1. PICK r \in Nat : job' = [job EXCEPT ![s] = [Free EXCEPT !.next = "find", !.reading = r]]
    <3>1. CASE UpdateReads(s)
      BY <1>1, <3>1 DEF UpdateReads
    <3>2. CASE ApplicationLogs(s)
      <4>1. job' = [job EXCEPT ![s] = [Free EXCEPT !.next = "find",
               !.reading = IF status = "reading" THEN reading ELSE 0]]
        BY <3>2 DEF ApplicationLogs
      <4>2. (IF status = "reading" THEN reading ELSE 0) \in Nat
        BY <1>1
      <4> QED
        BY <4>1, <4>2
    <3> QED
      BY <1>4, <3>1, <3>2
  <2>2. /\ [Free EXCEPT !.next = "find", !.reading = r] \in Jobs
        /\ [Free EXCEPT !.next = "find", !.reading = r].next = "find"
    BY DEF Free
  <2>3. PICK new \in Jobs : job' = [job EXCEPT ![s] = new] /\ new.next \notin {"session", "log"}
    BY <2>1, <2>2
  <2>4. job[s].next = "none" /\ UNCHANGED <<session, reading, clock, unclear, entries>>
    BY <1>4 DEF UpdateReads, ApplicationLogs
  <2> QED
    BY <2>3, <2>4, JobStep
<1>5. Free \in Jobs /\ Free.next = "none"
  BY DEF Free
<1>6. ASSUME NEW s \in Shell, UpdateLogs(s)
      PROVE  ReadingInv'
  <2>1. /\ job[s].next = "log" /\ job' = [job EXCEPT ![s] = Free]
        /\ entries' = entries \cup {[reading |-> job[s].reading, session |-> job[s].session]}
        /\ UNCHANGED <<session, reading, clock, unclear>>
    BY <1>6 DEF UpdateLogs
  <2> QED
    BY <1>5, <2>1, JobStep
<1>7. ASSUME NEW s \in Shell, CommandDies(s)
      PROVE  ReadingInv'
  <2>1. /\ job' = [job EXCEPT ![s] = Free]
        /\ unclear' = IF job[s].next = "session" THEN unclear \cup {job[s].reading} ELSE unclear
        /\ UNCHANGED <<session, reading, clock, entries>>
    BY <1>7 DEF CommandDies
  <2> QED
    BY <1>5, <2>1, JobStep
<1>8. ASSUME NEW s \in Shell, CommandSetsStatus(s)
      PROVE  ReadingInv'
  <2>1. /\ job[s].next = "status" /\ SetStatus(job[s].to)
        /\ job' = [job EXCEPT ![s].next = job[s].then, ![s].reading = reading']
        /\ unclear' = IF reading' # reading /\ job[s].then = "none"
                      THEN unclear \cup {reading'} ELSE unclear
        /\ UNCHANGED <<session, entries, clock>>
    BY <1>8 DEF CommandSetsStatus
  <2>2. reading' \in {reading, reading + 1} /\ reading' \in Nat
    BY <1>1, <2>1 DEF SetStatus
  <2>3. job[s].then \in {"none", "session"}
    BY <1>1
  <2>4. PICK new : new = [job[s] EXCEPT !.next = job[s].then, !.reading = reading']
    OBVIOUS
  <2>5. /\ new \in Jobs /\ new.next = job[s].then /\ new.reading = reading'
        /\ job' = [job EXCEPT ![s] = new]
    BY <1>1, <2>1, <2>2, <2>3, <2>4
  <2>6. job'[s] = new /\ (\A o \in Shell \ {s} : job'[o] = job[o]) /\ job' \in [Shell -> Jobs]
    BY <1>1, <2>5
  <2>7. ReadingTypes'
    <3>1. unclear' \subseteq Nat
      BY <1>1, <2>1, <2>2
    <3> QED
      BY <2>1, <2>2, <2>6, <3>1 DEF ReadingInv, ReadingTypes
  <2>8. unclear \subseteq unclear'
    BY <2>1
  <2>9. reading' # reading => \/ reading' \in unclear'
                              \/ \E o \in Shell : job'[o].next = "session" /\ job'[o].reading = reading'
    BY <2>1, <2>3, <2>5, <2>6
  <2>10. \A o \in Shell : job'[o] = job[o] \/ (job[o].next = "status" /\ job'[o].next \in {"session", "none"})
    BY <2>1, <2>3, <2>5, <2>6
  <2> QED
    BY <2>1, <2>2, <2>7, <2>8, <2>9, <2>10, StatusStep
<1>9. ASSUME NEW to \in Status, ApplicationSetsStatus(to)
      PROVE  ReadingInv'
  <2>1. /\ SetStatus(to) /\ UNCHANGED <<session, entries, clock, job>>
        /\ unclear' = IF reading' # reading THEN unclear \cup {reading'} ELSE unclear
    BY <1>9 DEF ApplicationSetsStatus
  <2>2. reading' \in {reading, reading + 1} /\ reading' \in Nat
    BY <1>1, <2>1 DEF SetStatus
  <2>3. ReadingTypes'
    <3>1. unclear' \subseteq Nat
      BY <1>1, <2>1, <2>2
    <3> QED
      BY <2>1, <2>2, <3>1 DEF ReadingInv, ReadingTypes
  <2>4. unclear \subseteq unclear' /\ (reading' # reading => reading' \in unclear')
    BY <2>1
  <2> QED
    BY <2>1, <2>2, <2>3, <2>4, StatusStep
<1>10. ASSUME NEW t \in 1 .. MaxTime, ClockSetBack(t)
       PROVE  ReadingInv'
  <2>1. clock' = t /\ UNCHANGED <<session, entries, job, reading, unclear>>
    BY <1>10 DEF ClockSetBack
  <2>2. ReadingTypes'
    <3>1. clock' \in Nat
      BY <2>1, ReadingAssumption
    <3> QED
      BY <2>1, <3>1 DEF ReadingInv, ReadingTypes
  <2> QED
    BY <2>1, <2>2 DEF ReadingInv, ReadingHasSession, FoundIsOf, EntriesAreOf, IsOf, Unfinished
<1>11. CASE UNCHANGED readingVars
  BY <1>11 DEF readingVars, ReadingInv, ReadingTypes, ReadingHasSession, FoundIsOf, EntriesAreOf,
     IsOf, Unfinished
<1>12. CASE \E s \in Shell :
          \/ \E to \in Status : StatusReads(s, to) \/ AddReads(s, to) \/ BulkReads(s, to)
          \/ CommandRates(s) \/ CommandSetsStatus(s) \/ UpdateReads(s) \/ ApplicationLogs(s)
          \/ UpdateLogs(s) \/ CommandDies(s)
  BY <1>2, <1>3, <1>4, <1>6, <1>7, <1>8, <1>12
<1>13. CASE \E s \in Shell : CommandAddsSession(s) \/ UpdateFinds(s)
  BY <1>13, CommandAddsSessionStep, UpdateFindsStep
<1>14. CASE \E to \in Status : ApplicationSetsStatus(to) \/ PeerSetsStatus(to)
  BY <1>9, <1>14 DEF PeerSetsStatus
<1>15. CASE \E t \in 1 .. MaxTime :
              (\E finished \in BOOLEAN : PeerAddsSession(t, finished)) \/ ClockSetBack(t)
  BY <1>10, <1>15, PeerAddsSessionStep
<1> QED
  BY <1>11, <1>12, <1>13, <1>14, <1>15 DEF ReadingNext

(***************************************************************************)
(* ReadingInv is an invariant of the readings.  No session ever ends, so   *)
(* what makes the newest one the right one is its date.                    *)
(***************************************************************************)
THEOREM ReadingInvariant == ReadingSpec => []ReadingInv
<1>1. ReadingInit => ReadingInv
  BY ReadingInitInv
<1>2. ReadingInv /\ [ReadingNext]_readingVars => ReadingInv'
  BY ReadingNextInv
<1> QED
  BY <1>1, <1>2, PTL DEF ReadingSpec

(***************************************************************************)
(* get_active_session: the progress of a reading that a command began      *)
(* refers to the session of that reading, for any number of shells,        *)
(* readings and sessions.                                                  *)
(***************************************************************************)
THEOREM ProgressFindsItsReading == ReadingSpec => []ProgressJoinsItsReading
<1>1. ReadingInv => ProgressJoinsItsReading
  <2> SUFFICES ASSUME ReadingInv, NEW e \in entries, e.reading \notin unclear \cup {0}
               PROVE  e.session # 0 /\ session[e.session].reading = e.reading
    BY DEF ProgressJoinsItsReading
  <2>1. e.session \in DOMAIN session /\ session[e.session].reading = e.reading
    BY DEF ReadingInv, EntriesAreOf, IsOf
  <2>2. session \in Seq([at : Nat, finished : BOOLEAN, reading : Nat])
    BY DEF ReadingInv, ReadingTypes
  <2> QED
    BY <2>1, <2>2
<1> QED
  BY <1>1, ReadingInvariant, PTL

-----------------------------------------------------------------------------
\* A set whose members are all the same has at most one.
LEMMA AtMostOne ==
  ASSUME NEW S, \A s, t \in S : s = t
  PROVE  Cardinality(S) <= 1
<1>1. CASE S = {}
  BY <1>1, FS_EmptySet
<1>2. ASSUME NEW s \in S
      PROVE  Cardinality(S) <= 1
  <2>1. S = {s}
    OBVIOUS
  <2>2. Cardinality({s}) = 1
    BY FS_Singleton
  <2> QED
    BY <2>1, <2>2
<1> QED
  BY <1>1, <1>2

-----------------------------------------------------------------------------
(* Shelves: the inductive invariant, in parts. *)

ShelvesTypes ==
  /\ made \in Nat
  /\ shelf \subseteq [id : 1 .. made, name : Name, seeks : {Regular} \cup Name]
  /\ archive.shelf \subseteq [id : 1 .. made, name : Name, seeks : {Regular} \cup Name]
  /\ shelved \in [Shelved -> {"live", "dead", "none"}]
  /\ archive.shelved \in [Shelved -> {"live", "dead", "none"}]
  /\ wanted \in [Name -> SUBSET Shelved]
  /\ archive.wanted \in [Name -> SUBSET Shelved]
  /\ adding \in [Adder -> [book : Shelved \cup {"none"}, name : Name \cup {"none"}, id : 0 .. made]]

\* A number is that of one shelf for good.
NumbersAreKept == \A s, t \in shelf \cup archive.shelf : s.id = t.id => s = t

\* What is about to be inserted is a row of a regular shelf.
AdditionsAreRegular ==
  \A a \in Adder :
    /\ adding[a] = Waiting \/ (adding[a].book \in Shelved /\ adding[a].name \in Name)
    /\ adding[a].id # 0 => \A s \in shelf \cup archive.shelf :
         s.id = adding[a].id => s.name = adding[a].name /\ s.seeks = Regular

\* A library, or the archive of one: foreign keys, one shelf of a name, and the
\* books of a shelf are those that the user wants on it.
Orderly(shelves, rows, books, wants, taken) ==
  /\ rows \subseteq {b \in Shelved : books[b] # "none"} \X Ids(shelves)
  /\ \A s, t \in shelves : s.name = t.name => s = t
  /\ \A s \in shelves : s.id \notin taken =>
       \A b \in Shelved : <<b, s.id>> \in rows <=> s.seeks = Regular /\ b \in wants[s.name]
  /\ \A n \in Name : wants[n] # {} => \E s \in shelves : s.name = n /\ s.seeks = Regular

ShelvesInv ==
  /\ ShelvesTypes /\ NumbersAreKept /\ AdditionsAreRegular
  /\ Orderly(shelf, placed, shelved, wanted, overlaid)
  /\ Orderly(archive.shelf, archive.placed, archive.shelved, archive.wanted, archive.overlaid)

-----------------------------------------------------------------------------

\* Initially there is no shelf.
LEMMA ShelvesInitInv == ShelvesInit => ShelvesInv
<1> SUFFICES ASSUME ShelvesInit PROVE ShelvesInv
  OBVIOUS
<1>1. /\ shelf = {} /\ placed = {} /\ made = 0 /\ overlaid = {}
      /\ shelved = [b \in Shelved |-> "live"] /\ wanted = [n \in Name |-> {}]
      /\ adding = [a \in Adder |-> Waiting]
      /\ archive.shelf = {} /\ archive.placed = {} /\ archive.overlaid = {}
      /\ archive.shelved = [b \in Shelved |-> "none"] /\ archive.wanted = [n \in Name |-> {}]
  BY DEF ShelvesInit, Library, Bare
<1>2. ShelvesTypes
  BY <1>1 DEF ShelvesTypes, Waiting
<1>3. NumbersAreKept /\ AdditionsAreRegular
  BY <1>1 DEF NumbersAreKept, AdditionsAreRegular, Waiting
<1>4. /\ Orderly(shelf, placed, shelved, wanted, overlaid)
      /\ Orderly(archive.shelf, archive.placed, archive.shelved, archive.wanted, archive.overlaid)
  BY <1>1 DEF Orderly, Ids
<1> QED
  BY <1>2, <1>3, <1>4 DEF ShelvesInv

\* A new shelf has a name and a number that no other has, and is empty.
LEMMA NewShelfStep ==
  ASSUME ShelvesInv, NEW n \in Name, NEW seeks \in {Regular} \cup Name, Named(n) = {},
         NewShelf(n, seeks), UNCHANGED <<placed, shelved, archive, wanted, overlaid>>,
         adding' \in [Adder -> [book : Shelved \cup {"none"}, name : Name \cup {"none"}, id : 0 .. made']],
         \A a \in Adder : \/ adding'[a] = adding[a]
                          \/ /\ adding'[a].id = made + 1 /\ seeks = Regular
                             /\ adding'[a].name = n /\ adding'[a].book \in Shelved
  PROVE  ShelvesInv'
<1> DEFINE new == [id |-> made + 1, name |-> n, seeks |-> seeks]
<1>1. /\ made' = made + 1 /\ shelf' = shelf \cup {new} /\ archive' = archive
      /\ placed' = placed /\ shelved' = shelved /\ wanted' = wanted /\ overlaid' = overlaid
  BY DEF NewShelf
<1>2. /\ made \in Nat
      /\ \A s \in shelf \cup archive.shelf :
           s \in [id : 1 .. made, name : Name, seeks : {Regular} \cup Name]
  BY DEF ShelvesInv, ShelvesTypes
<1>3. new.id = made + 1 /\ new.name = n /\ new.seeks = seeks
  OBVIOUS
<1>4. new \in [id : 1 .. made + 1, name : Name, seeks : {Regular} \cup Name]
  BY <1>2
<1> HIDE DEF new
<1>5. \A s \in shelf \cup archive.shelf : /\ s.id \in 1 .. made /\ s.id # made + 1
                                          /\ s \in [id : 1 .. made + 1, name : Name, seeks : {Regular} \cup Name]
  BY <1>2
<1>6. \A s \in shelf : s.name # n
  BY DEF Named
<1>7. ShelvesTypes'
  BY <1>1, <1>2, <1>4, <1>5 DEF ShelvesInv, ShelvesTypes
<1>8. NumbersAreKept'
  BY <1>1, <1>3, <1>5 DEF ShelvesInv, NumbersAreKept
<1>9. AdditionsAreRegular'
  <2> SUFFICES ASSUME NEW a \in Adder
               PROVE  /\ adding'[a] = Waiting \/ (adding'[a].book \in Shelved /\ adding'[a].name \in Name)
                      /\ adding'[a].id # 0 => \A s \in shelf' \cup archive'.shelf :
                           s.id = adding'[a].id => s.name = adding'[a].name /\ s.seeks = Regular
    BY DEF AdditionsAreRegular
  <2>1. CASE adding'[a] = adding[a]
    <3>1. adding[a].id \in 0 .. made
      BY DEF ShelvesInv, ShelvesTypes
    <3>2. new.id # adding[a].id
      BY <1>2, <1>3, <3>1
    <3> QED
      BY <1>1, <2>1, <3>2 DEF ShelvesInv, AdditionsAreRegular
  <2>2. CASE adding'[a].id = made + 1 /\ seeks = Regular /\ adding'[a].name = n /\ adding'[a].book \in Shelved
    BY <1>1, <1>3, <1>5, <2>2
  <2> QED
    BY <2>1, <2>2
<1>10. Orderly(shelf', placed', shelved', wanted', overlaid')
  <2>1. placed \subseteq {b \in Shelved : shelved[b] # "none"} \X Ids(shelf)
    BY DEF ShelvesInv, Orderly
  <2>2. Ids(shelf) \subseteq Ids(shelf') /\ Ids(shelf) \subseteq 1 .. made
    BY <1>1, <1>5 DEF Ids
  <2>3. placed' \subseteq {b \in Shelved : shelved'[b] # "none"} \X Ids(shelf')
    BY <1>1, <2>1, <2>2
  <2>4. \A b \in Shelved : <<b, made + 1>> \notin placed
    BY <1>2, <2>1, <2>2
  <2>5. wanted[n] = {}
    BY <1>6 DEF ShelvesInv, Orderly
  <2>6. \A s, t \in shelf' : s.name = t.name => s = t
    BY <1>1, <1>3, <1>6 DEF ShelvesInv, Orderly
  <2>7. \A s \in shelf' : s.id \notin overlaid' =>
          \A b \in Shelved : <<b, s.id>> \in placed' <=> s.seeks = Regular /\ b \in wanted'[s.name]
    <3>1. \A s \in shelf : s.id \notin overlaid =>
            \A b \in Shelved : <<b, s.id>> \in placed <=> s.seeks = Regular /\ b \in wanted[s.name]
      BY DEF ShelvesInv, Orderly
    <3> QED
      BY <1>1, <1>3, <2>4, <2>5, <3>1
  <2>8. \A m \in Name : wanted'[m] # {} => \E s \in shelf' : s.name = m /\ s.seeks = Regular
    BY <1>1 DEF ShelvesInv, Orderly
  <2> QED
    BY <2>3, <2>6, <2>7, <2>8 DEF Orderly
<1>11. Orderly(archive'.shelf, archive'.placed, archive'.shelved, archive'.wanted, archive'.overlaid)
  BY <1>1 DEF ShelvesInv
<1> QED
  BY <1>7, <1>8, <1>9, <1>10, <1>11 DEF ShelvesInv

\* The steps that make no shelf: what remains to show is the order of the library.
LEMMA NoNewShelf ==
  ASSUME ShelvesInv, made' = made,
         shelf' \cup archive'.shelf \subseteq shelf \cup archive.shelf,
         shelved' \in [Shelved -> {"live", "dead", "none"}],
         archive'.shelved \in [Shelved -> {"live", "dead", "none"}],
         wanted' \in [Name -> SUBSET Shelved],
         archive'.wanted \in [Name -> SUBSET Shelved],
         adding' \in [Adder -> [book : Shelved \cup {"none"}, name : Name \cup {"none"}, id : 0 .. made]],
         \A a \in Adder : \/ adding'[a] = adding[a] \/ adding'[a] = Waiting
                          \/ /\ adding'[a].book \in Shelved /\ adding'[a].name \in Name
                             /\ adding'[a].id # 0 => \E s \in shelf : /\ s.id = adding'[a].id
                                                                     /\ s.name = adding'[a].name
                                                                     /\ s.seeks = Regular,
         Orderly(shelf', placed', shelved', wanted', overlaid'),
         Orderly(archive'.shelf, archive'.placed, archive'.shelved, archive'.wanted, archive'.overlaid)
  PROVE  ShelvesInv'
<1>1. ShelvesTypes'
  BY DEF ShelvesInv, ShelvesTypes
<1>2. NumbersAreKept'
  BY DEF ShelvesInv, NumbersAreKept
<1>3. AdditionsAreRegular'
  <2> SUFFICES ASSUME NEW a \in Adder
               PROVE  /\ adding'[a] = Waiting \/ (adding'[a].book \in Shelved /\ adding'[a].name \in Name)
                      /\ adding'[a].id # 0 => \A s \in shelf' \cup archive'.shelf :
                           s.id = adding'[a].id => s.name = adding'[a].name /\ s.seeks = Regular
    BY DEF AdditionsAreRegular
  <2>1. CASE adding'[a] = adding[a]
    BY <2>1 DEF ShelvesInv, AdditionsAreRegular
  <2>2. CASE adding'[a] = Waiting
    BY <2>2 DEF Waiting
  <2>3. ASSUME adding'[a].book \in Shelved, adding'[a].name \in Name, adding'[a].id # 0,
               NEW s \in shelf, s.id = adding'[a].id, s.name = adding'[a].name, s.seeks = Regular,
               NEW t \in shelf' \cup archive'.shelf, t.id = adding'[a].id
        PROVE  t.name = adding'[a].name /\ t.seeks = Regular
    <3>1. t = s
      BY <2>3 DEF ShelvesInv, NumbersAreKept
    <3> QED
      BY <2>3, <3>1
  <2> QED
    BY <2>1, <2>2, <2>3
<1> QED
  BY <1>1, <1>2, <1>3 DEF ShelvesInv

\* An addition looks for its shelf.
LEMMA AddFindsStep ==
  ASSUME ShelvesInv, NEW a \in Adder, NEW b \in Shelved, NEW n \in Name, AddFinds(a, b, n)
  PROVE  ShelvesInv'
<1>1. /\ \A s \in Named(n) : s.seeks = Regular
      /\ UNCHANGED <<shelf, placed, shelved, archive, made, wanted, overlaid>>
  BY DEF AddFinds
<1>2. PICK i \in IF Named(n) = {} THEN {0} ELSE Ids(Named(n)) :
        adding' = [adding EXCEPT ![a] = [book |-> b, name |-> n, id |-> i]]
  BY DEF AddFinds
<1>3. i = 0 \/ \E s \in shelf : s.id = i /\ s.name = n /\ s.seeks = Regular
  BY <1>1, <1>2 DEF Ids, Named
<1>4. i \in 0 .. made
  BY <1>3 DEF ShelvesInv, ShelvesTypes
<1>5. PICK new : new = [book |-> b, name |-> n, id |-> i]
  OBVIOUS
<1>6. new.book = b /\ new.name = n /\ new.id = i
      /\ new \in [book : Shelved \cup {"none"}, name : Name \cup {"none"}, id : 0 .. made]
  BY <1>4, <1>5
<1>7. /\ adding' \in [Adder -> [book : Shelved \cup {"none"}, name : Name \cup {"none"}, id : 0 .. made]]
      /\ adding'[a] = new /\ \A o \in Adder \ {a} : adding'[o] = adding[o]
  BY <1>2, <1>5, <1>6 DEF ShelvesInv, ShelvesTypes
<1>8. \A o \in Adder :
        \/ adding'[o] = adding[o]
        \/ /\ adding'[o].book \in Shelved /\ adding'[o].name \in Name
           /\ adding'[o].id # 0 => \E s \in shelf : /\ s.id = adding'[o].id
                                                    /\ s.name = adding'[o].name
                                                    /\ s.seeks = Regular
  BY <1>3, <1>6, <1>7
<1> QED
  BY <1>1, <1>7, <1>8, NoNewShelf DEF ShelvesInv, ShelvesTypes

\* An addition creates its shelf, unless the name is taken by now.
LEMMA AddCreatesStep ==
  ASSUME ShelvesInv, NEW a \in Adder, AddCreates(a)
  PROVE  ShelvesInv'
<1>1. /\ adding[a].book # "none" /\ adding[a].id = 0
      /\ UNCHANGED <<placed, shelved, archive, wanted, overlaid>>
  BY DEF AddCreates
<1>2. adding[a].book \in Shelved /\ adding[a].name \in Name
  BY <1>1 DEF ShelvesInv, AdditionsAreRegular, Waiting
<1>3. adding \in [Adder -> [book : Shelved \cup {"none"}, name : Name \cup {"none"}, id : 0 .. made]] /\ made \in Nat
  BY DEF ShelvesInv, ShelvesTypes
<1>4. CASE Named(adding[a].name) = {}
  <2>1. NewShelf(adding[a].name, Regular) /\ adding' = [adding EXCEPT ![a].id = made']
    BY <1>4 DEF AddCreates
  <2>2. made' = made + 1
    BY <2>1 DEF NewShelf
  <2>3. PICK new : new = [adding[a] EXCEPT !.id = made + 1]
    OBVIOUS
  <2>4. new.book = adding[a].book /\ new.name = adding[a].name /\ new.id = made + 1
        /\ new \in [book : Shelved \cup {"none"}, name : Name \cup {"none"}, id : 0 .. made + 1]
    BY <1>3, <2>3
  <2>5. adding' = [adding EXCEPT ![a] = new]
    BY <1>3, <2>1, <2>2, <2>3
  <2>6. adding \in [Adder -> [book : Shelved \cup {"none"}, name : Name \cup {"none"}, id : 0 .. made + 1]]
    <3>1. \A o \in Adder : adding[o] \in [book : Shelved \cup {"none"}, name : Name \cup {"none"}, id : 0 .. made + 1]
      BY <1>3
    <3> QED
      BY <1>3, <3>1
  <2>7. /\ adding' \in [Adder -> [book : Shelved \cup {"none"}, name : Name \cup {"none"}, id : 0 .. made']]
        /\ adding'[a] = new /\ \A o \in Adder \ {a} : adding'[o] = adding[o]
    BY <2>2, <2>4, <2>5, <2>6
  <2>8. \A o \in Adder : \/ adding'[o] = adding[o]
                         \/ /\ adding'[o].id = made + 1 /\ Regular = Regular
                            /\ adding'[o].name = adding[a].name /\ adding'[o].book \in Shelved
    BY <1>2, <2>4, <2>7
  <2> QED
    BY <1>1, <1>2, <1>4, <2>1, <2>7, <2>8, NewShelfStep
<1>5. CASE Named(adding[a].name) # {}
  <2>1. adding' = [adding EXCEPT ![a] = Waiting] /\ UNCHANGED <<shelf, made>>
    BY <1>5 DEF AddCreates
  <2>2. Waiting \in [book : Shelved \cup {"none"}, name : Name \cup {"none"}, id : 0 .. made]
    BY <1>3 DEF Waiting
  <2>3. /\ adding' \in [Adder -> [book : Shelved \cup {"none"}, name : Name \cup {"none"}, id : 0 .. made]]
        /\ \A o \in Adder : adding'[o] = adding[o] \/ adding'[o] = Waiting
    BY <1>3, <2>1, <2>2
  <2> QED
    BY <1>1, <2>1, <2>3, NoNewShelf DEF ShelvesInv, ShelvesTypes
<1> QED
  BY <1>4, <1>5

\* A row is inserted, unless the shelf or the book has gone.
LEMMA AddPlacesStep ==
  ASSUME ShelvesInv, NEW a \in Adder, AddPlaces(a)
  PROVE  ShelvesInv'
<1>1. /\ adding[a].id # 0 /\ adding' = [adding EXCEPT ![a] = Waiting]
      /\ UNCHANGED <<shelf, shelved, archive, made, overlaid>>
  BY DEF AddPlaces
<1>2. adding \in [Adder -> [book : Shelved \cup {"none"}, name : Name \cup {"none"}, id : 0 .. made]] /\ made \in Nat
  BY DEF ShelvesInv, ShelvesTypes
<1>3. Waiting \in [book : Shelved \cup {"none"}, name : Name \cup {"none"}, id : 0 .. made]
  BY <1>2 DEF Waiting
<1>4. /\ adding' \in [Adder -> [book : Shelved \cup {"none"}, name : Name \cup {"none"}, id : 0 .. made]]
      /\ \A o \in Adder : adding'[o] = adding[o] \/ adding'[o] = Waiting
  BY <1>1, <1>2, <1>3
<1>5. PICK b, n, i : b = adding[a].book /\ n = adding[a].name /\ i = adding[a].id
  OBVIOUS
<1>6. b \in Shelved /\ n \in Name /\ i # 0
  BY <1>1, <1>5 DEF ShelvesInv, AdditionsAreRegular, Waiting
<1>7. \A s \in shelf : s.id = i => s.name = n /\ s.seeks = Regular
  BY <1>5, <1>6 DEF ShelvesInv, AdditionsAreRegular
<1>8. CASE i \in Ids(shelf) /\ shelved[b] # "none"
  <2>1. placed' = placed \cup {<<b, i>>} /\ wanted' = [wanted EXCEPT ![n] = @ \cup {b}]
    BY <1>5, <1>8 DEF AddPlaces
  <2>2. wanted \in [Name -> SUBSET Shelved]
    BY DEF ShelvesInv, ShelvesTypes
  <2>3. /\ wanted' \in [Name -> SUBSET Shelved] /\ wanted'[n] = wanted[n] \cup {b}
        /\ \A m \in Name \ {n} : wanted'[m] = wanted[m]
    BY <1>6, <2>1, <2>2
  <2>4. PICK s \in shelf : s.id = i /\ s.name = n /\ s.seeks = Regular
    BY <1>7, <1>8 DEF Ids
  <2>5. \A t \in shelf : (t.name = n => t = s) /\ (t.id = i => t = s) /\ t.name \in Name
    BY <2>4 DEF ShelvesInv, Orderly, NumbersAreKept, ShelvesTypes
  <2>6. placed' \subseteq {x \in Shelved : shelved'[x] # "none"} \X Ids(shelf')
    BY <1>1, <1>6, <1>8, <2>1 DEF ShelvesInv, Orderly
  <2>7. \A t \in shelf' : t.id \notin overlaid' =>
          \A x \in Shelved : <<x, t.id>> \in placed' <=> t.seeks = Regular /\ x \in wanted'[t.name]
    <3> SUFFICES ASSUME NEW t \in shelf, t.id \notin overlaid, NEW x \in Shelved
                 PROVE  <<x, t.id>> \in placed' <=> t.seeks = Regular /\ x \in wanted'[t.name]
      BY <1>1
    <3>1. <<x, t.id>> \in placed <=> t.seeks = Regular /\ x \in wanted[t.name]
      BY DEF ShelvesInv, Orderly
    <3>2. CASE t = s
      BY <2>1, <2>3, <2>4, <3>1, <3>2
    <3>3. CASE t # s
      <4>1. wanted'[t.name] = wanted[t.name] /\ t.id # i
        BY <2>3, <2>5, <3>3
      <4> QED
        BY <2>1, <3>1, <4>1
    <3> QED
      BY <3>2, <3>3
  <2>8. \A m \in Name : wanted'[m] # {} => \E t \in shelf' : t.name = m /\ t.seeks = Regular
    <3> SUFFICES ASSUME NEW m \in Name, wanted'[m] # {}
                 PROVE  \E t \in shelf : t.name = m /\ t.seeks = Regular
      BY <1>1
    <3>1. CASE m = n
      BY <2>4, <3>1
    <3>2. CASE m # n
      BY <2>3, <3>2 DEF ShelvesInv, Orderly
    <3> QED
      BY <3>1, <3>2
  <2>9. Orderly(shelf', placed', shelved', wanted', overlaid')
    BY <1>1, <2>6, <2>7, <2>8 DEF ShelvesInv, Orderly
  <2> QED
    BY <1>1, <1>4, <2>3, <2>9, NoNewShelf DEF ShelvesInv, ShelvesTypes
<1>9. CASE ~(i \in Ids(shelf) /\ shelved[b] # "none")
  <2>1. UNCHANGED <<placed, wanted>>
    BY <1>5, <1>9 DEF AddPlaces
  <2> QED
    BY <1>1, <1>4, <2>1, NoNewShelf DEF ShelvesInv, ShelvesTypes
<1> QED
  BY <1>8, <1>9

\* A book is taken off a shelf.
LEMMA RemoveStep ==
  ASSUME ShelvesInv, NEW b \in Shelved, NEW n \in Name, RemoveFromShelf(b, n)
  PROVE  ShelvesInv'
<1>1. /\ placed' = placed \ ({b} \X Ids(Named(n))) /\ wanted' = [wanted EXCEPT ![n] = @ \ {b}]
      /\ UNCHANGED <<shelf, shelved, adding, archive, made, overlaid>>
  BY DEF RemoveFromShelf
<1>2. wanted \in [Name -> SUBSET Shelved]
  BY DEF ShelvesInv, ShelvesTypes
<1>3. /\ wanted' \in [Name -> SUBSET Shelved] /\ wanted'[n] = wanted[n] \ {b}
      /\ \A m \in Name \ {n} : wanted'[m] = wanted[m]
  BY <1>1, <1>2
<1>4. \A t \in shelf : t.name \in Name /\ (t.id \in Ids(Named(n)) <=> t.name = n)
  BY DEF ShelvesInv, ShelvesTypes, NumbersAreKept, Ids, Named
<1>5. \A t \in shelf' : t.id \notin overlaid' =>
        \A x \in Shelved : <<x, t.id>> \in placed' <=> t.seeks = Regular /\ x \in wanted'[t.name]
  <2> SUFFICES ASSUME NEW t \in shelf, t.id \notin overlaid, NEW x \in Shelved
               PROVE  <<x, t.id>> \in placed' <=> t.seeks = Regular /\ x \in wanted'[t.name]
    BY <1>1
  <2>1. <<x, t.id>> \in placed <=> t.seeks = Regular /\ x \in wanted[t.name]
    BY DEF ShelvesInv, Orderly
  <2>2. <<x, t.id>> \in placed' <=> <<x, t.id>> \in placed /\ ~(x = b /\ t.name = n)
    BY <1>1, <1>4
  <2>3. x \in wanted'[t.name] <=> x \in wanted[t.name] /\ ~(x = b /\ t.name = n)
    BY <1>3, <1>4
  <2> QED
    BY <2>1, <2>2, <2>3
<1>6. \A m \in Name : wanted'[m] # {} => wanted[m] # {}
  BY <1>3
<1>7. Orderly(shelf', placed', shelved', wanted', overlaid')
  BY <1>1, <1>5, <1>6 DEF ShelvesInv, Orderly
<1> QED
  BY <1>1, <1>3, <1>7, NoNewShelf DEF ShelvesInv, ShelvesTypes

\* A shelf is deleted, and its rows cascade.
LEMMA DeleteShelfStep ==
  ASSUME ShelvesInv, NEW n \in Name, DeleteShelf(n)
  PROVE  ShelvesInv'
<1>1. /\ shelf' = shelf \ Named(n)
      /\ placed' = {p \in placed : p[2] \notin Ids(Named(n))}
      /\ wanted' = [wanted EXCEPT ![n] = {}]
      /\ overlaid' = overlaid \ Ids(Named(n))
      /\ UNCHANGED <<shelved, adding, archive, made>>
  BY DEF DeleteShelf
<1>2. wanted \in [Name -> SUBSET Shelved]
  BY DEF ShelvesInv, ShelvesTypes
<1>3. /\ wanted' \in [Name -> SUBSET Shelved] /\ wanted'[n] = {}
      /\ \A m \in Name \ {n} : wanted'[m] = wanted[m]
  BY <1>1, <1>2
<1>4. \A t \in shelf : t.name \in Name /\ (t.id \in Ids(Named(n)) <=> t.name = n)
  BY DEF ShelvesInv, ShelvesTypes, NumbersAreKept, Ids, Named
<1>5. \A t : t \in shelf' <=> t \in shelf /\ t.name # n
  BY <1>1 DEF Named
<1>6. \A t \in shelf' : t.id \notin overlaid' =>
        \A x \in Shelved : <<x, t.id>> \in placed' <=> t.seeks = Regular /\ x \in wanted'[t.name]
  <2> SUFFICES ASSUME NEW t \in shelf, t.name # n, t.id \notin overlaid', NEW x \in Shelved
               PROVE  <<x, t.id>> \in placed' <=> t.seeks = Regular /\ x \in wanted'[t.name]
    BY <1>5
  <2>1. t.id \notin Ids(Named(n)) /\ t.id \notin overlaid
    BY <1>1, <1>4
  <2>2. <<x, t.id>> \in placed <=> t.seeks = Regular /\ x \in wanted[t.name]
    BY <2>1 DEF ShelvesInv, Orderly
  <2>3. <<x, t.id>> \in placed' <=> <<x, t.id>> \in placed
    BY <1>1, <2>1
  <2>4. wanted'[t.name] = wanted[t.name]
    BY <1>3, <1>4
  <2> QED
    BY <2>2, <2>3, <2>4
<1>7. placed' \subseteq {x \in Shelved : shelved'[x] # "none"} \X Ids(shelf')
  <2>1. placed \subseteq {x \in Shelved : shelved[x] # "none"} \X Ids(shelf)
    BY DEF ShelvesInv, Orderly
  <2>2. \A i \in Ids(shelf) : i \notin Ids(Named(n)) => i \in Ids(shelf')
    BY <1>4, <1>5 DEF Ids
  <2> QED
    BY <1>1, <2>1, <2>2
<1>8. \A m \in Name : wanted'[m] # {} => \E s \in shelf' : s.name = m /\ s.seeks = Regular
  <2> SUFFICES ASSUME NEW m \in Name, wanted'[m] # {}
               PROVE  \E s \in shelf' : s.name = m /\ s.seeks = Regular
    OBVIOUS
  <2>1. m # n /\ wanted[m] # {}
    BY <1>3
  <2>2. PICK s \in shelf : s.name = m /\ s.seeks = Regular
    BY <2>1 DEF ShelvesInv, Orderly
  <2> QED
    BY <1>5, <2>1, <2>2
<1>9. \A s, t \in shelf' : s.name = t.name => s = t
  BY <1>5 DEF ShelvesInv, Orderly
<1>10. Orderly(shelf', placed', shelved', wanted', overlaid')
  BY <1>6, <1>7, <1>8, <1>9 DEF Orderly
<1> QED
  BY <1>1, <1>3, <1>10, NoNewShelf DEF ShelvesInv, ShelvesTypes

\* A book is deleted, and stays on its shelves under its tombstone.
LEMMA DeleteBookStep ==
  ASSUME ShelvesInv, NEW b \in Shelved, DeleteBook(b)
  PROVE  ShelvesInv'
<1>1. /\ shelved' = [shelved EXCEPT ![b] = "dead"]
      /\ UNCHANGED <<shelf, placed, adding, archive, made, wanted, overlaid>>
  BY DEF DeleteBook
<1>2. shelved \in [Shelved -> {"live", "dead", "none"}]
  BY DEF ShelvesInv, ShelvesTypes
<1>3. /\ shelved' \in [Shelved -> {"live", "dead", "none"}]
      /\ \A x \in Shelved : shelved[x] # "none" => shelved'[x] # "none"
  BY <1>1, <1>2
<1>4. placed' \subseteq {x \in Shelved : shelved'[x] # "none"} \X Ids(shelf')
  BY <1>1, <1>3 DEF ShelvesInv, Orderly
<1>5. Orderly(shelf', placed', shelved', wanted', overlaid')
  BY <1>1, <1>4 DEF ShelvesInv, Orderly
<1> QED
  BY <1>1, <1>3, <1>5, NoNewShelf DEF ShelvesInv, ShelvesTypes

\* A book that is merged away leaves every shelf.
LEMMA MergeAwayStep ==
  ASSUME ShelvesInv, NEW b \in Shelved, MergeAway(b)
  PROVE  ShelvesInv'
<1>1. /\ shelved' = [shelved EXCEPT ![b] = "none"]
      /\ placed' = {p \in placed : p[1] # b}
      /\ wanted' = [n \in Name |-> wanted[n] \ {b}]
      /\ UNCHANGED <<shelf, adding, archive, made, overlaid>>
  BY DEF MergeAway
<1>2. shelved \in [Shelved -> {"live", "dead", "none"}] /\ wanted \in [Name -> SUBSET Shelved]
  BY DEF ShelvesInv, ShelvesTypes
<1>3. /\ shelved' \in [Shelved -> {"live", "dead", "none"}]
      /\ \A x \in Shelved \ {b} : shelved'[x] = shelved[x]
      /\ wanted' \in [Name -> SUBSET Shelved]
  BY <1>1, <1>2
<1>4. placed' \subseteq {x \in Shelved : shelved'[x] # "none"} \X Ids(shelf')
  BY <1>1, <1>3 DEF ShelvesInv, Orderly
<1>5. \A t \in shelf' : t.id \notin overlaid' =>
        \A x \in Shelved : <<x, t.id>> \in placed' <=> t.seeks = Regular /\ x \in wanted'[t.name]
  <2> SUFFICES ASSUME NEW t \in shelf, t.id \notin overlaid, NEW x \in Shelved
               PROVE  <<x, t.id>> \in placed' <=> t.seeks = Regular /\ x \in wanted'[t.name]
    BY <1>1
  <2>1. <<x, t.id>> \in placed <=> t.seeks = Regular /\ x \in wanted[t.name]
    BY DEF ShelvesInv, Orderly
  <2>2. <<x, t.id>> \in placed' <=> <<x, t.id>> \in placed /\ x # b
    BY <1>1
  <2>3. x \in wanted'[t.name] <=> x \in wanted[t.name] /\ x # b
    BY <1>1 DEF ShelvesInv, ShelvesTypes
  <2> QED
    BY <2>1, <2>2, <2>3
<1>6. \A m \in Name : wanted'[m] # {} => wanted[m] # {}
  BY <1>1
<1>7. Orderly(shelf', placed', shelved', wanted', overlaid')
  BY <1>1, <1>4, <1>5, <1>6 DEF ShelvesInv, Orderly
<1> QED
  BY <1>1, <1>3, <1>7, NoNewShelf DEF ShelvesInv, ShelvesTypes

\* A shelf of the archive is restored, or its books to the shelf of its name.
LEMMA RestoreMergeStep ==
  ASSUME ShelvesInv, RestoreMerge
  PROVE  ShelvesInv'
<1> DEFINE back == {s \in archive.shelf : Named(s.name) = {}}
           all == shelf \cup back
           local(i) == {s.id : s \in {x \in all : \E y \in archive.shelf : y.id = i /\ y.name = x.name}}
           rows == UNION {{p[1]} \X local(p[2]) : p \in archive.placed}
<1>1. /\ shelf' = all
      /\ shelved' = [b \in Shelved |-> IF shelved[b] = "none" THEN archive.shelved[b] ELSE shelved[b]]
      /\ placed' = placed \cup rows
      /\ wanted' = [n \in Name |-> wanted[n] \cup
                      (IF \E s \in all : s.name = n /\ s.seeks = Regular THEN archive.wanted[n] ELSE {})]
      /\ overlaid' = overlaid \cup {s.id : s \in {x \in all :
                       \/ x.seeks # Regular /\ \E p \in rows : p[2] = x.id
                       \/ \E y \in archive.shelf : y.name = x.name /\ y.id \in archive.overlaid}}
      /\ UNCHANGED <<adding, archive, made>>
  BY DEF RestoreMerge
<1>2. /\ shelved \in [Shelved -> {"live", "dead", "none"}] /\ wanted \in [Name -> SUBSET Shelved]
      /\ archive.shelved \in [Shelved -> {"live", "dead", "none"}]
      /\ archive.wanted \in [Name -> SUBSET Shelved]
  BY DEF ShelvesInv, ShelvesTypes
<1>3. /\ shelved' \in [Shelved -> {"live", "dead", "none"}] /\ wanted' \in [Name -> SUBSET Shelved]
      /\ \A b \in Shelved : shelved[b] # "none" \/ archive.shelved[b] # "none" => shelved'[b] # "none"
  BY <1>1, <1>2
<1>4. \A s : s \in all <=> s \in shelf \/ (s \in archive.shelf /\ \A t \in shelf : t.name # s.name)
  BY DEF Named
<1>5. /\ \A s, t \in all : s.name = t.name => s = t
      /\ \A s, t \in all : s.id = t.id => s = t
      /\ \A s \in all : s.name \in Name /\ (s \in shelf \/ s \in archive.shelf)
  BY <1>4 DEF ShelvesInv, Orderly, NumbersAreKept, ShelvesTypes
<1>6. \A b, i : <<b, i>> \in rows <=>
        \E x \in all : \E y \in archive.shelf : i = x.id /\ y.name = x.name /\ <<b, y.id>> \in archive.placed
  <2> TAKE b, i
  <2>1. ASSUME <<b, i>> \in rows
        PROVE  \E x \in all : \E y \in archive.shelf : i = x.id /\ y.name = x.name /\ <<b, y.id>> \in archive.placed
    <3>1. PICK p \in archive.placed : <<b, i>> \in {p[1]} \X local(p[2])
      BY <2>1
    <3>2. p[1] = b /\ i \in local(p[2]) /\ p = <<p[1], p[2]>>
      BY <3>1 DEF ShelvesInv, Orderly
    <3>3. PICK x \in all : i = x.id /\ \E y \in archive.shelf : y.id = p[2] /\ y.name = x.name
      BY <3>2
    <3> QED
      BY <3>2, <3>3
  <2>2. ASSUME NEW x \in all, NEW y \in archive.shelf, i = x.id, y.name = x.name, <<b, y.id>> \in archive.placed
        PROVE  <<b, i>> \in rows
    <3>1. i \in local(y.id)
      BY <2>2
    <3> QED
      BY <2>2, <3>1
  <2> QED
    BY <2>1, <2>2
<1>7. \A s \in all : (\E p \in rows : p[2] = s.id) <=> \E b : <<b, s.id>> \in rows
  <2>1. \A p \in rows : p = <<p[1], p[2]>>
    OBVIOUS
  <2> HIDE DEF all, rows
  <2> QED
    BY <2>1
<1>8. \A s \in all : s.id \in overlaid' <=>
        \/ s.id \in overlaid
        \/ s.seeks # Regular /\ \E b : <<b, s.id>> \in rows
        \/ \E y \in archive.shelf : y.name = s.name /\ y.id \in archive.overlaid
  BY <1>1, <1>5, <1>7
<1> HIDE DEF all, rows
<1>9. placed' \subseteq {b \in Shelved : shelved'[b] # "none"} \X Ids(shelf')
  <2>1. ASSUME NEW p \in placed
        PROVE  p \in {b \in Shelved : shelved'[b] # "none"} \X Ids(shelf')
    BY <1>1, <1>3, <1>4, <2>1 DEF ShelvesInv, Orderly, Ids
  <2>2. ASSUME NEW p \in rows
        PROVE  p \in {b \in Shelved : shelved'[b] # "none"} \X Ids(shelf')
    <3>1. p = <<p[1], p[2]>>
      BY DEF rows
    <3>2. PICK x \in all, y \in archive.shelf : p[2] = x.id /\ y.name = x.name /\ <<p[1], y.id>> \in archive.placed
      BY <1>6, <3>1
    <3>3. p[1] \in Shelved /\ archive.shelved[p[1]] # "none"
      BY <3>2 DEF ShelvesInv, Orderly
    <3>4. p[2] \in Ids(shelf')
      BY <1>1, <3>2 DEF Ids
    <3> QED
      BY <1>3, <3>1, <3>3, <3>4
  <2> QED
    BY <1>1, <2>1, <2>2
<1>10. \A s \in shelf' : s.id \notin overlaid' =>
         \A b \in Shelved : <<b, s.id>> \in placed' <=> s.seeks = Regular /\ b \in wanted'[s.name]
  <2> SUFFICES ASSUME NEW s \in all, s.id \notin overlaid', NEW b \in Shelved
               PROVE  <<b, s.id>> \in placed' <=> s.seeks = Regular /\ b \in wanted'[s.name]
    BY <1>1
  <2>1. <<b, s.id>> \in placed <=> s.seeks = Regular /\ b \in wanted[s.name]
    <3>1. CASE s \in shelf
      BY <1>8, <3>1 DEF ShelvesInv, Orderly
    <3>2. CASE s \notin shelf
      <4>1. s \in archive.shelf /\ \A t \in shelf : t.name # s.name /\ t.id # s.id
        BY <1>4, <1>5, <3>2
      <4>2. wanted[s.name] = {}
        BY <1>5, <4>1 DEF ShelvesInv, Orderly
      <4>3. <<b, s.id>> \notin placed
        BY <4>1 DEF ShelvesInv, Orderly, Ids
      <4> QED
        BY <4>2, <4>3
    <3> QED
      BY <3>1, <3>2
  <2>2. CASE s.seeks # Regular
    BY <1>1, <1>8, <2>1, <2>2
  <2>3. CASE s.seeks = Regular
    <3>1. wanted'[s.name] = wanted[s.name] \cup archive.wanted[s.name]
      BY <1>1, <1>5, <2>3
    <3>2. <<b, s.id>> \in rows <=> b \in archive.wanted[s.name]
      <4>1. ASSUME <<b, s.id>> \in rows
            PROVE  b \in archive.wanted[s.name]
        <5>1. PICK x \in all, y \in archive.shelf : s.id = x.id /\ y.name = x.name /\ <<b, y.id>> \in archive.placed
          BY <1>6, <4>1
        <5>2. y.name = s.name /\ y.id \notin archive.overlaid
          BY <1>5, <1>8, <5>1
        <5> QED
          BY <5>1, <5>2 DEF ShelvesInv, Orderly
      <4>2. ASSUME b \in archive.wanted[s.name]
            PROVE  <<b, s.id>> \in rows
        <5>1. PICK y \in archive.shelf : y.name = s.name /\ y.seeks = Regular
          BY <1>5, <4>2 DEF ShelvesInv, Orderly
        <5>2. y.id \notin archive.overlaid
          BY <1>8, <5>1
        <5>3. <<b, y.id>> \in archive.placed
          BY <4>2, <5>1, <5>2 DEF ShelvesInv, Orderly
        <5> QED
          BY <1>6, <5>1, <5>3
      <4> QED
        BY <4>1, <4>2
    <3> QED
      BY <1>1, <2>1, <2>3, <3>1, <3>2
  <2> QED
    BY <2>2, <2>3
<1>11. \A n \in Name : wanted'[n] # {} => \E s \in shelf' : s.name = n /\ s.seeks = Regular
  <2> SUFFICES ASSUME NEW n \in Name, wanted'[n] # {}, ~ \E s \in all : s.name = n /\ s.seeks = Regular
               PROVE  FALSE
    BY <1>1
  <2>1. wanted'[n] = wanted[n]
    BY <1>1
  <2>2. \E s \in shelf : s.name = n /\ s.seeks = Regular
    BY <2>1 DEF ShelvesInv, Orderly
  <2> QED
    BY <1>4, <2>2
<1>12. Orderly(shelf', placed', shelved', wanted', overlaid')
  BY <1>1, <1>5, <1>9, <1>10, <1>11 DEF Orderly
<1>13. shelf' \cup archive'.shelf \subseteq shelf \cup archive.shelf
  BY <1>1, <1>5
<1> QED
  BY <1>1, <1>2, <1>3, <1>12, <1>13, NoNewShelf DEF ShelvesInv, ShelvesTypes

\* Every step on the shelves preserves the invariant.
LEMMA ShelvesNextInv == ShelvesInv /\ [ShelvesNext]_shelvesVars => ShelvesInv'
<1> SUFFICES ASSUME ShelvesInv, [ShelvesNext]_shelvesVars PROVE ShelvesInv'
  OBVIOUS
<1>1. ASSUME NEW n \in Name, NEW seeks \in {Regular} \cup Name, CreateShelf(n, seeks)
      PROVE  ShelvesInv'
  <2>1. /\ Named(n) = {} /\ NewShelf(n, seeks)
        /\ UNCHANGED <<placed, shelved, adding, archive, wanted, overlaid>>
    BY <1>1 DEF CreateShelf
  <2>2. adding' \in [Adder -> [book : Shelved \cup {"none"}, name : Name \cup {"none"}, id : 0 .. made']]
    <3>1. made' = made + 1 /\ made \in Nat
      BY <2>1 DEF NewShelf, ShelvesInv, ShelvesTypes
    <3>2. adding \in [Adder -> [book : Shelved \cup {"none"}, name : Name \cup {"none"}, id : 0 .. made]]
      BY DEF ShelvesInv, ShelvesTypes
    <3>3. \A o \in Adder : adding[o] \in [book : Shelved \cup {"none"}, name : Name \cup {"none"}, id : 0 .. made + 1]
      BY <3>1, <3>2
    <3> QED
      BY <2>1, <3>1, <3>2, <3>3
  <2>3. \A a \in Adder : adding'[a] = adding[a]
    BY <2>1
  <2> QED
    BY <1>1, <2>1, <2>2, <2>3, NewShelfStep
<1>2. CASE Backup
  <2>1. /\ archive'.shelf = shelf /\ archive'.placed = placed /\ archive'.shelved = shelved
        /\ archive'.wanted = wanted /\ archive'.overlaid = overlaid
        /\ UNCHANGED <<shelf, placed, shelved, adding, made, wanted, overlaid>>
    BY <1>2 DEF Backup, Library
  <2> QED
    BY <2>1, NoNewShelf DEF ShelvesInv, ShelvesTypes
<1>3. CASE RestoreReplace
  <2>1. /\ shelf' = archive.shelf /\ placed' = archive.placed /\ shelved' = archive.shelved
        /\ wanted' = archive.wanted /\ overlaid' = archive.overlaid
        /\ UNCHANGED <<adding, archive, made>>
    BY <1>3 DEF RestoreReplace
  <2> QED
    BY <2>1, NoNewShelf DEF ShelvesInv, ShelvesTypes
<1>4. CASE UNCHANGED shelvesVars
  BY <1>4 DEF shelvesVars, ShelvesInv, ShelvesTypes, NumbersAreKept, AdditionsAreRegular, Orderly
<1> QED
  BY <1>1, <1>2, <1>3, <1>4, AddFindsStep, AddCreatesStep, AddPlacesStep, RemoveStep, DeleteShelfStep,
     DeleteBookStep, MergeAwayStep, RestoreMergeStep DEF ShelvesNext

(***************************************************************************)
(* ShelvesInv is an invariant of the shelves.                              *)
(***************************************************************************)
THEOREM ShelvesInvariant == ShelvesSpec => []ShelvesInv
<1>1. ShelvesInit => ShelvesInv
  BY ShelvesInitInv
<1>2. ShelvesInv /\ [ShelvesNext]_shelvesVars => ShelvesInv'
  BY ShelvesNextInv
<1> QED
  BY <1>1, <1>2, PTL DEF ShelvesSpec

(***************************************************************************)
(* add_book_to_shelf, list_books_in_shelf, search, restore_library: all    *)
(* ways to look at a shelf agree, for any number of books, names, shelves, *)
(* additions at a time and backups.                                        *)
(***************************************************************************)
THEOREM EveryWayAgrees == ShelvesSpec => []ShelvesAgree
<1>1. ShelvesInv => ShelvesAgree
  <2> SUFFICES ASSUME ShelvesInv PROVE ShelvesAgree
    OBVIOUS
  <2>1. placed \subseteq {b \in Shelved : shelved[b] # "none"} \X Ids(shelf)
    BY DEF ShelvesInv, Orderly
  <2>2. ASSUME NEW n \in Name
        PROVE  Cardinality(Named(n)) <= 1
    <3>1. CASE Named(n) = {}
      BY <3>1, FS_EmptySet
    <3>2. CASE Named(n) # {}
      <4>1. PICK s : s \in Named(n)
        BY <3>2
      <4>2. Named(n) = {s}
        BY <4>1 DEF Named, ShelvesInv, Orderly
      <4> QED
        BY <4>2, FS_Singleton
    <3> QED
      BY <3>1, <3>2
  <2>3. ASSUME NEW n \in Name, NEW s \in Named(n)
        PROVE  IF s.seeks = Regular
               THEN /\ s.id \notin overlaid => Listed(n) = wanted[n] \cap Live
                    /\ Searched(n) = Listed(n) /\ Tagged(n) = Listed(n)
                    /\ (\A o \in shelf : Alike(o.name, n) => o = s) => Filtered(n) = Listed(n)
               ELSE /\ Listed(n) = Filtered(s.seeks)
                    /\ s.id \notin overlaid => Searched(n) = {} /\ Tagged(n) = {}
    <3>1. Named(n) = {s} /\ s \in shelf /\ s.name = n
      BY DEF Named, ShelvesInv, Orderly
    <3>2. Ids(Named(n)) = {s.id}
      BY <3>1 DEF Ids
    <3>3. Listed(n) = IF s.seeks = Regular THEN OnIds({s.id}) ELSE Filtered(s.seeks)
      BY <3>1 DEF Listed
    <3>4. Searched(n) = OnIds({s.id}) /\ Tagged(n) = OnIds({s.id})
      BY <3>1, <3>2 DEF Searched, Tagged, OnIds
    <3>5. s.id \notin overlaid => \A b \in Shelved : <<b, s.id>> \in placed <=> s.seeks = Regular /\ b \in wanted[n]
      BY <3>1 DEF ShelvesInv, Orderly
    <3>6. OnIds({s.id}) = {b \in Live : <<b, s.id>> \in placed}
      BY DEF OnIds
    <3>7. ASSUME s.seeks = Regular, \A o \in shelf : Alike(o.name, n) => o = s
          PROVE  Filtered(n) = OnIds({s.id})
      <4>1. {x \in shelf : Alike(x.name, n) /\ x.seeks = Regular} = {s}
        BY <3>1, <3>7 DEF Alike
      <4> QED
        BY <4>1 DEF Filtered
    <3>8. CASE s.seeks = Regular
      <4>1. s.id \notin overlaid => OnIds({s.id}) = wanted[n] \cap Live
        BY <3>5, <3>6, <3>8 DEF Live
      <4> QED
        BY <3>3, <3>4, <3>7, <3>8, <4>1
    <3>9. CASE s.seeks # Regular
      <4>1. s.id \notin overlaid => OnIds({s.id}) = {}
        BY <3>5, <3>6, <3>9 DEF Live
      <4> QED
        BY <3>3, <3>4, <3>9, <4>1
    <3> QED
      BY <3>8, <3>9
  <2> QED
    BY <2>1, <2>2, <2>3 DEF ShelvesAgree
<1> QED
  BY <1>1, ShelvesInvariant, PTL

-----------------------------------------------------------------------------
(* Catalogue: the inductive invariant, in parts. *)

VolumeRecord == [is : {"gone", "live", "dead", "removed"}, title : Heading \cup {None},
                 by : SUBSET {Author}, text : SUBSET (Heading \cup {None, Author}),
                 work : 0 .. MaxWorks]
TaskRecord == [next : {"none", "row", "number", "author", "refresh", "work", "link"},
               number : Number \cup {None}, title : Heading \cup {None},
               by : SUBSET {Author}, book : 0 .. MaxVolumes, work : 0 .. MaxWorks]

CatalogueTypes ==
  /\ volume \in [Volume -> VolumeRecord] /\ isbns \in [Number -> 0 .. MaxVolumes]
  /\ works \in [1 .. MaxWorks -> Heading \cup {None}] /\ task \in [Desk -> TaskRecord]
  /\ asked \in [Volume -> SUBSET Number]

\* What a command still has to write to is there, or was.
TasksHaveRows ==
  \A d \in Desk :
    /\ task[d].next \in {"number", "author", "refresh", "work", "link"} =>
         task[d].book \in Volume /\ volume[task[d].book].is # "gone"
    /\ task[d].number # None => task[d].next \in {"row", "number"}
    /\ task[d].next = "number" => task[d].number # None
    /\ task[d].next \in {"row", "work"} => task[d].title \in Heading

RowsHaveWorks ==
  /\ \A b \in Volume : volume[b].work # 0 => works[volume[b].work] # None
  /\ \A d \in Desk : task[d].next = "link" => task[d].work # 0 /\ works[task[d].work] # None

\* A work is about to be made for a title that has none, by one command.
WorksAreMadeOnce ==
  /\ \A v, w \in DOMAIN works : works[v] = works[w] => v = w \/ works[v] \in doubled \cup {None}
  /\ \A d \in Desk : task[d].next = "work" /\ task[d].title \notin doubled =>
       /\ \A w \in DOMAIN works : works[w] # task[d].title
       /\ \A e \in Desk : task[e].next = "work" /\ task[e].title = task[d].title => e = d

\* An ISBN is that of a row; while a command adds it no other book has it.
NumbersAreTaken ==
  /\ \A n \in Number : isbns[n] # 0 => volume[isbns[n]].is \in {"live", "dead"}
  /\ \A b \in Volume : volume[b].is = "gone" => asked[b] = {}
  /\ \A n \in Number \ blurred :
       /\ \A d, e \in Adding(n) : d = e
       /\ \A d \in Adding(n) :
            /\ isbns[n] = 0
            /\ \A b \in Volume : OnShelf(b) /\ n \in asked[b] =>
                 task[d].next = "number" /\ task[d].book = b
       /\ Adding(n) = {} => \A b \in Volume : OnShelf(b) /\ n \in asked[b] => isbns[n] = b

CatalogueInv ==
  /\ CatalogueTypes /\ TasksHaveRows /\ RowsHaveWorks /\ WorksAreMadeOnce
  /\ NumbersAreTaken /\ SearchFindsBooks

-----------------------------------------------------------------------------

\* A task that is over.
LEMMA IdleType ==
  /\ Idle \in TaskRecord
  /\ Idle.next = "none" /\ Idle.number = None
<1>1. 0 \in 0 .. MaxVolumes /\ 0 \in 0 .. MaxWorks
  BY CatalogueAssumption
<1> QED
  BY <1>1 DEF Idle, TaskRecord

\* One row of books is written.
LEMMA RowWrite ==
  ASSUME CatalogueInv, NEW b \in Volume, NEW v \in VolumeRecord,
         volume' = [volume EXCEPT ![b] = v]
  PROVE  /\ volume' \in [Volume -> VolumeRecord] /\ volume'[b] = v
         /\ \A c \in Volume \ {b} : volume'[c] = volume[c]
BY DEF CatalogueInv, CatalogueTypes

\* One command goes on.
LEMMA TaskWrite ==
  ASSUME CatalogueInv, NEW d \in Desk, NEW t \in TaskRecord, task' = [task EXCEPT ![d] = t]
  PROVE  /\ task' \in [Desk -> TaskRecord] /\ task'[d] = t
         /\ \A e \in Desk \ {d} : task'[e] = task[e]
BY DEF CatalogueInv, CatalogueTypes

\* One command is over.
LEMMA TaskEnds ==
  ASSUME CatalogueInv, NEW d \in Desk, task' = [task EXCEPT ![d] = Idle]
  PROVE  /\ task' \in [Desk -> TaskRecord] /\ task'[d] = Idle
         /\ \A e \in Desk \ {d} : task'[e] = task[e]
BY IdleType, TaskWrite

\* Steps that begin nothing, and end what they end, keep the tasks and the works.
LEMMA Settles ==
  ASSUME CatalogueInv, UNCHANGED <<works, doubled>>,
         \A e \in Desk : task'[e] = task[e] \/ task'[e] = Idle,
         \A b \in Volume : volume[b].is # "gone" => volume'[b].is # "gone",
         \A b \in Volume : volume'[b].work # 0 => works[volume'[b].work] # None
  PROVE  TasksHaveRows' /\ RowsHaveWorks' /\ WorksAreMadeOnce'
<1>1. TasksHaveRows'
  BY IdleType DEF CatalogueInv, TasksHaveRows
<1>2. RowsHaveWorks'
  BY IdleType DEF CatalogueInv, RowsHaveWorks
<1>3. WorksAreMadeOnce'
  <2>1. \A e \in Desk : task'[e].next = "work" => task'[e] = task[e]
    BY IdleType
  <2> QED
    BY <2>1 DEF CatalogueInv, WorksAreMadeOnce
<1> QED
  BY <1>1, <1>2, <1>3

\* Steps that touch no ISBN keep them, whichever book they delete or add.
LEMMA NumbersKeep ==
  ASSUME CatalogueInv, UNCHANGED <<isbns, asked>>, blurred \subseteq blurred',
         \A e \in Desk : \/ /\ task'[e].number = task[e].number /\ task'[e].next = task[e].next
                            /\ task'[e].book = task[e].book
                         \/ task'[e].number = None /\ task[e].number \in blurred' \cup {None},
         \A b \in Volume : \/ volume'[b].is = volume[b].is
                           \/ volume[b].is = "live" /\ volume'[b].is = "dead"
                           \/ volume[b].is = "gone" /\ volume'[b].is = "live"
  PROVE  NumbersAreTaken'
<1>1. \A n \in Number : isbns'[n] # 0 => volume'[isbns'[n]].is \in {"live", "dead"}
  <2> SUFFICES ASSUME NEW n \in Number, isbns[n] # 0
               PROVE  volume'[isbns[n]].is \in {"live", "dead"}
    OBVIOUS
  <2>1. isbns[n] \in Volume /\ volume[isbns[n]].is \in {"live", "dead"}
    BY CatalogueAssumption DEF CatalogueInv, CatalogueTypes, NumbersAreTaken, Volume
  <2> QED
    BY <2>1
<1>2. \A b \in Volume : volume'[b].is = "gone" => asked'[b] = {}
  BY DEF CatalogueInv, NumbersAreTaken
<1>3. ASSUME NEW n \in Number \ blurred'
      PROVE  /\ Adding(n)' = Adding(n)
             /\ \A d \in Adding(n) : task'[d].next = task[d].next /\ task'[d].book = task[d].book
  <2>1. n # None /\ n \notin blurred' \cup {None}
    BY CatalogueAssumption
  <2> QED
    BY <2>1 DEF Adding
<1>4. \A b \in Volume : OnShelf(b)' => OnShelf(b) \/ asked[b] = {}
  BY DEF CatalogueInv, NumbersAreTaken, OnShelf
<1>5. ASSUME NEW n \in Number \ blurred'
      PROVE  /\ \A d, e \in Adding(n)' : d = e
             /\ \A d \in Adding(n)' :
                  /\ isbns'[n] = 0
                  /\ \A b \in Volume : OnShelf(b)' /\ n \in asked'[b] =>
                       task'[d].next = "number" /\ task'[d].book = b
             /\ Adding(n)' = {} =>
                  \A b \in Volume : OnShelf(b)' /\ n \in asked'[b] => isbns'[n] = b
  <2>1. n \in Number \ blurred
    OBVIOUS
  <2> QED
    BY <1>3, <1>4, <2>1 DEF CatalogueInv, NumbersAreTaken
<1> QED
  BY <1>1, <1>2, <1>5 DEF NumbersAreTaken

\* toku add reads the ISBN, unless a command that ends later has it too.
LEMMA AddBeginsStep ==
  ASSUME CatalogueInv, NEW d \in Desk, NEW n \in Number \cup {None}, NEW t \in Heading,
         NEW by \in {{}, {Author}}, AddBegins(d, n, t, by)
  PROVE  CatalogueInv'
<1> DEFINE new == [Idle EXCEPT !.next = "row", !.number = n, !.title = t, !.by = by]
<1>1. /\ task[d] = Idle /\ task' = [task EXCEPT ![d] = new]
      /\ n # None => FoundBy(n) = {}
      /\ blurred' = IF n # None /\ (Adding(n) # {} \/ isbns[n] # 0) THEN blurred \cup {n} ELSE blurred
      /\ UNCHANGED <<volume, isbns, works, asked, doubled, unindexed>>
  BY DEF AddBegins
<1>2. new \in TaskRecord /\ new.next = "row" /\ new.number = n /\ new.title = t
  BY IdleType DEF TaskRecord
<1> HIDE DEF new
<1>3. /\ task' \in [Desk -> TaskRecord] /\ task'[d] = new
      /\ \A e \in Desk \ {d} : task'[e] = task[e]
  BY <1>1, <1>2, TaskWrite
<1>4. CatalogueTypes'
  BY <1>1, <1>3 DEF CatalogueInv, CatalogueTypes
<1>5. TasksHaveRows'
  BY <1>1, <1>2, <1>3 DEF CatalogueInv, TasksHaveRows
<1>6. RowsHaveWorks'
  BY <1>1, <1>2, <1>3 DEF CatalogueInv, RowsHaveWorks
<1>7. WorksAreMadeOnce'
  BY <1>1, <1>2, <1>3 DEF CatalogueInv, WorksAreMadeOnce
<1>8. ASSUME NEW i \in Number \ blurred'
      PROVE  /\ \A e, f \in Adding(i)' : e = f
             /\ \A e \in Adding(i)' :
                  /\ isbns'[i] = 0
                  /\ \A b \in Volume : OnShelf(b)' /\ i \in asked'[b] =>
                       task'[e].next = "number" /\ task'[e].book = b
             /\ Adding(i)' = {} =>
                  \A b \in Volume : OnShelf(b)' /\ i \in asked'[b] => isbns'[i] = b
  <2>1. /\ i \in Number \ blurred /\ i # None
        /\ \A e, f \in Adding(i) : e = f
        /\ \A e \in Adding(i) :
             /\ isbns[i] = 0
             /\ \A b \in Volume : OnShelf(b) /\ i \in asked[b] =>
                  task[e].next = "number" /\ task[e].book = b
        /\ Adding(i) = {} => \A b \in Volume : OnShelf(b) /\ i \in asked[b] => isbns[i] = b
    BY <1>1, CatalogueAssumption DEF CatalogueInv, NumbersAreTaken
  <2>2. d \notin Adding(i) /\ \A b \in Volume : OnShelf(b)' <=> OnShelf(b)
    BY <1>1, <2>1, IdleType DEF Adding, OnShelf
  <2>3. CASE i # n
    <3>1. Adding(i)' = Adding(i)
      BY <1>2, <1>3, <2>2, <2>3 DEF Adding
    <3> QED
      BY <1>1, <1>3, <2>1, <2>2, <3>1
  <2>4. CASE i = n
    <3>1. Adding(i) = {} /\ isbns[i] = 0
      BY <1>1, <2>1, <2>4
    <3>2. Adding(i)' = {d}
      BY <1>2, <1>3, <2>4, <3>1 DEF Adding
    <3>3. \A b \in Volume : ~(OnShelf(b) /\ i \in asked[b])
      BY <2>1, <3>1, CatalogueAssumption DEF Volume
    <3> QED
      BY <1>1, <2>2, <3>1, <3>2, <3>3
  <2> QED
    BY <2>3, <2>4
<1>9. NumbersAreTaken'
  BY <1>1, <1>8 DEF CatalogueInv, NumbersAreTaken
<1>10. SearchFindsBooks'
  BY <1>1 DEF CatalogueInv, SearchFindsBooks, OnShelf
<1> QED
  BY <1>4, <1>5, <1>6, <1>7, <1>9, <1>10 DEF CatalogueInv

\* create_book makes the row that has the ISBN.
LEMMA AddWritesRowStep ==
  ASSUME CatalogueInv, NEW d \in Desk, NEW b \in Volume, AddWritesRow(d, b)
  PROVE  CatalogueInv'
<1> DEFINE row == Row(task[d].title, {}, {task[d].title})
           new == [task[d] EXCEPT !.book = b,
                     !.next = IF task[d].number # None THEN "number" ELSE "author"]
<1>1. /\ task[d].next = "row" /\ volume[b] = Unwritten
      /\ volume' = [volume EXCEPT ![b] = row] /\ task' = [task EXCEPT ![d] = new]
      /\ asked' = [asked EXCEPT ![b] = {task[d].number} \cap Number]
      /\ UNCHANGED <<isbns, works, blurred, doubled, unindexed>>
  BY DEF AddWritesRow, IsNext
<1>2. /\ task[d] \in TaskRecord /\ volume[b].is = "gone" /\ asked[b] = {}
      /\ task[d].title \in Heading
  BY <1>1 DEF CatalogueInv, CatalogueTypes, TasksHaveRows, NumbersAreTaken, Unwritten
<1>3. /\ row \in VolumeRecord /\ row.is = "live" /\ row.work = 0
      /\ row.text = Words(row)
  BY <1>2, CatalogueAssumption DEF Row, VolumeRecord, Words
<1>4. /\ new \in TaskRecord /\ new.book = b /\ new.number = task[d].number
      /\ new.next = IF task[d].number # None THEN "number" ELSE "author"
  <2> DEFINE nx == IF task[d].number # None THEN "number" ELSE "author"
  <2>1. nx \in {"number", "author"} /\ b \in 0 .. MaxVolumes
    BY CatalogueAssumption DEF Volume
  <2> HIDE DEF nx
  <2>2. /\ [task[d] EXCEPT !.book = b, !.next = nx] \in TaskRecord
        /\ [task[d] EXCEPT !.book = b, !.next = nx].book = b
        /\ [task[d] EXCEPT !.book = b, !.next = nx].number = task[d].number
        /\ [task[d] EXCEPT !.book = b, !.next = nx].next = nx
    BY <1>2, <2>1 DEF TaskRecord
  <2> QED
    BY <2>2 DEF nx
<1> HIDE DEF row, new
<1>5. /\ volume' \in [Volume -> VolumeRecord] /\ volume'[b] = row
      /\ \A c \in Volume \ {b} : volume'[c] = volume[c]
  BY <1>1, <1>3, RowWrite
<1>6. /\ task' \in [Desk -> TaskRecord] /\ task'[d] = new
      /\ \A e \in Desk \ {d} : task'[e] = task[e]
  BY <1>1, <1>4, TaskWrite
<1>7. CatalogueTypes'
  BY <1>1, <1>5, <1>6 DEF CatalogueInv, CatalogueTypes
<1>8. TasksHaveRows'
  BY <1>1, <1>3, <1>4, <1>5, <1>6 DEF CatalogueInv, TasksHaveRows
<1>9. RowsHaveWorks'
  BY <1>1, <1>3, <1>4, <1>5, <1>6 DEF CatalogueInv, RowsHaveWorks
<1>10. WorksAreMadeOnce'
  BY <1>1, <1>4, <1>6 DEF CatalogueInv, WorksAreMadeOnce
<1>11. ASSUME NEW i \in Number \ blurred'
       PROVE  /\ \A e, f \in Adding(i)' : e = f
              /\ \A e \in Adding(i)' :
                   /\ isbns'[i] = 0
                   /\ \A c \in Volume : OnShelf(c)' /\ i \in asked'[c] =>
                        task'[e].next = "number" /\ task'[e].book = c
              /\ Adding(i)' = {} =>
                   \A c \in Volume : OnShelf(c)' /\ i \in asked'[c] => isbns'[i] = c
  <2>1. /\ i \in Number \ blurred /\ i # None
        /\ \A e, f \in Adding(i) : e = f
        /\ \A e \in Adding(i) :
             /\ isbns[i] = 0
             /\ \A c \in Volume : OnShelf(c) /\ i \in asked[c] =>
                  task[e].next = "number" /\ task[e].book = c
        /\ Adding(i) = {} => \A c \in Volume : OnShelf(c) /\ i \in asked[c] => isbns[i] = c
    BY <1>1, CatalogueAssumption DEF CatalogueInv, NumbersAreTaken
  <2>2. /\ Adding(i)' = Adding(i)
        /\ \A c \in Volume \ {b} : (OnShelf(c)' <=> OnShelf(c)) /\ asked'[c] = asked[c]
        /\ asked'[b] = {task[d].number} \cap Number
    BY <1>1, <1>4, <1>5, <1>6 DEF Adding, OnShelf, CatalogueInv, CatalogueTypes
  <2>3. CASE task[d].number = i
    <3>1. /\ Adding(i) = {d} /\ task'[d].next = "number" /\ task'[d].book = b
          /\ \A c \in Volume : ~(OnShelf(c) /\ i \in asked[c])
      BY <1>1, <1>4, <1>6, <2>1, <2>3 DEF Adding
    <3> QED
      BY <1>1, <2>1, <2>2, <3>1
  <2>4. CASE task[d].number # i
    <3>1. /\ i \notin asked'[b] /\ d \notin Adding(i)
          /\ \A e \in Adding(i) : task'[e] = task[e]
      BY <1>6, <2>2, <2>4 DEF Adding
    <3> QED
      BY <1>1, <2>1, <2>2, <3>1
  <2> QED
    BY <2>3, <2>4
<1>12. NumbersAreTaken'
  <2>1. \A n \in Number : isbns'[n] # 0 => volume'[isbns'[n]].is \in {"live", "dead"}
    <3> SUFFICES ASSUME NEW n \in Number, isbns[n] # 0
                 PROVE  volume'[isbns[n]].is \in {"live", "dead"}
      BY <1>1
    <3>1. isbns[n] \in Volume /\ volume[isbns[n]].is \in {"live", "dead"}
      BY CatalogueAssumption DEF CatalogueInv, CatalogueTypes, NumbersAreTaken, Volume
    <3> QED
      BY <1>2, <1>5, <3>1
  <2>2. \A c \in Volume : volume'[c].is = "gone" => asked'[c] = {}
    BY <1>1, <1>3, <1>5 DEF CatalogueInv, CatalogueTypes, NumbersAreTaken
  <2> QED
    BY <1>11, <2>1, <2>2 DEF NumbersAreTaken
<1>13. SearchFindsBooks'
  BY <1>1, <1>3, <1>5 DEF CatalogueInv, SearchFindsBooks, OnShelf, Words
<1> QED
  BY <1>7, <1>8, <1>9, <1>10, <1>12, <1>13 DEF CatalogueInv

\* add_isbn gives the ISBN to the book, if the book is still there.
LEMMA AddWritesNumberStep ==
  ASSUME CatalogueInv, NEW d \in Desk, AddWritesNumber(d)
  PROVE  CatalogueInv'
<1> DEFINE n == task[d].number
           b == task[d].book
<1>1. /\ task[d].next = "number" /\ task[d] \in TaskRecord
      /\ UNCHANGED <<volume, works, asked, blurred, doubled, unindexed>>
  BY DEF AddWritesNumber, CatalogueInv, CatalogueTypes
<1>2. /\ n \in Number /\ n # None /\ b \in Volume /\ b # 0 /\ volume[b].is # "gone"
      /\ isbns[n] \in 0 .. MaxVolumes
  <2>1. n # None /\ n \in Number \cup {None} /\ b \in Volume /\ volume[b].is # "gone"
    BY <1>1 DEF CatalogueInv, TasksHaveRows, TaskRecord
  <2> QED
    BY <2>1 DEF CatalogueInv, CatalogueTypes, Volume
<1>3. CASE volume[b].is = "removed"
  <2>1. task' = [task EXCEPT ![d] = Idle] /\ UNCHANGED isbns
    BY <1>3 DEF AddWritesNumber
  <2>2. /\ task' \in [Desk -> TaskRecord] /\ task'[d] = Idle
        /\ \A e \in Desk \ {d} : task'[e] = task[e]
    BY <2>1, TaskEnds
  <2>3. CatalogueTypes'
    BY <1>1, <2>1, <2>2 DEF CatalogueInv, CatalogueTypes
  <2>4. TasksHaveRows' /\ RowsHaveWorks' /\ WorksAreMadeOnce'
    BY <1>1, <2>2, Settles DEF CatalogueInv, RowsHaveWorks
  <2>5. ASSUME NEW i \in Number \ blurred'
        PROVE  /\ \A e, f \in Adding(i)' : e = f
               /\ \A e \in Adding(i)' :
                    /\ isbns'[i] = 0
                    /\ \A c \in Volume : OnShelf(c)' /\ i \in asked'[c] =>
                         task'[e].next = "number" /\ task'[e].book = c
               /\ Adding(i)' = {} =>
                    \A c \in Volume : OnShelf(c)' /\ i \in asked'[c] => isbns'[i] = c
    <3>1. /\ i \in Number \ blurred /\ i # None
          /\ \A e, f \in Adding(i) : e = f
          /\ \A e \in Adding(i) :
               /\ isbns[i] = 0
               /\ \A c \in Volume : OnShelf(c) /\ i \in asked[c] =>
                    task[e].next = "number" /\ task[e].book = c
          /\ Adding(i) = {} => \A c \in Volume : OnShelf(c) /\ i \in asked[c] => isbns[i] = c
      BY <1>1, CatalogueAssumption DEF CatalogueInv, NumbersAreTaken
    <3>2. Adding(i)' = Adding(i) \ {d} /\ \A c \in Volume : OnShelf(c)' <=> OnShelf(c)
      BY <1>1, <2>2, <3>1, IdleType DEF Adding, OnShelf
    <3>3. CASE i = n
      <4>1. Adding(i) = {d} /\ \A c \in Volume : ~(OnShelf(c) /\ i \in asked[c])
        BY <1>3, <3>1, <3>3 DEF Adding, OnShelf
      <4> QED
        BY <1>1, <2>1, <3>2, <4>1
    <3>4. CASE i # n
      <4>1. d \notin Adding(i) /\ \A e \in Adding(i) : task'[e] = task[e]
        BY <2>2, <3>4 DEF Adding
      <4> QED
        BY <1>1, <2>1, <3>1, <3>2, <4>1
    <3> QED
      BY <3>3, <3>4
  <2>6. NumbersAreTaken'
    BY <1>1, <2>1, <2>5 DEF CatalogueInv, NumbersAreTaken
  <2>7. SearchFindsBooks'
    BY <1>1 DEF CatalogueInv, SearchFindsBooks, OnShelf
  <2> QED
    BY <2>3, <2>4, <2>6, <2>7 DEF CatalogueInv
<1>4. CASE volume[b].is # "removed"
  <2> DEFINE new == [task[d] EXCEPT !.next = "author", !.number = None]
  <2>1. /\ isbns' = [isbns EXCEPT ![n] = IF isbns[n] = 0 THEN b ELSE isbns[n]]
        /\ task' = [task EXCEPT ![d] = new]
    BY <1>4 DEF AddWritesNumber
  <2>2. new \in TaskRecord /\ new.next = "author" /\ new.number = None /\ new.book = b
    BY <1>1 DEF TaskRecord
  <2> HIDE DEF new
  <2>3. /\ task' \in [Desk -> TaskRecord] /\ task'[d] = new
        /\ \A e \in Desk \ {d} : task'[e] = task[e]
    BY <2>1, <2>2, TaskWrite
  <2>4. /\ isbns' \in [Number -> 0 .. MaxVolumes]
        /\ isbns'[n] = (IF isbns[n] = 0 THEN b ELSE isbns[n])
        /\ \A i \in Number \ {n} : isbns'[i] = isbns[i]
    BY <1>2, <2>1 DEF CatalogueInv, CatalogueTypes, Volume
  <2>5. CatalogueTypes'
    BY <1>1, <2>3, <2>4 DEF CatalogueInv, CatalogueTypes
  <2>6. TasksHaveRows'
    BY <1>1, <1>2, <2>2, <2>3 DEF CatalogueInv, TasksHaveRows
  <2>7. RowsHaveWorks'
    BY <1>1, <2>2, <2>3 DEF CatalogueInv, RowsHaveWorks
  <2>8. WorksAreMadeOnce'
    BY <1>1, <2>2, <2>3 DEF CatalogueInv, WorksAreMadeOnce
  <2>9. volume[b].is \in {"live", "dead"}
    BY <1>2, <1>4 DEF CatalogueInv, CatalogueTypes, VolumeRecord
  <2>10. \A i \in Number : isbns'[i] # 0 => volume'[isbns'[i]].is \in {"live", "dead"}
    BY <1>1, <1>2, <2>4, <2>9 DEF CatalogueInv, NumbersAreTaken
  <2>11. ASSUME NEW i \in Number \ blurred'
         PROVE  /\ \A e, f \in Adding(i)' : e = f
                /\ \A e \in Adding(i)' :
                     /\ isbns'[i] = 0
                     /\ \A c \in Volume : OnShelf(c)' /\ i \in asked'[c] =>
                          task'[e].next = "number" /\ task'[e].book = c
                /\ Adding(i)' = {} =>
                     \A c \in Volume : OnShelf(c)' /\ i \in asked'[c] => isbns'[i] = c
    <3>1. /\ i \in Number \ blurred /\ i # None
          /\ \A e, f \in Adding(i) : e = f
          /\ \A e \in Adding(i) :
               /\ isbns[i] = 0
               /\ \A c \in Volume : OnShelf(c) /\ i \in asked[c] =>
                    task[e].next = "number" /\ task[e].book = c
          /\ Adding(i) = {} => \A c \in Volume : OnShelf(c) /\ i \in asked[c] => isbns[i] = c
      BY <1>1, CatalogueAssumption DEF CatalogueInv, NumbersAreTaken
    <3>2. Adding(i)' = Adding(i) \ {d} /\ \A c \in Volume : OnShelf(c)' <=> OnShelf(c)
      BY <1>1, <2>2, <2>3, <3>1 DEF Adding, OnShelf
    <3>3. CASE i = n
      <4>1. Adding(i) = {d} /\ isbns'[i] = b /\ \A c \in Volume : OnShelf(c) /\ i \in asked[c] => c = b
        BY <2>4, <3>1, <3>3 DEF Adding
      <4> QED
        BY <1>1, <3>2, <4>1
    <3>4. CASE i # n
      <4>1. isbns'[i] = isbns[i] /\ d \notin Adding(i) /\ \A e \in Adding(i) : task'[e] = task[e]
        BY <2>3, <2>4, <3>4 DEF Adding
      <4> QED
        BY <1>1, <3>1, <3>2, <4>1
    <3> QED
      BY <3>3, <3>4
  <2>12. NumbersAreTaken'
    BY <1>1, <2>10, <2>11 DEF CatalogueInv, NumbersAreTaken
  <2>13. SearchFindsBooks'
    BY <1>1 DEF CatalogueInv, SearchFindsBooks, OnShelf
  <2> QED
    BY <2>5, <2>6, <2>7, <2>8, <2>12, <2>13 DEF CatalogueInv
<1> QED
  BY <1>3, <1>4

\* A step that writes one row of books and begins nothing.
LEMMA RowStep ==
  ASSUME CatalogueInv, NEW b \in Volume, NEW v \in VolumeRecord,
         volume' = [volume EXCEPT ![b] = v],
         UNCHANGED <<isbns, works, asked, doubled>>, blurred \subseteq blurred',
         task' \in [Desk -> TaskRecord],
         \A e \in Desk : \/ task'[e] = task[e]
                         \/ task'[e] = Idle /\ task[e].number \in blurred' \cup {None},
         \/ v.is = volume[b].is
         \/ volume[b].is = "live" /\ v.is = "dead"
         \/ volume[b].is = "gone" /\ v.is = "live",
         v.work # 0 => works[v.work] # None,
         v.is = "live" /\ b \notin unindexed' => v.text = Words(v),
         \A c \in Volume \ {b} : c \in unindexed => c \in unindexed'
  PROVE  CatalogueInv'
<1>1. /\ volume' \in [Volume -> VolumeRecord] /\ volume'[b] = v
      /\ \A c \in Volume \ {b} : volume'[c] = volume[c]
  BY RowWrite
<1>2. CatalogueTypes'
  BY <1>1 DEF CatalogueInv, CatalogueTypes
<1>3. TasksHaveRows' /\ RowsHaveWorks' /\ WorksAreMadeOnce'
  BY <1>1, Settles DEF CatalogueInv, RowsHaveWorks
<1>4. NumbersAreTaken'
  BY <1>1, NumbersKeep, IdleType
<1>5. SearchFindsBooks'
  BY <1>1 DEF CatalogueInv, SearchFindsBooks, OnShelf
<1> QED
  BY <1>2, <1>3, <1>4, <1>5 DEF CatalogueInv

\* add_book_author, and the words of the author.
LEMMA AddWritesAuthorStep ==
  ASSUME CatalogueInv, NEW d \in Desk, AddWritesAuthor(d)
  PROVE  CatalogueInv'
<1> DEFINE b == task[d].book
<1>1. /\ task[d].next = "author" /\ task' = [task EXCEPT ![d] = Idle] /\ task[d] \in TaskRecord
      /\ b \in Volume /\ volume[b].is # "gone" /\ volume[b] \in VolumeRecord
      /\ task[d].number = None
      /\ UNCHANGED <<isbns, works, asked, blurred, doubled>>
  BY DEF AddWritesAuthor, CatalogueInv, CatalogueTypes, TasksHaveRows
<1>2. PICK v \in VolumeRecord :
        /\ volume' = [volume EXCEPT ![b] = v] /\ v.is = volume[b].is /\ v.work = volume[b].work
        /\ v.is = "live" /\ b \notin unindexed' => v.text = Words(v)
        /\ \A c \in Volume \ {b} : c \in unindexed' <=> c \in unindexed
  <2>1. CASE task[d].by = {} \/ volume[b].is = "removed"
    <3>1. volume' = [volume EXCEPT ![b] = volume[b]] /\ unindexed' = unindexed
      BY <1>1, <2>1 DEF AddWritesAuthor, CatalogueInv, CatalogueTypes
    <3>2. volume[b].is = "live" /\ b \notin unindexed => volume[b].text = Words(volume[b])
      BY <1>1 DEF CatalogueInv, SearchFindsBooks, OnShelf
    <3> QED
      BY <1>1, <3>1, <3>2
  <2>2. CASE ~(task[d].by = {} \/ volume[b].is = "removed")
    <3> DEFINE r == [volume[b] EXCEPT !.by = task[d].by]
    <3>1. volume' = [volume EXCEPT ![b] = Refresh(b, r)] /\ unindexed' = Refreshed(b)
      BY <2>2 DEF AddWritesAuthor
    <3>2. r \in VolumeRecord /\ r.is = volume[b].is /\ r.work = volume[b].work
      BY <1>1 DEF VolumeRecord, TaskRecord
    <3> HIDE DEF r
    <3>3. Refresh(b, r) \in VolumeRecord /\ Refresh(b, r).is = r.is /\ Refresh(b, r).work = r.work
          /\ (r.is = "live" => Refresh(b, r).text = Words(Refresh(b, r)))
      BY <3>2 DEF Refresh, VolumeRecord, Words
    <3>4. /\ r.is = "live" /\ b \notin Refreshed(b) => Refresh(b, r).text = Words(Refresh(b, r))
          /\ \A c \in Volume \ {b} : c \in Refreshed(b) <=> c \in unindexed
      BY <3>3 DEF Refreshed
    <3> QED
      BY <3>1, <3>2, <3>3, <3>4
  <2> QED
    BY <2>1, <2>2
<1>3. /\ task' \in [Desk -> TaskRecord]
      /\ \A e \in Desk : \/ task'[e] = task[e]
                         \/ task'[e] = Idle /\ task[e].number \in blurred' \cup {None}
  <2>1. /\ task' \in [Desk -> TaskRecord] /\ task'[d] = Idle
        /\ \A e \in Desk \ {d} : task'[e] = task[e]
    BY <1>1, TaskEnds
  <2>2. \A e \in Desk : task'[e] = task[e] \/ (task'[e] = Idle /\ task[e].number = None)
    BY <1>1, <2>1
  <2> QED
    BY <2>1, <2>2
<1>4. v.work # 0 => works[v.work] # None
  BY <1>1, <1>2 DEF CatalogueInv, RowsHaveWorks
<1> QED
  BY <1>1, <1>2, <1>3, <1>4, RowStep

\* The books that a merge leaves have the ISBNs of both.
LEMMA MergeVolumesStep ==
  ASSUME CatalogueInv, NEW d \in Desk, NEW b \in Volume, NEW gone \in Volume,
         MergeVolumes(d, b, gone)
  PROVE  CatalogueInv'
<1> DEFINE kept == [volume[b] EXCEPT !.by = volume[b].by \cup volume[gone].by,
                      !.work = IF volume[b].work = 0 THEN volume[gone].work ELSE volume[b].work]
           left == Removed(volume[gone])
           new == [Idle EXCEPT !.next = "refresh", !.book = b]
<1>1. /\ task[d] = Idle /\ b # gone /\ OnShelf(b) /\ OnShelf(gone)
      /\ isbns' = [n \in Number |-> IF isbns[n] = gone THEN b ELSE isbns[n]]
      /\ blurred' = blurred \cup {n \in Number : \E e \in Adding(n) : task[e].book = gone}
      /\ unindexed' = unindexed \cup {b}
      /\ task' = [task EXCEPT ![d] = new]
      /\ UNCHANGED <<works, doubled>>
  BY DEF MergeVolumes, Inherited
<1>2. volume[b] \in VolumeRecord /\ volume[gone] \in VolumeRecord
  BY DEF CatalogueInv, CatalogueTypes
<1>3. kept \in VolumeRecord /\ kept.is = "live" /\ kept.work \in {volume[b].work, volume[gone].work}
  BY <1>1, <1>2 DEF VolumeRecord, OnShelf
<1>4. left \in VolumeRecord /\ left.is = "removed" /\ left.work = volume[gone].work
  <2>1. left = [volume[gone] EXCEPT !.is = "removed"]
    BY DEF Removed
  <2> QED
    BY <1>2, <2>1 DEF VolumeRecord
<1>5. new \in TaskRecord /\ new.next = "refresh" /\ new.number = None /\ new.book = b
  <2>1. b \in 0 .. MaxVolumes
    BY CatalogueAssumption DEF Volume
  <2> QED
    BY <2>1, IdleType DEF TaskRecord
<1> HIDE DEF kept, left, new
<1>6. /\ volume' \in [Volume -> VolumeRecord] /\ volume'[b] = kept /\ volume'[gone] = left
      /\ \A c \in Volume \ {b, gone} : volume'[c] = volume[c]
  <2>1. volume \in [Volume -> VolumeRecord] /\ b # gone
    BY <1>1 DEF CatalogueInv, CatalogueTypes
  <2>2. volume' = [[volume EXCEPT ![gone] = left] EXCEPT ![b] = kept]
    BY <2>1 DEF MergeVolumes, kept, left
  <2> QED
    BY <1>3, <1>4, <2>1, <2>2
<1>7. /\ task' \in [Desk -> TaskRecord] /\ task'[d] = new
      /\ \A e \in Desk \ {d} : task'[e] = task[e]
  BY <1>1, <1>5, TaskWrite
<1>8. /\ isbns' \in [Number -> 0 .. MaxVolumes] /\ asked' \in [Volume -> SUBSET Number]
      /\ asked'[b] = asked[b] \cup asked[gone] /\ asked'[gone] = {}
      /\ \A c \in Volume \ {b, gone} : asked'[c] = asked[c]
  <2>1. asked \in [Volume -> SUBSET Number] /\ isbns \in [Number -> 0 .. MaxVolumes] /\ b # gone
    BY <1>1 DEF CatalogueInv, CatalogueTypes
  <2>2. asked' = [[asked EXCEPT ![b] = asked[b] \cup asked[gone]] EXCEPT ![gone] = {}]
    BY <2>1 DEF MergeVolumes
  <2> QED
    BY <1>1, <2>1, <2>2 DEF Volume
<1>9. CatalogueTypes'
  BY <1>1, <1>6, <1>7, <1>8 DEF CatalogueInv, CatalogueTypes
<1>10. TasksHaveRows'
  BY <1>1, <1>3, <1>4, <1>5, <1>6, <1>7 DEF CatalogueInv, TasksHaveRows
<1>11. RowsHaveWorks'
  BY <1>1, <1>3, <1>4, <1>5, <1>6, <1>7 DEF CatalogueInv, RowsHaveWorks
<1>12. WorksAreMadeOnce'
  BY <1>1, <1>5, <1>7 DEF CatalogueInv, WorksAreMadeOnce
<1>13. \A n \in Number : isbns'[n] # 0 => volume'[isbns'[n]].is \in {"live", "dead"}
  <2> SUFFICES ASSUME NEW n \in Number, isbns'[n] # 0
               PROVE  volume'[isbns'[n]].is \in {"live", "dead"}
    OBVIOUS
  <2>1. CASE isbns[n] = gone
    BY <1>1, <1>3, <1>6, <2>1
  <2>2. CASE isbns[n] # gone
    <3>1. isbns'[n] = isbns[n] /\ isbns[n] \in Volume /\ volume[isbns[n]].is \in {"live", "dead"}
      BY <1>1, <2>2, CatalogueAssumption DEF CatalogueInv, CatalogueTypes, NumbersAreTaken, Volume
    <3> QED
      BY <1>3, <1>6, <2>2, <3>1
  <2> QED
    BY <2>1, <2>2
<1>14. \A c \in Volume : volume'[c].is = "gone" => asked'[c] = {}
  BY <1>3, <1>6, <1>8 DEF CatalogueInv, NumbersAreTaken
<1>15. ASSUME NEW i \in Number \ blurred'
       PROVE  /\ \A e, f \in Adding(i)' : e = f
              /\ \A e \in Adding(i)' :
                   /\ isbns'[i] = 0
                   /\ \A c \in Volume : OnShelf(c)' /\ i \in asked'[c] =>
                        task'[e].next = "number" /\ task'[e].book = c
              /\ Adding(i)' = {} =>
                   \A c \in Volume : OnShelf(c)' /\ i \in asked'[c] => isbns'[i] = c
  <2>1. /\ i \in Number \ blurred /\ i # None
        /\ \A e, f \in Adding(i) : e = f
        /\ \A e \in Adding(i) :
             /\ isbns[i] = 0
             /\ \A c \in Volume : OnShelf(c) /\ i \in asked[c] =>
                  task[e].next = "number" /\ task[e].book = c
        /\ Adding(i) = {} => \A c \in Volume : OnShelf(c) /\ i \in asked[c] => isbns[i] = c
    BY <1>1, CatalogueAssumption DEF CatalogueInv, NumbersAreTaken
  <2>2. Adding(i)' = Adding(i) /\ \A e \in Adding(i) : task'[e] = task[e] /\ task[e].book # gone
    BY <1>1, <1>5, <1>7, <2>1, IdleType DEF Adding
  <2>3. \A c \in Volume : OnShelf(c)' /\ i \in asked'[c] =>
          \/ c # gone /\ OnShelf(c) /\ i \in asked[c]
          \/ c = b /\ i \in asked[gone]
    BY <1>1, <1>4, <1>6, <1>8 DEF OnShelf
  <2>4. CASE Adding(i) = {}
    BY <1>1, <2>1, <2>2, <2>3, <2>4
  <2>5. CASE Adding(i) # {}
    <3>1. i \notin asked[gone]
      BY <1>1, <2>1, <2>2, <2>5
    <3>2. isbns'[i] = 0
      BY <1>1, <2>1, <2>5 DEF Volume
    <3> QED
      BY <2>1, <2>2, <2>3, <2>5, <3>1, <3>2
  <2> QED
    BY <2>4, <2>5
<1>16. NumbersAreTaken'
  BY <1>13, <1>14, <1>15 DEF NumbersAreTaken
<1>17. SearchFindsBooks'
  BY <1>1, <1>4, <1>6 DEF CatalogueInv, SearchFindsBooks, OnShelf
<1> QED
  BY <1>9, <1>10, <1>11, <1>12, <1>16, <1>17 DEF CatalogueInv

\* The last statement of a merge.
LEMMA MergeRefreshesStep ==
  ASSUME CatalogueInv, NEW d \in Desk, MergeRefreshes(d)
  PROVE  CatalogueInv'
<1> DEFINE b == task[d].book
<1>1. /\ task[d].next = "refresh" /\ task' = [task EXCEPT ![d] = Idle]
      /\ b \in Volume /\ volume[b] \in VolumeRecord /\ task[d].number = None
      /\ volume' = [volume EXCEPT ![b] = Refresh(b, volume[b])] /\ unindexed' = Refreshed(b)
      /\ UNCHANGED <<isbns, works, asked, blurred, doubled>>
  BY DEF MergeRefreshes, CatalogueInv, CatalogueTypes, TasksHaveRows
<1>2. /\ Refresh(b, volume[b]) \in VolumeRecord
      /\ Refresh(b, volume[b]).is = volume[b].is /\ Refresh(b, volume[b]).work = volume[b].work
      /\ volume[b].is = "live" => Refresh(b, volume[b]).text = Words(Refresh(b, volume[b]))
  BY <1>1 DEF Refresh, VolumeRecord, Words
<1>3. \A c \in Volume \ {b} : c \in unindexed => c \in unindexed'
  BY <1>1 DEF Refreshed
<1>4. /\ task' \in [Desk -> TaskRecord]
      /\ \A e \in Desk : \/ task'[e] = task[e]
                         \/ task'[e] = Idle /\ task[e].number \in blurred' \cup {None}
  <2>1. /\ task' \in [Desk -> TaskRecord] /\ task'[d] = Idle
        /\ \A e \in Desk \ {d} : task'[e] = task[e]
    BY <1>1, TaskEnds
  <2>2. \A e \in Desk : task'[e] = task[e] \/ (task'[e] = Idle /\ task[e].number = None)
    BY <1>1, <2>1
  <2> QED
    BY <2>1, <2>2
<1>5. Refresh(b, volume[b]).work # 0 => works[Refresh(b, volume[b]).work] # None
  BY <1>1, <1>2 DEF CatalogueInv, RowsHaveWorks
<1> QED
  BY <1>1, <1>2, <1>3, <1>4, <1>5, RowStep

\* A tombstone.
LEMMA DeleteVolumeStep ==
  ASSUME CatalogueInv, NEW b \in Volume, DeleteVolume(b)
  PROVE  CatalogueInv'
<1> DEFINE v == [volume[b] EXCEPT !.is = "dead"]
<1>1. /\ volume[b].is = "live" /\ volume[b] \in VolumeRecord /\ task \in [Desk -> TaskRecord]
      /\ volume' = [volume EXCEPT ![b] = v]
      /\ UNCHANGED <<isbns, works, task, asked, blurred, doubled, unindexed>>
  BY DEF DeleteVolume, OnShelf, CatalogueInv, CatalogueTypes
<1>2. v \in VolumeRecord /\ v.is = "dead" /\ v.work = volume[b].work
  BY <1>1 DEF VolumeRecord
<1>3. v.work # 0 => works[v.work] # None
  BY <1>2 DEF CatalogueInv, RowsHaveWorks
<1> QED
  BY <1>1, <1>2, <1>3, RowStep

\* purge_tombstones removes the rows, and the ISBNs with them.
LEMMA PurgeVolumesStep ==
  ASSUME CatalogueInv, PurgeVolumes
  PROVE  CatalogueInv'
<1> DEFINE dead == {b \in Volume : volume[b].is = "dead"}
<1>1. /\ volume' = [b \in Volume |-> IF b \in dead THEN Removed(volume[b]) ELSE volume[b]]
      /\ isbns' = [n \in Number |-> IF isbns[n] \in dead THEN 0 ELSE isbns[n]]
      /\ UNCHANGED <<works, task, asked, blurred, doubled, unindexed>>
  BY DEF PurgeVolumes
<1>2. ASSUME NEW b \in Volume
      PROVE  /\ volume'[b] \in VolumeRecord /\ volume'[b].work = volume[b].work
             /\ IF volume[b].is = "dead" THEN volume'[b].is = "removed" ELSE volume'[b] = volume[b]
  <2>1. volume[b] \in VolumeRecord
    BY DEF CatalogueInv, CatalogueTypes
  <2>2. /\ Removed(volume[b]) \in VolumeRecord /\ Removed(volume[b]).is = "removed"
        /\ Removed(volume[b]).work = volume[b].work
    BY <2>1 DEF Removed, VolumeRecord
  <2> QED
    BY <1>1, <2>1, <2>2
<1>3. volume' \in [Volume -> VolumeRecord] /\ isbns' \in [Number -> 0 .. MaxVolumes]
  BY <1>1, <1>2, CatalogueAssumption DEF CatalogueInv, CatalogueTypes
<1>4. CatalogueTypes'
  BY <1>1, <1>3 DEF CatalogueInv, CatalogueTypes
<1>5. TasksHaveRows' /\ RowsHaveWorks' /\ WorksAreMadeOnce'
  BY <1>1, <1>2, Settles DEF CatalogueInv, RowsHaveWorks
<1>6. \A n \in Number : isbns'[n] # 0 => volume'[isbns'[n]].is \in {"live", "dead"}
  <2> SUFFICES ASSUME NEW n \in Number, isbns'[n] # 0
               PROVE  volume'[isbns'[n]].is \in {"live", "dead"}
    OBVIOUS
  <2>1. isbns'[n] = isbns[n] /\ isbns[n] \notin dead
    BY <1>1
  <2>2. isbns[n] \in Volume /\ volume[isbns[n]].is \in {"live", "dead"}
    BY <2>1, CatalogueAssumption DEF CatalogueInv, CatalogueTypes, NumbersAreTaken, Volume
  <2> QED
    BY <1>2, <2>1, <2>2
<1>7. NumbersAreTaken'
  <2>1. \A b \in Volume : (OnShelf(b)' <=> OnShelf(b)) /\ (volume'[b].is = "gone" => volume[b].is = "gone")
    BY <1>2 DEF OnShelf
  <2>2. \A n \in Number : /\ Adding(n)' = Adding(n) /\ (isbns[n] = 0 => isbns'[n] = 0)
                         /\ \A b \in Volume : OnShelf(b) /\ isbns[n] = b => isbns'[n] = b
    BY <1>1 DEF Adding, OnShelf
  <2> QED
    BY <1>1, <1>6, <2>1, <2>2 DEF CatalogueInv, NumbersAreTaken
<1>8. SearchFindsBooks'
  BY <1>1, <1>2 DEF CatalogueInv, SearchFindsBooks, OnShelf
<1> QED
  BY <1>4, <1>5, <1>7, <1>8 DEF CatalogueInv

\* toku work reads what there is: no work of the title, or one to link to.
LEMMA LinkFindsStep ==
  ASSUME CatalogueInv, NEW d \in Desk, NEW b \in Volume, NEW t \in Heading, LinkFinds(d, b, t)
  PROVE  CatalogueInv'
<1> DEFINE found == {w \in DOMAIN works : works[w] = t}
<1>1. /\ task[d] = Idle /\ OnShelf(b) /\ volume[b] \in VolumeRecord /\ b \in 0 .. MaxVolumes
      /\ UNCHANGED <<volume, isbns, works, asked, blurred, unindexed>>
  <2>1. /\ task[d] = Idle /\ OnShelf(b)
        /\ UNCHANGED <<volume, isbns, works, asked, blurred, unindexed>>
    BY DEF LinkFinds
  <2>2. volume[b] \in VolumeRecord /\ b \in 0 .. MaxVolumes
    BY CatalogueAssumption DEF CatalogueInv, CatalogueTypes, Volume
  <2> QED
    BY <2>1, <2>2
<1>2. PICK new \in TaskRecord :
        /\ task' = [task EXCEPT ![d] = new] /\ new.number = None /\ new.book = b
        /\ \/ /\ found = {} /\ new.next = "work" /\ new.title = t
              /\ doubled' = IF \E e \in Desk : task[e].next = "work" /\ task[e].title = t
                            THEN doubled \cup {t} ELSE doubled
           \/ /\ new.next = "link" /\ new.work \in found /\ doubled' = doubled
  <2>1. CASE found = {}
    <3> DEFINE n == [Idle EXCEPT !.next = "work", !.title = t, !.book = b, !.work = volume[b].work]
    <3>1. /\ task' = [task EXCEPT ![d] = n]
          /\ doubled' = IF \E e \in Desk : task[e].next = "work" /\ task[e].title = t
                        THEN doubled \cup {t} ELSE doubled
      BY <2>1 DEF LinkFinds
    <3>2. volume[b].work \in 0 .. MaxWorks
      BY <1>1 DEF VolumeRecord
    <3>3. n \in TaskRecord /\ n.next = "work" /\ n.title = t /\ n.number = None /\ n.book = b
      BY <1>1, <3>2, IdleType DEF TaskRecord
    <3> HIDE DEF n
    <3> QED
      BY <2>1, <3>1, <3>3
  <2>2. CASE found # {}
    <3>1. PICK w \in found : task' = [task EXCEPT ![d] = [Idle EXCEPT !.next = "link", !.book = b, !.work = w]]
      BY <2>2 DEF LinkFinds
    <3> DEFINE n == [Idle EXCEPT !.next = "link", !.book = b, !.work = w]
    <3>2. w \in 0 .. MaxWorks
      BY CatalogueAssumption DEF CatalogueInv, CatalogueTypes
    <3>3. n \in TaskRecord /\ n.next = "link" /\ n.work = w /\ n.number = None /\ n.book = b
      BY <1>1, <3>2, IdleType DEF TaskRecord
    <3>4. doubled' = doubled
      BY <2>2 DEF LinkFinds
    <3> HIDE DEF n
    <3> QED
      BY <3>1, <3>3, <3>4 DEF n
  <2> QED
    BY <2>1, <2>2
<1>3. /\ task' \in [Desk -> TaskRecord] /\ task'[d] = new
      /\ \A e \in Desk \ {d} : task'[e] = task[e]
  BY <1>2, TaskWrite
<1>4. CatalogueTypes'
  BY <1>1, <1>3 DEF CatalogueInv, CatalogueTypes
<1>5. TasksHaveRows'
  BY <1>1, <1>2, <1>3 DEF CatalogueInv, TasksHaveRows, OnShelf
<1>6. RowsHaveWorks'
  <2>1. new.next = "link" => new.work # 0 /\ works[new.work] # None
    BY <1>2, CatalogueAssumption DEF CatalogueInv, CatalogueTypes
  <2> QED
    BY <1>1, <1>3, <2>1 DEF CatalogueInv, RowsHaveWorks
<1>7. WorksAreMadeOnce'
  <2>1. doubled \subseteq doubled'
    BY <1>2
  <2>2. \A v, w \in DOMAIN works' : works'[v] = works'[w] => v = w \/ works'[v] \in doubled' \cup {None}
    BY <1>1, <2>1 DEF CatalogueInv, WorksAreMadeOnce
  <2>3. \A e \in Desk \ {d} : task'[e].next = "work" /\ task'[e].title \notin doubled' =>
          /\ \A w \in DOMAIN works : works[w] # task'[e].title
          /\ \A f \in Desk \ {d} : task'[f].next = "work" /\ task'[f].title = task'[e].title => f = e
    BY <1>3, <2>1 DEF CatalogueInv, WorksAreMadeOnce
  <2>4. CASE new.next = "work"
    <3>1. /\ found = {} /\ new.title = t
          /\ t \notin doubled' => \A e \in Desk : ~(task[e].next = "work" /\ task[e].title = t)
      BY <1>2, <2>4
    <3> QED
      BY <1>1, <1>3, <2>2, <2>3, <3>1 DEF WorksAreMadeOnce
  <2>5. CASE new.next # "work"
    BY <1>1, <1>3, <2>2, <2>3, <2>5 DEF WorksAreMadeOnce
  <2> QED
    BY <2>4, <2>5
<1>8. NumbersAreTaken'
  <2>1. \A e \in Desk : \/ /\ task'[e].number = task[e].number /\ task'[e].next = task[e].next
                           /\ task'[e].book = task[e].book
                        \/ task'[e].number = None /\ task[e].number \in blurred' \cup {None}
    BY <1>1, <1>2, <1>3, IdleType
  <2> QED
    BY <1>1, <2>1, NumbersKeep
<1>9. SearchFindsBooks'
  BY <1>1 DEF CatalogueInv, SearchFindsBooks, OnShelf
<1> QED
  BY <1>4, <1>5, <1>6, <1>7, <1>8, <1>9 DEF CatalogueInv

\* The work is made, and linked to unless the book has another.
LEMMA LinkMakesWorkStep ==
  ASSUME CatalogueInv, NEW d \in Desk, LinkMakesWork(d)
  PROVE  CatalogueInv'
<1> DEFINE t == task[d].title
<1>1. /\ task[d].next = "work" /\ task[d] \in TaskRecord /\ t \in Heading /\ t # None
      /\ task[d].number = None
      /\ task[d].book \in Volume /\ volume[task[d].book].is # "gone"
      /\ works \in [1 .. MaxWorks -> Heading \cup {None}]
      /\ UNCHANGED <<volume, isbns, asked, blurred, doubled, unindexed>>
  BY CatalogueAssumption DEF LinkMakesWork, CatalogueInv, CatalogueTypes, TasksHaveRows
<1>2. PICK w \in DOMAIN works :
        /\ works[w] = None /\ works' = [works EXCEPT ![w] = t]
        /\ task' = [task EXCEPT ![d] =
                      IF task[d].work # 0 THEN Idle
                      ELSE [Idle EXCEPT !.next = "link", !.book = task[d].book, !.work = w]]
  BY DEF LinkMakesWork
<1>3. PICK new \in TaskRecord :
        /\ task' = [task EXCEPT ![d] = new] /\ new.number = None
        /\ \/ new = Idle
           \/ new.next = "link" /\ new.work = w /\ new.book = task[d].book
  <2> DEFINE n == [Idle EXCEPT !.next = "link", !.book = task[d].book, !.work = w]
  <2>1. w \in 0 .. MaxWorks /\ task[d].book \in 0 .. MaxVolumes
    BY <1>1, CatalogueAssumption DEF TaskRecord
  <2>2. n \in TaskRecord /\ n.next = "link" /\ n.work = w /\ n.number = None /\ n.book = task[d].book
    BY <2>1, IdleType DEF TaskRecord
  <2> HIDE DEF n
  <2>3. CASE task[d].work # 0
    BY <1>2, <2>3, IdleType
  <2>4. CASE task[d].work = 0
    BY <1>2, <2>2, <2>4 DEF n
  <2> QED
    BY <2>3, <2>4
<1>4. /\ task' \in [Desk -> TaskRecord] /\ task'[d] = new /\ new.next # "work"
      /\ \A e \in Desk \ {d} : task'[e] = task[e]
  BY <1>3, TaskWrite, IdleType
<1>5. /\ works' \in [1 .. MaxWorks -> Heading \cup {None}] /\ works'[w] = t
      /\ \A v \in DOMAIN works : v # w => works'[v] = works[v]
  BY <1>1, <1>2
<1>6. CatalogueTypes'
  BY <1>1, <1>4, <1>5 DEF CatalogueInv, CatalogueTypes
<1>7. TasksHaveRows'
  BY <1>1, <1>3, <1>4, IdleType DEF CatalogueInv, TasksHaveRows
<1>8. RowsHaveWorks'
  <2>1. \A v \in 1 .. MaxWorks : works[v] # None => works'[v] # None
    BY <1>1, <1>2, <1>5
  <2>2. new.next = "link" => new.work # 0 /\ works'[new.work] # None
    BY <1>1, <1>3, <1>5, IdleType
  <2>3. \A b \in Volume : volume[b].work \in 0 .. MaxWorks
    BY DEF CatalogueInv, CatalogueTypes, VolumeRecord
  <2>4. \A e \in Desk : task[e].work \in 0 .. MaxWorks
    BY DEF CatalogueInv, CatalogueTypes, TaskRecord
  <2>5. \A b \in Volume : volume[b].work # 0 => works'[volume[b].work] # None
    BY <2>1, <2>3, CatalogueAssumption DEF CatalogueInv, RowsHaveWorks
  <2>6. \A e \in Desk \ {d} : task[e].next = "link" => task[e].work # 0 /\ works'[task[e].work] # None
    BY <2>1, <2>4, CatalogueAssumption DEF CatalogueInv, RowsHaveWorks
  <2> QED
    BY <1>1, <1>4, <2>2, <2>5, <2>6 DEF RowsHaveWorks
<1>9. WorksAreMadeOnce'
  <2>1. t \notin doubled =>
          /\ \A v \in DOMAIN works : works[v] # t
          /\ \A e \in Desk \ {d} : ~(task[e].next = "work" /\ task[e].title = t)
    BY <1>1 DEF CatalogueInv, WorksAreMadeOnce
  <2>2. ASSUME NEW v \in DOMAIN works', NEW u \in DOMAIN works', works'[v] = works'[u]
        PROVE  v = u \/ works'[v] \in doubled' \cup {None}
    <3>1. v \in DOMAIN works /\ u \in DOMAIN works /\ doubled' = doubled
      BY <1>1, <1>5
    <3>2. CASE v = w \/ u = w
      BY <1>5, <2>1, <2>2, <3>1, <3>2
    <3>3. CASE v # w /\ u # w
      BY <1>5, <2>2, <3>1, <3>3 DEF CatalogueInv, WorksAreMadeOnce
    <3> QED
      BY <3>2, <3>3
  <2>3. ASSUME NEW e \in Desk, task'[e].next = "work", task'[e].title \notin doubled'
        PROVE  /\ \A v \in DOMAIN works' : works'[v] # task'[e].title
               /\ \A f \in Desk : task'[f].next = "work" /\ task'[f].title = task'[e].title => f = e
    <3>1. e # d /\ task'[e] = task[e] /\ task[e].title \notin doubled
      BY <1>1, <1>4, <2>3
    <3>2. /\ \A v \in DOMAIN works : works[v] # task[e].title
          /\ \A f \in Desk : task[f].next = "work" /\ task[f].title = task[e].title => f = e
      BY <2>3, <3>1 DEF CatalogueInv, WorksAreMadeOnce
    <3>3. task[e].title # t
      BY <1>1, <3>1, <3>2
    <3> QED
      BY <1>1, <1>4, <1>5, <3>1, <3>2, <3>3
  <2> QED
    BY <2>2, <2>3 DEF WorksAreMadeOnce
<1>10. NumbersAreTaken'
  <2>1. \A e \in Desk : \/ /\ task'[e].number = task[e].number /\ task'[e].next = task[e].next
                           /\ task'[e].book = task[e].book
                        \/ task'[e].number = None /\ task[e].number \in blurred' \cup {None}
    BY <1>1, <1>3, <1>4
  <2> QED
    BY <1>1, <2>1, NumbersKeep
<1>11. SearchFindsBooks'
  BY <1>1 DEF CatalogueInv, SearchFindsBooks, OnShelf
<1> QED
  BY <1>6, <1>7, <1>8, <1>9, <1>10, <1>11 DEF CatalogueInv

\* The link is written, if the row is still there.
LEMMA LinkWritesStep ==
  ASSUME CatalogueInv, NEW d \in Desk, LinkWrites(d)
  PROVE  CatalogueInv'
<1> DEFINE b == task[d].book
           v == IF volume[b].is = "removed" THEN volume[b] ELSE [volume[b] EXCEPT !.work = task[d].work]
<1>1. /\ task[d].next = "link" /\ task' = [task EXCEPT ![d] = Idle]
      /\ b \in Volume /\ volume[b] \in VolumeRecord /\ task[d].number = None
      /\ task[d] \in TaskRecord /\ task[d].work # 0 /\ works[task[d].work] # None
      /\ volume' = [volume EXCEPT ![b] = v]
      /\ UNCHANGED <<isbns, works, asked, blurred, doubled, unindexed>>
  BY DEF LinkWrites, CatalogueInv, CatalogueTypes, TasksHaveRows, RowsHaveWorks
<1>2. v \in VolumeRecord /\ v.is = volume[b].is /\ v.text = volume[b].text /\ Words(v) = Words(volume[b])
  BY <1>1 DEF VolumeRecord, TaskRecord, Words
<1>3. v.work # 0 => works[v.work] # None
  BY <1>1 DEF CatalogueInv, RowsHaveWorks, VolumeRecord
<1> HIDE DEF v
<1>4. /\ task' \in [Desk -> TaskRecord]
      /\ \A e \in Desk : \/ task'[e] = task[e]
                         \/ task'[e] = Idle /\ task[e].number \in blurred' \cup {None}
  BY <1>1, TaskEnds
<1>5. v.is = "live" /\ b \notin unindexed' => v.text = Words(v)
  BY <1>1, <1>2 DEF CatalogueInv, SearchFindsBooks, OnShelf
<1> QED
  BY <1>1, <1>2, <1>3, <1>4, <1>5, RowStep

\* The book leaves its work.
LEMMA UnlinkVolumeStep ==
  ASSUME CatalogueInv, NEW b \in Volume, UnlinkVolume(b)
  PROVE  CatalogueInv'
<1> DEFINE v == [volume[b] EXCEPT !.work = 0]
<1>1. /\ volume[b].is = "live" /\ volume[b] \in VolumeRecord /\ task \in [Desk -> TaskRecord]
      /\ volume' = [volume EXCEPT ![b] = v]
      /\ UNCHANGED <<isbns, works, task, asked, blurred, doubled, unindexed>>
  BY DEF UnlinkVolume, OnShelf, CatalogueInv, CatalogueTypes
<1>2. 0 \in 0 .. MaxWorks
  BY CatalogueAssumption
<1>3. /\ v \in VolumeRecord /\ v.is = volume[b].is /\ v.work = 0
      /\ v.text = volume[b].text /\ Words(v) = Words(volume[b])
  BY <1>1, <1>2 DEF VolumeRecord, Words
<1> HIDE DEF v
<1>4. v.is = "live" /\ b \notin unindexed' => v.text = Words(v)
  BY <1>1, <1>3 DEF CatalogueInv, SearchFindsBooks, OnShelf
<1> QED
  BY <1>1, <1>3, <1>4, RowStep

\* A command dies; the ISBN it has not written is one of the exceptions.
LEMMA TaskDiesStep ==
  ASSUME CatalogueInv, NEW d \in Desk, TaskDies(d)
  PROVE  CatalogueInv'
<1>1. /\ task' = [task EXCEPT ![d] = Idle] /\ blurred' = blurred \cup ({task[d].number} \cap Number)
      /\ UNCHANGED <<volume, isbns, works, asked, doubled, unindexed>>
      /\ task[d].number \in Number \cup {None}
  BY DEF TaskDies, CatalogueInv, CatalogueTypes, TaskRecord
<1>2. /\ task' \in [Desk -> TaskRecord] /\ task'[d] = Idle
      /\ \A e \in Desk \ {d} : task'[e] = task[e]
  BY <1>1, TaskEnds
<1>3. CatalogueTypes'
  BY <1>1, <1>2 DEF CatalogueInv, CatalogueTypes
<1>4. TasksHaveRows' /\ RowsHaveWorks' /\ WorksAreMadeOnce'
  BY <1>1, <1>2, Settles DEF CatalogueInv, RowsHaveWorks
<1>5. NumbersAreTaken'
  <2>1. \A e \in Desk : \/ /\ task'[e].number = task[e].number /\ task'[e].next = task[e].next
                           /\ task'[e].book = task[e].book
                        \/ task'[e].number = None /\ task[e].number \in blurred' \cup {None}
    BY <1>1, <1>2, IdleType
  <2> QED
    BY <1>1, <2>1, NumbersKeep
<1>6. SearchFindsBooks'
  BY <1>1 DEF CatalogueInv, SearchFindsBooks, OnShelf
<1> QED
  BY <1>3, <1>4, <1>5, <1>6 DEF CatalogueInv

\* A new row, of an import or a pull.
LEMMA NewVolume ==
  ASSUME CatalogueInv, NEW b \in Volume, NEW t \in Heading, NEW by \in SUBSET {Author},
         NEW text \in SUBSET (Heading \cup {None, Author}),
         IsNext(b), volume' = [volume EXCEPT ![b] = Row(t, by, text)],
         UNCHANGED <<isbns, works, task, asked, blurred, doubled>>,
         b \notin unindexed' => text = {t} \cup by, unindexed \subseteq unindexed'
  PROVE  CatalogueInv'
<1> DEFINE v == Row(t, by, text)
<1>1. 0 \in 0 .. MaxWorks
  BY CatalogueAssumption
<1>2. /\ v \in VolumeRecord /\ v.is = "live" /\ v.work = 0
      /\ b \notin unindexed' => v.text = Words(v)
  BY <1>1 DEF Row, VolumeRecord, Words
<1> HIDE DEF v
<1>3. volume[b].is = "gone" /\ task \in [Desk -> TaskRecord] /\ volume' = [volume EXCEPT ![b] = v]
  BY DEF IsNext, Unwritten, CatalogueInv, CatalogueTypes, v
<1> QED
  BY <1>2, <1>3, RowStep

\* The importers.
LEMMA ImportVolumeStep ==
  ASSUME CatalogueInv, NEW b \in Volume, NEW t \in Heading, NEW by \in {{}, {Author}},
         NEW text \in {{}, {t}}, ImportVolume(b, t, by, text)
  PROVE  CatalogueInv'
<1> DEFINE words == IF by = {} THEN text ELSE {t} \cup by
           v == Row(t, by, words)
<1>1. /\ IsNext(b) /\ volume' = [volume EXCEPT ![b] = v]
      /\ unindexed' = IF volume'[b].text = {} THEN unindexed \cup {b} ELSE unindexed
      /\ UNCHANGED <<isbns, works, task, asked, blurred, doubled>>
  BY DEF ImportVolume
<1>2. volume'[b] = v /\ v.text = words
  BY <1>1 DEF Row, CatalogueInv, CatalogueTypes
<1>3. words # {} => words = {t} \cup by
  OBVIOUS
<1>4. words \in SUBSET (Heading \cup {None, Author}) /\ by \in SUBSET {Author}
  OBVIOUS
<1>5. /\ b \notin unindexed' => words = {t} \cup by
      /\ unindexed \subseteq unindexed'
  BY <1>1, <1>2, <1>3
<1> HIDE DEF words
<1> QED
  BY <1>1, <1>4, <1>5, NewVolume

\* A pull or a snapshot.
LEMMA PullVolumeStep ==
  ASSUME CatalogueInv, NEW b \in Volume, NEW t \in Heading, PullVolume(b, t)
  PROVE  CatalogueInv'
<1>1. /\ IsNext(b) /\ volume' = [volume EXCEPT ![b] = Row(t, {}, {})]
      /\ unindexed' = unindexed \cup {b}
      /\ UNCHANGED <<isbns, works, task, asked, blurred, doubled>>
  BY DEF PullVolume
<1>2. {} \in SUBSET {Author} /\ {} \in SUBSET (Heading \cup {None, Author})
  OBVIOUS
<1> QED
  BY <1>1, <1>2, NewVolume

\* A pulled title.
LEMMA PullTitleStep ==
  ASSUME CatalogueInv, NEW b \in Volume, NEW t \in Heading, PullTitle(b, t)
  PROVE  CatalogueInv'
<1> DEFINE v == [volume[b] EXCEPT !.title = t]
<1>1. /\ volume[b].is = "live" /\ volume[b] \in VolumeRecord /\ task \in [Desk -> TaskRecord]
      /\ volume' = [volume EXCEPT ![b] = v] /\ unindexed' = unindexed \cup {b}
      /\ UNCHANGED <<isbns, works, task, asked, blurred, doubled>>
  BY DEF PullTitle, OnShelf, CatalogueInv, CatalogueTypes
<1>2. v \in VolumeRecord /\ v.is = volume[b].is /\ v.work = volume[b].work
  BY <1>1 DEF VolumeRecord
<1> HIDE DEF v
<1>3. v.work # 0 => works[v.work] # None
  BY <1>2 DEF CatalogueInv, RowsHaveWorks
<1> QED
  BY <1>1, <1>2, <1>3, RowStep

\* The end of a restore writes every text anew.
LEMMA RestoreRefreshesStep ==
  ASSUME CatalogueInv, RestoreRefreshes
  PROVE  CatalogueInv'
<1>1. /\ volume' = [b \in Volume |-> IF volume[b].is \in {"live", "dead"}
                                     THEN [volume[b] EXCEPT !.text = Words(volume[b])] ELSE volume[b]]
      /\ unindexed' = {}
      /\ UNCHANGED <<isbns, works, task, asked, blurred, doubled>>
  BY DEF RestoreRefreshes
<1>2. ASSUME NEW b \in Volume
      PROVE  /\ volume'[b] \in VolumeRecord /\ volume'[b].is = volume[b].is
             /\ volume'[b].work = volume[b].work
             /\ volume[b].is = "live" => volume'[b].text = Words(volume'[b])
  <2> DEFINE v == [volume[b] EXCEPT !.text = Words(volume[b])]
  <2>1. volume[b] \in VolumeRecord
    BY DEF CatalogueInv, CatalogueTypes
  <2>2. /\ v \in VolumeRecord /\ v.is = volume[b].is /\ v.work = volume[b].work
        /\ v.text = Words(v)
    BY <2>1 DEF VolumeRecord, Words
  <2>3. volume'[b] = IF volume[b].is \in {"live", "dead"} THEN v ELSE volume[b]
    BY <1>1
  <2> HIDE DEF v
  <2> QED
    BY <2>1, <2>2, <2>3
<1>3. CatalogueTypes'
  BY <1>1, <1>2 DEF CatalogueInv, CatalogueTypes
<1>4. TasksHaveRows' /\ RowsHaveWorks' /\ WorksAreMadeOnce'
  BY <1>1, <1>2, Settles DEF CatalogueInv, RowsHaveWorks
<1>5. NumbersAreTaken'
  BY <1>1, <1>2, NumbersKeep
<1>6. SearchFindsBooks'
  BY <1>2 DEF SearchFindsBooks, OnShelf
<1> QED
  BY <1>3, <1>4, <1>5, <1>6 DEF CatalogueInv

\* Every step keeps the invariant.
LEMMA CatalogueNextInv ==
  ASSUME CatalogueInv, [CatalogueNext]_catalogueVars
  PROVE  CatalogueInv'
<1>1. CASE UNCHANGED catalogueVars
  BY <1>1 DEF catalogueVars, CatalogueInv, CatalogueTypes, TasksHaveRows, RowsHaveWorks,
              WorksAreMadeOnce, NumbersAreTaken, SearchFindsBooks, OnShelf, Adding, Words
<1>2. CASE CatalogueNext
  <2>1. ASSUME NEW d \in Desk, NEW n \in Number \cup {None}, NEW t \in Heading,
               NEW by \in {{}, {Author}}, AddBegins(d, n, t, by)
        PROVE  CatalogueInv'
    BY <2>1, AddBeginsStep
  <2>2. ASSUME NEW d \in Desk, NEW b \in Volume,
               \/ AddWritesRow(d, b)
               \/ \E gone \in Volume : MergeVolumes(d, b, gone)
               \/ \E t \in Heading : LinkFinds(d, b, t)
        PROVE  CatalogueInv'
    BY <2>2, AddWritesRowStep, MergeVolumesStep, LinkFindsStep
  <2>3. ASSUME NEW d \in Desk,
               \/ AddWritesNumber(d) \/ AddWritesAuthor(d) \/ MergeRefreshes(d)
               \/ LinkMakesWork(d) \/ LinkWrites(d) \/ TaskDies(d)
        PROVE  CatalogueInv'
    BY <2>3, AddWritesNumberStep, AddWritesAuthorStep, MergeRefreshesStep, LinkMakesWorkStep,
       LinkWritesStep, TaskDiesStep
  <2>4. ASSUME NEW b \in Volume, DeleteVolume(b) \/ UnlinkVolume(b)
        PROVE  CatalogueInv'
    BY <2>4, DeleteVolumeStep, UnlinkVolumeStep
  <2>5. ASSUME NEW b \in Volume, NEW t \in Heading,
               \/ \E by \in {{}, {Author}}, text \in {{}, {t}} : ImportVolume(b, t, by, text)
               \/ PullVolume(b, t) \/ PullTitle(b, t)
        PROVE  CatalogueInv'
    BY <2>5, ImportVolumeStep, PullVolumeStep, PullTitleStep
  <2>6. CASE PurgeVolumes \/ RestoreRefreshes
    BY <2>6, PurgeVolumesStep, RestoreRefreshesStep
  <2> QED
    BY <1>2, <2>1, <2>2, <2>3, <2>4, <2>5, <2>6 DEF CatalogueNext
<1> QED
  BY <1>1, <1>2

\* An empty library.
LEMMA CatalogueInitInv == CatalogueInit => CatalogueInv
<1> SUFFICES ASSUME CatalogueInit PROVE CatalogueInv
  OBVIOUS
<1>1. 0 \in 0 .. MaxVolumes /\ 0 \in 0 .. MaxWorks
  BY CatalogueAssumption
<1>2. /\ Unwritten \in VolumeRecord /\ Unwritten.is = "gone" /\ Unwritten.work = 0
  BY <1>1 DEF Unwritten, VolumeRecord
<1>3. CatalogueTypes
  BY <1>1, <1>2, IdleType DEF CatalogueInit, CatalogueTypes
<1>4. TasksHaveRows /\ RowsHaveWorks /\ SearchFindsBooks
  BY <1>2, IdleType DEF CatalogueInit, TasksHaveRows, RowsHaveWorks, SearchFindsBooks, OnShelf
<1>5. WorksAreMadeOnce
  BY IdleType DEF CatalogueInit, WorksAreMadeOnce
<1>6. NumbersAreTaken
  <2>1. \A n \in Number : Adding(n) = {}
    BY IdleType, CatalogueAssumption DEF CatalogueInit, Adding
  <2> QED
    BY <1>2, <2>1 DEF CatalogueInit, NumbersAreTaken, OnShelf
<1> QED
  BY <1>3, <1>4, <1>5, <1>6 DEF CatalogueInv

(***************************************************************************)
(* The inductive invariant of the ways to find a book: what each command   *)
(* has still to write has a row to go to, an ISBN is free while a command  *)
(* adds it, and a title has no work while a command makes one.             *)
(***************************************************************************)
THEOREM CatalogueInvariant == CatalogueSpec => []CatalogueInv
<1>1. CatalogueInit => CatalogueInv
  BY CatalogueInitInv
<1>2. CatalogueInv /\ [CatalogueNext]_catalogueVars => CatalogueInv'
  BY CatalogueNextInv
<1> QED
  BY <1>1, <1>2, PTL DEF CatalogueSpec

(***************************************************************************)
(* However many commands add, merge, delete and link at the same time, an  *)
(* ISBN leads to its book, and the search to the words there are.          *)
(***************************************************************************)
THEOREM BooksAreFound == CatalogueSpec => []CatalogueFinds
<1>1. CatalogueInv => CatalogueFinds
  <2> SUFFICES ASSUME CatalogueInv PROVE NumberLeadsToItsBook
    BY DEF CatalogueFinds, CatalogueInv
  <2>1. ASSUME NEW n \in Number \ blurred
        PROVE  /\ Cardinality({b \in Volume : OnShelf(b) /\ n \in asked[b]}) <= 1
               /\ Adding(n) = {} =>
                    \A b \in Volume : OnShelf(b) /\ n \in asked[b] => FoundBy(n) = {b}
    <3> DEFINE books == {b \in Volume : OnShelf(b) /\ n \in asked[b]}
    <3>1. \A b, c \in books : b = c
      <4>1. CASE Adding(n) = {}
        BY <4>1 DEF CatalogueInv, NumbersAreTaken
      <4>2. CASE Adding(n) # {}
        BY <4>2 DEF CatalogueInv, NumbersAreTaken
      <4> QED
        BY <4>1, <4>2
    <3>2. Adding(n) = {} => \A b \in Volume : OnShelf(b) /\ n \in asked[b] => FoundBy(n) = {b}
      BY DEF CatalogueInv, NumbersAreTaken, FoundBy
    <3> HIDE DEF books
    <3>3. Cardinality(books) <= 1
      BY <3>1, AtMostOne
    <3> QED
      BY <3>2, <3>3 DEF books
  <2>2. \A n \in Number : isbns[n] # 0 => volume[isbns[n]].is \in {"live", "dead"}
    BY DEF CatalogueInv, NumbersAreTaken
  <2> QED
    BY <2>1, <2>2 DEF CatalogueInv, RowsHaveWorks, WorksAreMadeOnce, NumberLeadsToItsBook
<1> QED
  BY <1>1, CatalogueInvariant, PTL

-----------------------------------------------------------------------------
(* ImportWizard: the inductive invariant, in parts. *)

ImportEvent == [event : {"none", "progress", "complete"}, run : 0 .. MaxRuns, row : 0 .. MaxRows]
PageRecord == [at : {"elsewhere", "opening", "watching", "results", "unfinished", "cut off"},
               channel : 0 .. MaxRuns, first : Seq(ImportEvent), box : Seq(ImportEvent),
               shown : ImportEvent]
ThreadRecord == [at : {"none", "running", "ended"}, stored : 0 .. MaxRows, sent : 0 .. MaxRows]
WizardRecord == [status : {"none", "preview", "running", "complete", "failed"}, latest : ImportEvent,
                 channel : 0 .. MaxRuns, twice : BOOLEAN]

WizardTypes ==
  /\ wizard \in WizardRecord
  /\ import \in [Run -> ThreadRecord] /\ browser \in [Browser -> PageRecord]

\* A thread tells of a row before it stores the next, and of all before it ends.
RowsAreSent ==
  \A r \in Run :
    /\ import[r].sent <= import[r].stored /\ import[r].stored <= import[r].sent + 1
    /\ import[r].at # "running" => import[r].sent = import[r].stored
    /\ import[r].at = "none" => import[r].stored = 0

\* The session has the channel of the last run, the only one that goes if none
\* was started on top of another.
ChannelIsLast ==
  /\ wizard.status = "running" => wizard.channel \in Going
  /\ wizard.status \in {"none", "preview"} =>
       wizard.channel = 0 /\ Going = {} /\ ~wizard.twice /\ wizard.latest = Nothing
  /\ wizard.channel # 0 => wizard.channel \in Started
  /\ ~wizard.twice => Going \subseteq {wizard.channel}
  /\ wizard.latest # Complete
  /\ ~wizard.twice /\ wizard.channel # 0 => wizard.latest.row <= import[wizard.channel].stored

Has(s, e) == \E i \in DOMAIN s : s[i] = e

\* The end is on its way to the page, or it is still to come; and only a run that
\* ended has sent it.
IsTold(page) ==
  /\ page.at # "watching" => page.first = <<>> /\ page.box = <<>> /\ page.shown = Nothing
  /\ wizard.status = "none" => page.at \notin {"opening", "watching", "unfinished"}
  /\ wizard.status \in {"none", "preview"} => page.channel = 0
  /\ page.channel # 0 => page.channel \in Started
  /\ page.at = "unfinished" => wizard.twice
  /\ page.at = "watching" =>
       \/ page.channel \in Going \/ Has(page.first, Complete) \/ Has(page.box, Complete)
       \/ page.channel \notin Going \cup {wizard.channel} \/ page.channel = 0
  /\ Has(page.first, Complete) \/ Has(page.box, Complete) => wizard.status \in Done \/ wizard.twice

\* What a page has shown, what it is told first, and what its channel holds, in order.
InOrder(page) ==
  /\ page.shown # Complete
  /\ \A i \in DOMAIN page.first : page.first[i] # Complete =>
       /\ page.shown.row <= page.first[i].row
       /\ \A j \in DOMAIN page.first :
            i <= j /\ page.first[j] # Complete => page.first[i].row <= page.first[j].row
       /\ \A j \in DOMAIN page.box : page.box[j] # Complete => page.first[i].row <= page.box[j].row
  /\ \A i \in DOMAIN page.box : page.box[i] # Complete =>
       /\ page.shown.row <= page.box[i].row
       /\ \A j \in DOMAIN page.box :
            i <= j /\ page.box[j] # Complete => page.box[i].row <= page.box[j].row

\* None of it is past the row n.
NoneIsAhead(page, n) ==
  /\ page.shown.row <= n
  /\ \A i \in DOMAIN page.first : page.first[i] # Complete => page.first[i].row <= n
  /\ \A i \in DOMAIN page.box : page.box[i] # Complete => page.box[i].row <= n

GoesForward(page) ==
  ~wizard.twice =>
    /\ InOrder(page)
    /\ page.channel # 0 => page.channel = wizard.channel /\ NoneIsAhead(page, import[wizard.channel].stored)

WizardInv ==
  /\ WizardTypes /\ RowsAreSent /\ ChannelIsLast
  /\ \A w \in Browser : IsTold(browser[w]) /\ GoesForward(browser[w])

-----------------------------------------------------------------------------

\* The events there are.
LEMMA WizardEvents ==
  /\ Complete \in ImportEvent /\ Nothing \in ImportEvent /\ Nothing # Complete /\ Nothing.row = 0
  /\ \A r \in Run, i \in 0 .. MaxRows :
       RowEvent(r, i) \in ImportEvent /\ RowEvent(r, i) # Complete /\ RowEvent(r, i).row = i
<1>1. Complete \in ImportEvent /\ Nothing \in ImportEvent /\ Nothing.row = 0
  BY WizardAssumption DEF Complete, Nothing, ImportEvent
<1>2. Complete.event = "complete" /\ Nothing.event = "none"
  BY DEF Complete, Nothing
<1>3. ASSUME NEW r \in Run, NEW i \in 0 .. MaxRows
      PROVE  RowEvent(r, i) \in ImportEvent /\ RowEvent(r, i).event = "progress" /\ RowEvent(r, i).row = i
  BY WizardAssumption DEF RowEvent, ImportEvent, Run
<1> QED
  BY <1>1, <1>2, <1>3

\* What a receiver keeps: the latest of what was sent to it, and the last of all.
LEMMA KeptIsTail ==
  ASSUME NEW S, NEW s \in Seq(S), s # <<>>
  PROVE  /\ Kept(s) \in Seq(S)
         /\ \E m \in 0 .. Len(s) - 1 :
              Len(Kept(s)) = Len(s) - m /\ \A k \in 1 .. Len(s) - m : Kept(s)[k] = s[k + m]
<1>1. Len(s) \in Nat \ {0}
  OBVIOUS
<1> DEFINE m == IF Len(s) > Capacity THEN Len(s) - Capacity ELSE 0
<1>2. m \in 0 .. Len(s) - 1
  BY <1>1, WizardAssumption
<1>3. Kept(s) = SubSeq(s, m + 1, Len(s))
  BY <1>1, WizardAssumption DEF Kept
<1> HIDE DEF m
<1>4. /\ SubSeq(s, m + 1, Len(s)) \in Seq(S)
      /\ Len(SubSeq(s, m + 1, Len(s))) = Len(s) - m
  BY <1>1, <1>2
<1>5. ASSUME NEW k \in 1 .. Len(s) - m
      PROVE  SubSeq(s, m + 1, Len(s))[k] = s[k + m]
  BY <1>1, <1>2
<1> QED
  BY <1>2, <1>3, <1>4, <1>5

LEMMA PageSequences ==
  ASSUME NEW page \in PageRecord
  PROVE  /\ page.first \in Seq(ImportEvent) /\ page.box \in Seq(ImportEvent) /\ page.shown \in ImportEvent
         /\ DOMAIN page.first = 1 .. Len(page.first) /\ Len(page.first) \in Nat
         /\ DOMAIN page.box = 1 .. Len(page.box) /\ Len(page.box) \in Nat
         /\ page.shown.row \in Nat
         /\ \A i \in DOMAIN page.first : page.first[i].row \in Nat
         /\ \A i \in DOMAIN page.box : page.box[i].row \in Nat
<1>1. page.first \in Seq(ImportEvent) /\ page.box \in Seq(ImportEvent) /\ page.shown \in ImportEvent
  BY DEF PageRecord
<1>2. \A s \in Seq(ImportEvent) : DOMAIN s = 1 .. Len(s) /\ Len(s) \in Nat
  OBVIOUS
<1>3. \A e \in ImportEvent : e.row \in Nat
  BY DEF ImportEvent
<1>4. \A s \in Seq(ImportEvent) : \A i \in DOMAIN s : s[i].row \in Nat
  BY <1>3
<1> QED
  BY <1>1, <1>2, <1>3, <1>4

\* The page of a browser that is sent e.
Sent(page, e) == [page EXCEPT !.box = Kept(Append(@, e))]

LEMMA SentIsTail ==
  ASSUME NEW page \in PageRecord, NEW e \in ImportEvent
  PROVE  /\ Sent(page, e) \in PageRecord
         /\ Sent(page, e).at = page.at /\ Sent(page, e).channel = page.channel
         /\ Sent(page, e).first = page.first /\ Sent(page, e).shown = page.shown
         /\ \E m \in 0 .. Len(page.box) :
              /\ Len(Sent(page, e).box) = Len(page.box) + 1 - m
              /\ \A k \in 1 .. Len(Sent(page, e).box) :
                   Sent(page, e).box[k] = IF k + m = Len(page.box) + 1 THEN e ELSE page.box[k + m]
<1>1. PICK old : old = page.box
  OBVIOUS
<1>2. old \in Seq(ImportEvent) /\ Len(old) \in Nat
  BY <1>1, PageSequences
<1>3. PICK s : s = Append(old, e)
  OBVIOUS
<1>4. /\ s \in Seq(ImportEvent) /\ Len(s) = Len(old) + 1 /\ s # <<>>
      /\ \A i \in 1 .. Len(old) + 1 : s[i] = IF i = Len(old) + 1 THEN e ELSE old[i]
  BY <1>2, <1>3
<1>5. PICK m \in 0 .. Len(s) - 1 :
        Len(Kept(s)) = Len(s) - m /\ \A k \in 1 .. Len(s) - m : Kept(s)[k] = s[k + m]
  BY <1>4, KeptIsTail
<1>6. Kept(s) \in Seq(ImportEvent)
  BY <1>4, KeptIsTail
<1>7. /\ Sent(page, e) \in PageRecord
      /\ Sent(page, e).at = page.at /\ Sent(page, e).channel = page.channel
      /\ Sent(page, e).first = page.first /\ Sent(page, e).shown = page.shown
      /\ Sent(page, e).box = Kept(s)
  BY <1>1, <1>3, <1>6 DEF PageRecord, Sent
<1>8. m \in 0 .. Len(old) /\ Len(Kept(s)) = Len(old) + 1 - m
  BY <1>2, <1>4, <1>5
<1>9. ASSUME NEW k \in 1 .. Len(Kept(s))
      PROVE  Kept(s)[k] = IF k + m = Len(old) + 1 THEN e ELSE old[k + m]
  <2>1. k + m \in 1 .. Len(old) + 1 /\ k \in 1 .. Len(s) - m
    BY <1>2, <1>4, <1>8
  <2> QED
    BY <1>4, <1>5, <2>1
<1> QED
  BY <1>1, <1>7, <1>8, <1>9

\* A page that is sent e has been told e, and nothing that it was not told before.
LEMMA SentHas ==
  ASSUME NEW page \in PageRecord, NEW e \in ImportEvent
  PROVE  /\ Has(Sent(page, e).box, e)
         /\ \A c : c # e /\ Has(Sent(page, e).box, c) => Has(page.box, c)
<1>1. PICK new \in PageRecord : new = Sent(page, e)
  BY SentIsTail
<1>2. PICK m \in 0 .. Len(page.box) :
        /\ Len(new.box) = Len(page.box) + 1 - m
        /\ \A k \in 1 .. Len(new.box) :
             new.box[k] = IF k + m = Len(page.box) + 1 THEN e ELSE page.box[k + m]
  BY <1>1, SentIsTail
<1>3. /\ DOMAIN page.box = 1 .. Len(page.box) /\ Len(page.box) \in Nat
      /\ DOMAIN new.box = 1 .. Len(new.box)
  BY PageSequences
<1>4. Has(new.box, e)
  <2>1. Len(page.box) + 1 - m \in DOMAIN new.box
    BY <1>2, <1>3
  <2> QED
    BY <1>2, <1>3, <2>1 DEF Has
<1>5. ASSUME NEW c, c # e, Has(new.box, c)
      PROVE  Has(page.box, c)
  <2>1. PICK k \in 1 .. Len(new.box) : new.box[k] = c
    BY <1>3, <1>5 DEF Has
  <2>2. k + m # Len(page.box) + 1 /\ k + m \in 1 .. Len(page.box) + 1
    <3>1. k + m # Len(page.box) + 1
      BY <1>2, <1>5, <2>1
    <3>2. k + m \in 1 .. Len(page.box) + 1
      BY <1>2, <1>3, <2>1
    <3> QED
      BY <3>1, <3>2
  <2>3. k + m \in DOMAIN page.box /\ page.box[k + m] = c
    <3>1. k + m \in 1 .. Len(page.box)
      BY <1>3, <2>2
    <3>2. new.box[k] = page.box[k + m]
      BY <1>2, <2>1, <2>2
    <3> QED
      BY <1>3, <2>1, <3>1, <3>2
  <2> QED
    BY <2>3 DEF Has
<1> QED
  BY <1>1, <1>4, <1>5

\* A page that is sent the end, or a row that none of its own is past, is in order.
LEMMA SentInOrder ==
  ASSUME NEW page \in PageRecord, NEW e \in ImportEvent, NEW n \in Nat,
         InOrder(page), NoneIsAhead(page, n), e = Complete \/ e.row = n
  PROVE  InOrder(Sent(page, e)) /\ NoneIsAhead(Sent(page, e), n)
<1>1. PICK new \in PageRecord : new = Sent(page, e)
  BY SentIsTail
<1>2. PICK m \in 0 .. Len(page.box) :
        /\ Len(new.box) = Len(page.box) + 1 - m
        /\ \A k \in 1 .. Len(new.box) :
             new.box[k] = IF k + m = Len(page.box) + 1 THEN e ELSE page.box[k + m]
  BY <1>1, SentIsTail
<1>3. /\ DOMAIN page.box = 1 .. Len(page.box) /\ Len(page.box) \in Nat
      /\ DOMAIN new.box = 1 .. Len(new.box)
      /\ new.first = page.first /\ new.shown = page.shown
  BY <1>1, SentIsTail, PageSequences
<1>4. ASSUME NEW k \in DOMAIN new.box, new.box[k] # Complete
      PROVE  \/ k + m = Len(page.box) + 1 /\ new.box[k] = e /\ e.row = n
             \/ k + m \in DOMAIN page.box /\ new.box[k] = page.box[k + m] /\ page.box[k + m] # Complete
  <2>1. k + m \in 1 .. Len(page.box) + 1
    BY <1>2, <1>3
  <2>2. new.box[k] = IF k + m = Len(page.box) + 1 THEN e ELSE page.box[k + m]
    BY <1>2, <1>3
  <2> QED
    BY <1>3, <1>4, <2>1, <2>2
<1>5. \A k \in DOMAIN new.box : new.box[k] # Complete =>
        /\ new.box[k].row <= n
        /\ page.shown.row <= new.box[k].row
        /\ \A i \in DOMAIN page.first : page.first[i] # Complete => page.first[i].row <= new.box[k].row
  BY <1>4 DEF InOrder, NoneIsAhead
<1>6. ASSUME NEW i \in DOMAIN new.box, NEW j \in DOMAIN new.box, i <= j,
             new.box[i] # Complete, new.box[j] # Complete
      PROVE  new.box[i].row <= new.box[j].row
  <2>1. CASE j + m = Len(page.box) + 1 /\ new.box[j] = e /\ e.row = n
    BY <1>5, <1>6, <2>1
  <2>2. CASE j + m \in DOMAIN page.box /\ new.box[j] = page.box[j + m] /\ page.box[j + m] # Complete
    <3>1. i + m # Len(page.box) + 1 /\ i + m <= j + m
      <4>1. i \in Nat /\ j \in Nat /\ m \in Nat /\ i <= j
        BY <1>3, <1>6
      <4>2. j + m <= Len(page.box) /\ Len(page.box) \in Nat
        BY <1>3, <2>2
      <4> QED
        BY <4>1, <4>2
    <3>2. i + m \in DOMAIN page.box /\ new.box[i] = page.box[i + m] /\ page.box[i + m] # Complete
      BY <1>4, <1>6, <3>1
    <3> QED
      BY <2>2, <3>1, <3>2 DEF InOrder
  <2> QED
    BY <1>4, <1>6, <2>1, <2>2
<1>7. InOrder(new)
  BY <1>3, <1>5, <1>6 DEF InOrder
<1>8. NoneIsAhead(new, n)
  BY <1>3, <1>5 DEF NoneIsAhead
<1> QED
  BY <1>1, <1>7, <1>8

\* A page that shows something else.
LEMMA ElsewhereIs ==
  /\ Elsewhere \in PageRecord /\ Elsewhere.at = "elsewhere" /\ Elsewhere.channel = 0
  /\ Elsewhere.first = <<>> /\ Elsewhere.box = <<>> /\ Elsewhere.shown = Nothing
<1>1. 0 \in 0 .. MaxRuns /\ <<>> \in Seq(ImportEvent)
  BY WizardAssumption
<1> QED
  BY <1>1, WizardEvents DEF Elsewhere, PageRecord

\* A page that has been told nothing.
LEMMA BlankPage ==
  ASSUME NEW page, page.first = <<>>, page.box = <<>>, page.shown = Nothing, page.channel = 0,
         page.at # "watching", page.at = "unfinished" => wizard.twice,
         wizard.status = "none" => page.at \notin {"opening", "unfinished"}
  PROVE  IsTold(page) /\ GoesForward(page)
<1>1. DOMAIN page.first = {} /\ DOMAIN page.box = {} /\ page.shown # Complete
  BY WizardEvents
<1>2. InOrder(page)
  BY <1>1 DEF InOrder
<1> QED
  BY <1>1, <1>2 DEF IsTold, GoesForward, Has

\* No session.
LEMMA NoWizardIs ==
  /\ NoWizard \in WizardRecord /\ NoWizard.status = "none" /\ NoWizard.latest = Nothing
  /\ NoWizard.channel = 0 /\ NoWizard.twice = FALSE
<1>1. 0 \in 0 .. MaxRuns
  BY WizardAssumption
<1> QED
  BY <1>1, WizardEvents DEF NoWizard, WizardRecord

\* Initially there is no session and no page.
LEMMA WizardInitInv == WizardInit => WizardInv
<1> SUFFICES ASSUME WizardInit PROVE WizardInv
  OBVIOUS
<1>1. /\ wizard.status = "none" /\ wizard.latest = Nothing /\ wizard.channel = 0 /\ wizard.twice = FALSE
      /\ wizard \in WizardRecord
  BY NoWizardIs DEF WizardInit
<1>2. \A r \in Run : /\ import[r] \in ThreadRecord /\ import[r].at = "none"
                     /\ import[r].stored = 0 /\ import[r].sent = 0
  BY WizardAssumption DEF WizardInit, Unstarted, ThreadRecord
<1>3. Going = {}
  BY <1>2 DEF Going
<1>4. WizardTypes
  BY <1>1, <1>2, ElsewhereIs DEF WizardInit, WizardTypes
<1>5. RowsAreSent /\ ChannelIsLast
  BY <1>1, <1>2, <1>3, WizardEvents DEF RowsAreSent, ChannelIsLast
<1>6. ASSUME NEW w \in Browser
      PROVE  IsTold(browser[w]) /\ GoesForward(browser[w])
  BY ElsewhereIs, BlankPage DEF WizardInit
<1> QED
  BY <1>4, <1>5, <1>6 DEF WizardInv

\* Nothing changes.
LEMMA WizardStutters ==
  ASSUME WizardInv, UNCHANGED wizardVars
  PROVE  WizardInv'
BY DEF wizardVars, WizardInv, WizardTypes, RowsAreSent, ChannelIsLast, IsTold, GoesForward, InOrder,
       NoneIsAhead, Going, Started, Has

\* One page changes.
LEMMA OnePageStep ==
  ASSUME WizardInv, NEW w \in Browser, NEW new \in PageRecord,
         browser' = [browser EXCEPT ![w] = new], UNCHANGED <<wizard, import>>,
         IsTold(new), GoesForward(new)
  PROVE  WizardInv'
<1>1. /\ Going' = Going /\ Started' = Started
      /\ wizard' = wizard /\ import' = import
  BY DEF Going, Started
<1>2. WizardTypes' /\ RowsAreSent' /\ ChannelIsLast'
  BY <1>1 DEF WizardInv, WizardTypes, RowsAreSent, ChannelIsLast
<1>3. ASSUME NEW v \in Browser
      PROVE  (IsTold(browser[v]) /\ GoesForward(browser[v]))'
  <2>1. PICK page : page = browser'[v]
    OBVIOUS
  <2>2. page = new \/ page = browser[v]
    BY <2>1 DEF WizardInv, WizardTypes
  <2>3. IsTold(page) /\ GoesForward(page)
    BY <2>2 DEF WizardInv
  <2>4. IsTold(browser[v])'
    BY <1>1, <2>1, <2>3 DEF IsTold
  <2>5. GoesForward(browser[v])'
    BY <1>1, <2>1, <2>3 DEF GoesForward
  <2> QED
    BY <2>4, <2>5
<1> QED
  BY <1>2, <1>3 DEF WizardInv

\* upload_csv: there was no session, so no page is on the progress.
LEMMA UploadStep ==
  ASSUME WizardInv, Upload
  PROVE  WizardInv'
<1>1. /\ wizard.status = "none"
      /\ wizard'.status = "preview" /\ wizard'.latest = Nothing /\ wizard'.channel = 0
      /\ wizard'.twice = FALSE
      /\ wizard' \in WizardRecord
      /\ import' = import /\ browser' = browser
  BY NoWizardIs DEF Upload, WizardRecord
<1>2. Going' = Going /\ Started' = Started /\ Going = {}
  BY <1>1 DEF Going, Started, WizardInv, ChannelIsLast
<1>3. WizardTypes' /\ RowsAreSent' /\ ChannelIsLast'
  BY <1>1, <1>2, WizardEvents DEF WizardInv, WizardTypes, RowsAreSent, ChannelIsLast
<1>4. ASSUME NEW w \in Browser
      PROVE  (IsTold(browser[w]) /\ GoesForward(browser[w]))'
  <2>1. PICK page : page = browser'[w]
    OBVIOUS
  <2>2. /\ IsTold(page) /\ GoesForward(page) /\ ~wizard.twice
    BY <1>1, <2>1 DEF WizardInv, ChannelIsLast
  <2>3. /\ page.first = <<>> /\ page.box = <<>> /\ page.channel = 0 /\ InOrder(page)
        /\ page.at \notin {"opening", "watching", "unfinished"} /\ page.shown = Nothing
    BY <1>1, <2>2 DEF IsTold, GoesForward
  <2>4. ~Has(page.first, Complete) /\ ~Has(page.box, Complete)
    BY <2>3 DEF Has
  <2>5. IsTold(browser[w])'
    BY <1>1, <1>2, <2>1, <2>3, <2>4 DEF IsTold
  <2>6. GoesForward(browser[w])'
    BY <1>1, <2>1, <2>3 DEF GoesForward
  <2> QED
    BY <2>5, <2>6
<1> QED
  BY <1>3, <1>4 DEF WizardInv

\* execute_import: the session gets the channel of the new run.
LEMMA ExecuteStep ==
  ASSUME WizardInv, NEW r \in Run, Execute(r)
  PROVE  WizardInv'
<1>1. /\ wizard.status # "none" /\ r \notin Started
      /\ wizard'.status = "running" /\ wizard'.latest = wizard.latest /\ wizard'.channel = r
      /\ wizard'.twice = (wizard.status # "preview")
      /\ wizard' \in WizardRecord
      /\ browser' = browser
  <2>1. wizard \in WizardRecord /\ r \in 0 .. MaxRuns
    BY WizardAssumption DEF WizardInv, WizardTypes, Run
  <2>2. PICK twice \in BOOLEAN : twice = (wizard.status # "preview")
    OBVIOUS
  <2>3. /\ wizard.status # "none" /\ r \notin Started /\ browser' = browser
        /\ wizard' = [wizard EXCEPT !.status = "running", !.channel = r, !.twice = twice]
    BY <2>2 DEF Execute
  <2>4. /\ wizard'.status = "running" /\ wizard'.latest = wizard.latest /\ wizard'.channel = r
        /\ wizard'.twice = twice /\ wizard' \in WizardRecord
    BY <2>1, <2>3 DEF WizardRecord
  <2> QED
    BY <2>2, <2>3, <2>4
<1>2. PICK new : new = [import[r] EXCEPT !.at = "running"]
  OBVIOUS
<1>3. /\ import[r] \in ThreadRecord /\ import[r].at = "none" /\ import[r].stored = 0
      /\ import[r].sent = 0
  BY <1>1 DEF Started, WizardInv, WizardTypes, RowsAreSent
<1>4. new \in ThreadRecord /\ new.at = "running" /\ new.stored = 0 /\ new.sent = 0
  BY <1>2, <1>3 DEF ThreadRecord
<1>5. import' = [import EXCEPT ![r] = new] /\ import \in [Run -> ThreadRecord]
  BY <1>2 DEF Execute, WizardInv, WizardTypes
<1>6. /\ \A s \in Run : import'[s] = IF s = r THEN new ELSE import[s]
      /\ import' \in [Run -> ThreadRecord]
  BY <1>4, <1>5
<1>7. /\ Going' = Going \cup {r} /\ Started \subseteq Started' /\ r \in Started'
      /\ Going \subseteq Started
  BY <1>4, <1>6 DEF Going, Started
<1>8. r # 0 /\ Going \subseteq Run
  BY WizardAssumption DEF Run, Going
<1>9. WizardTypes'
  BY <1>1, <1>6 DEF WizardInv, WizardTypes
<1>10. RowsAreSent'
  BY <1>4, <1>6 DEF WizardInv, RowsAreSent
<1>11. ChannelIsLast'
  <2>1. wizard.latest # Complete
    BY DEF WizardInv, ChannelIsLast
  <2>2. ~wizard'.twice => Going = {} /\ wizard.latest.row = 0
    BY <1>1, WizardEvents DEF WizardInv, ChannelIsLast
  <2>3. wizard'.channel \in Going' /\ wizard'.channel \in Started'
    BY <1>1, <1>7
  <2>4. ~wizard'.twice => Going' \subseteq {wizard'.channel}
    BY <1>1, <1>7, <2>2
  <2>5. ~wizard'.twice => wizard'.latest.row <= import'[wizard'.channel].stored
    BY <1>1, <1>4, <1>6, <2>2
  <2>6. wizard'.status = "running" /\ wizard'.latest # Complete
    BY <1>1, <2>1
  <2> QED
    BY <2>3, <2>4, <2>5, <2>6 DEF ChannelIsLast
<1>12. ASSUME NEW w \in Browser
       PROVE  (IsTold(browser[w]) /\ GoesForward(browser[w]))'
  <2>1. PICK page : page = browser'[w]
    OBVIOUS
  <2>2. IsTold(page) /\ GoesForward(page) /\ (wizard.twice => wizard.status # "preview")
    BY <1>1, <2>1 DEF WizardInv, ChannelIsLast
  <2>3. IsTold(browser[w])'
    <3>1. page.channel # r /\ (page.channel # 0 => page.channel \in Started')
      BY <1>1, <1>7, <1>8, <2>2 DEF IsTold
    <3>2. page.at # "watching" => page.first = <<>> /\ page.box = <<>> /\ page.shown = Nothing
      BY <2>2 DEF IsTold
    <3>3. page.at = "unfinished" => wizard'.twice
      BY <1>1, <2>2 DEF IsTold
    <3>4. page.at = "watching" =>
            \/ page.channel \in Going' \/ Has(page.first, Complete) \/ Has(page.box, Complete)
            \/ page.channel \notin Going' \cup {wizard'.channel} \/ page.channel = 0
      BY <1>1, <1>7, <3>1
    <3>5. Has(page.first, Complete) \/ Has(page.box, Complete) => wizard'.twice
      BY <1>1, <2>2 DEF IsTold, Done
    <3> QED
      BY <1>1, <2>1, <3>1, <3>2, <3>3, <3>4, <3>5 DEF IsTold, Has
  <2>4. GoesForward(browser[w])'
    <3>1. ASSUME ~wizard'.twice
          PROVE  InOrder(page) /\ page.channel = 0
      BY <1>1, <2>2, <3>1 DEF WizardInv, ChannelIsLast, GoesForward, IsTold
    <3> QED
      BY <2>1, <3>1 DEF GoesForward, InOrder
  <2> QED
    BY <2>3, <2>4
<1> QED
  BY <1>9, <1>10, <1>11, <1>12 DEF WizardInv

\* A thread that goes has a session, and is that of the channel unless it was
\* started twice.
LEMMA WhoIsGoing ==
  ASSUME WizardInv, NEW r \in Run, import[r].at = "running"
  PROVE  /\ wizard.status \notin {"none", "preview"} /\ r \in Going
         /\ ~wizard.twice => wizard.channel = r
         /\ r # 0
  BY WizardAssumption DEF Going, WizardInv, ChannelIsLast, Run

\* on_event, under the mutex.
LEMMA StoreRowStep ==
  ASSUME WizardInv, NEW r \in Run, StoreRow(r)
  PROVE  WizardInv'
<1>1. PICK new : new = [import[r] EXCEPT !.stored = @ + 1]
  OBVIOUS
<1>2. /\ import[r] \in ThreadRecord /\ import[r].at = "running" /\ import[r].stored < MaxRows
      /\ import[r].stored = import[r].sent /\ import \in [Run -> ThreadRecord]
      /\ import' = [import EXCEPT ![r] = new] /\ browser' = browser
  BY <1>1 DEF StoreRow, WizardInv, WizardTypes
<1>3. /\ new.at = "running" /\ new.stored = import[r].stored + 1 /\ new.sent = import[r].sent
      /\ import[r].stored \in Nat /\ new \in ThreadRecord
  BY <1>1, <1>2, WizardAssumption DEF ThreadRecord
<1>4. /\ \A s \in Run : import'[s] = IF s = r THEN new ELSE import[s]
      /\ import' \in [Run -> ThreadRecord]
  BY <1>2, <1>3
<1>5. Going' = Going /\ Started' = Started
  BY <1>2, <1>3, <1>4 DEF Going, Started
<1>6. PICK e \in ImportEvent : e = RowEvent(r, new.stored) /\ e # Complete /\ e.row = new.stored
  BY <1>3, WizardEvents DEF ThreadRecord
<1>7. /\ wizard'.status = wizard.status /\ wizard'.latest = e /\ wizard'.channel = wizard.channel
      /\ wizard'.twice = wizard.twice
      /\ wizard' \in WizardRecord
  BY <1>4, <1>6 DEF StoreRow, WizardInv, WizardTypes, WizardRecord
<1>8. /\ wizard.status \notin {"none", "preview"} /\ (~wizard.twice => wizard.channel = r)
  BY <1>2, WhoIsGoing
<1>9. WizardTypes' /\ RowsAreSent'
  BY <1>2, <1>3, <1>4, <1>7 DEF WizardInv, WizardTypes, RowsAreSent, ThreadRecord
<1>10. ChannelIsLast'
  BY <1>3, <1>4, <1>5, <1>6, <1>7, <1>8 DEF WizardInv, ChannelIsLast
<1>11. ASSUME NEW w \in Browser
       PROVE  (IsTold(browser[w]) /\ GoesForward(browser[w]))'
  <2>1. PICK page \in PageRecord : page = browser[w] /\ page = browser'[w]
    BY <1>2 DEF WizardInv, WizardTypes
  <2>2. IsTold(page) /\ GoesForward(page)
    BY <2>1 DEF WizardInv
  <2>3. IsTold(browser[w])'
    BY <1>5, <1>7, <2>1, <2>2 DEF IsTold
  <2>4. GoesForward(browser[w])'
    <3>1. ASSUME ~wizard.twice, page.channel # 0
          PROVE  page.channel = wizard.channel /\ NoneIsAhead(page, new.stored)
      <4>1. page.channel = wizard.channel /\ NoneIsAhead(page, import[r].stored)
        BY <1>8, <2>2, <3>1 DEF GoesForward
      <4>2. /\ page.shown.row \in Nat
            /\ \A i \in DOMAIN page.first : page.first[i].row \in Nat
            /\ \A i \in DOMAIN page.box : page.box[i].row \in Nat
        BY PageSequences
      <4> QED
        BY <1>3, <4>1, <4>2 DEF NoneIsAhead
    <3>2. ~wizard.twice => import'[wizard'.channel].stored = new.stored
      BY <1>4, <1>7, <1>8
    <3> QED
      BY <1>7, <2>1, <2>2, <3>1, <3>2 DEF GoesForward
  <2> QED
    BY <2>3, <2>4
<1> QED
  BY <1>9, <1>10, <1>11 DEF WizardInv

\* What the pages are after e was sent to the channel of a run.
LEMMA ToldPages ==
  ASSUME WizardInv, NEW r \in Run, NEW e \in ImportEvent, browser' = Told(r, e)
  PROVE  /\ browser' \in [Browser -> PageRecord]
         /\ \A w \in Browser :
              IF browser[w].at = "watching" /\ browser[w].channel = r
              THEN browser'[w] = Sent(browser[w], e)
              ELSE browser'[w] = browser[w]
<1>1. ASSUME NEW w \in Browser
      PROVE  /\ browser'[w] \in PageRecord
             /\ IF browser[w].at = "watching" /\ browser[w].channel = r
                THEN browser'[w] = Sent(browser[w], e)
                ELSE browser'[w] = browser[w]
  <2>1. PICK page \in PageRecord : page = browser[w]
    BY DEF WizardInv, WizardTypes
  <2>2. Sent(page, e) \in PageRecord
    BY SentIsTail
  <2>3. browser'[w] = IF page.at = "watching" /\ page.channel = r THEN Sent(page, e) ELSE page
    BY <2>1 DEF Told, Sent
  <2> QED
    BY <2>1, <2>2, <2>3
<1>2. browser' = [w \in Browser |-> browser'[w]]
  BY DEF Told
<1> QED
  BY <1>1, <1>2

\* The row is sent to who listens.
LEMMA SendRowStep ==
  ASSUME WizardInv, NEW r \in Run, SendRow(r)
  PROVE  WizardInv'
<1>1. PICK new : new = [import[r] EXCEPT !.sent = @ + 1]
  OBVIOUS
<1>2. /\ import[r] \in ThreadRecord /\ import[r].sent < import[r].stored
      /\ import[r].stored <= import[r].sent + 1 /\ import[r].at = "running"
      /\ import \in [Run -> ThreadRecord]
      /\ import' = [import EXCEPT ![r] = new] /\ wizard' = wizard
  BY <1>1 DEF SendRow, WizardInv, WizardTypes, RowsAreSent, ThreadRecord
<1>3. /\ new.at = "running" /\ new.stored = import[r].stored /\ new.sent = import[r].stored
      /\ import[r].stored \in Nat /\ new \in ThreadRecord
  BY <1>1, <1>2, WizardAssumption DEF ThreadRecord
<1>4. /\ \A s \in Run : import'[s] = IF s = r THEN new ELSE import[s]
      /\ import' \in [Run -> ThreadRecord]
  BY <1>2, <1>3
<1>5. Going' = Going /\ Started' = Started
  BY <1>2, <1>3, <1>4 DEF Going, Started
<1>6. PICK e \in ImportEvent : e = RowEvent(r, new.sent) /\ e # Complete /\ e.row = new.stored
  BY <1>3, WizardEvents DEF ThreadRecord
<1>7. browser' = Told(r, e)
  BY <1>4, <1>6 DEF SendRow
<1>8. /\ wizard.status \notin {"none", "preview"} /\ (~wizard.twice => wizard.channel = r)
      /\ r \in Going /\ r # 0
  BY <1>2, WhoIsGoing
<1>9. WizardTypes' /\ RowsAreSent'
  BY <1>2, <1>3, <1>4, <1>7, ToldPages DEF WizardInv, WizardTypes, RowsAreSent, ThreadRecord
<1>10. \A s \in Run : import'[s].stored = import[s].stored
  BY <1>3, <1>4
<1>11. ChannelIsLast'
  <2>1. wizard.channel # 0 => wizard.channel \in Run
    BY DEF WizardInv, ChannelIsLast, Started
  <2> QED
    BY <1>2, <1>5, <1>10, <2>1 DEF WizardInv, ChannelIsLast
<1>12. ASSUME NEW w \in Browser
       PROVE  (IsTold(browser[w]) /\ GoesForward(browser[w]))'
  <2>1. PICK page \in PageRecord : page = browser[w]
    BY DEF WizardInv, WizardTypes
  <2>2. PICK told : told = browser'[w]
    OBVIOUS
  <2>3. IsTold(page) /\ GoesForward(page)
    BY <2>1 DEF WizardInv
  <2>4. ~wizard.twice /\ page.channel # 0 =>
          page.channel = wizard.channel /\ wizard.channel = r /\ NoneIsAhead(page, new.stored)
    BY <1>3, <1>8, <2>3 DEF GoesForward
  <2>5. ~wizard.twice => InOrder(page)
    BY <2>3 DEF GoesForward
  <2>6. IsTold(told) /\ (~wizard.twice => InOrder(told)
          /\ (told.channel # 0 => told.channel = wizard.channel /\ NoneIsAhead(told, new.stored)))
    <3>1. CASE page.at = "watching" /\ page.channel = r
      <4>1. told = Sent(page, e)
        BY <1>7, <2>1, <2>2, <3>1, ToldPages
      <4>2. /\ told.at = page.at /\ told.channel = page.channel
            /\ told.first = page.first /\ told.shown = page.shown
        BY <4>1, SentIsTail
      <4>3. Has(told.box, Complete) => Has(page.box, Complete)
        BY <1>6, <4>1, SentHas
      <4>4. IsTold(told)
        BY <1>8, <2>3, <3>1, <4>2, <4>3 DEF IsTold
      <4>5. ~wizard.twice => InOrder(told) /\ NoneIsAhead(told, new.stored)
        BY <1>3, <1>6, <1>8, <2>4, <2>5, <3>1, <4>1, SentInOrder
      <4> QED
        BY <1>8, <2>4, <3>1, <4>2, <4>4, <4>5
    <3>2. CASE ~(page.at = "watching" /\ page.channel = r)
      <4>1. told = page
        BY <1>7, <2>1, <2>2, <3>2, ToldPages
      <4> QED
        BY <2>3, <2>4, <2>5, <4>1
    <3> QED
      BY <3>1, <3>2
  <2>7. IsTold(browser[w])'
    BY <1>2, <1>5, <2>2, <2>6 DEF IsTold
  <2>8. GoesForward(browser[w])'
    <3>1. ~wizard.twice => import'[wizard.channel].stored = new.stored
      BY <1>4, <1>8
    <3> QED
      BY <1>2, <2>2, <2>6, <3>1 DEF GoesForward
  <2> QED
    BY <2>7, <2>8
<1> QED
  BY <1>9, <1>11, <1>12 DEF WizardInv

\* The end is sent to who listens.
LEMMA RunEndsStep ==
  ASSUME WizardInv, NEW r \in Run, NEW outcome \in Done, RunEnds(r, outcome)
  PROVE  WizardInv'
<1>1. PICK new : new = [import[r] EXCEPT !.at = "ended"]
  OBVIOUS
<1>2. /\ import[r] \in ThreadRecord /\ import[r].sent = import[r].stored /\ import[r].at = "running"
      /\ import \in [Run -> ThreadRecord]
      /\ import' = [import EXCEPT ![r] = new] /\ browser' = Told(r, Complete)
  BY <1>1 DEF RunEnds, WizardInv, WizardTypes
<1>3. /\ new.at = "ended" /\ new.stored = import[r].stored /\ new.sent = import[r].stored
      /\ import[r].stored \in Nat /\ new \in ThreadRecord
  BY <1>1, <1>2 DEF ThreadRecord
<1>4. /\ \A s \in Run : import'[s] = IF s = r THEN new ELSE import[s]
      /\ import' \in [Run -> ThreadRecord]
  BY <1>2, <1>3
<1>5. Going' = Going \ {r} /\ Started' = Started
  BY <1>2, <1>3, <1>4 DEF Going, Started
<1>6. /\ wizard'.status = outcome /\ wizard'.latest = wizard.latest
      /\ wizard'.channel = wizard.channel /\ wizard'.twice = wizard.twice
      /\ wizard' \in WizardRecord
  BY DEF RunEnds, Done, WizardInv, WizardTypes, WizardRecord
<1>7. /\ wizard.status \notin {"none", "preview"} /\ (~wizard.twice => wizard.channel = r)
      /\ r \in Going /\ r # 0 /\ Complete \in ImportEvent
  BY <1>2, WhoIsGoing, WizardEvents
<1>8. WizardTypes'
  BY <1>2, <1>4, <1>6, <1>7, ToldPages DEF WizardTypes
<1>9. RowsAreSent'
  BY <1>2, <1>3, <1>4 DEF WizardInv, RowsAreSent, ThreadRecord
<1>10. \A s \in Run : import'[s].stored = import[s].stored
  BY <1>3, <1>4
<1>11. outcome \notin {"none", "preview", "running"}
  BY DEF Done
<1>12. ChannelIsLast'
  <2>1. wizard.channel # 0 => wizard.channel \in Run
    BY DEF WizardInv, ChannelIsLast, Started
  <2> QED
    BY <1>5, <1>6, <1>10, <1>11, <2>1 DEF WizardInv, ChannelIsLast
<1>13. ASSUME NEW w \in Browser
       PROVE  (IsTold(browser[w]) /\ GoesForward(browser[w]))'
  <2>1. PICK page \in PageRecord : page = browser[w]
    BY DEF WizardInv, WizardTypes
  <2>2. PICK told : told = browser'[w]
    OBVIOUS
  <2>3. IsTold(page) /\ GoesForward(page)
    BY <2>1 DEF WizardInv
  <2>4. ~wizard.twice /\ page.channel # 0 =>
          page.channel = wizard.channel /\ wizard.channel = r /\ NoneIsAhead(page, new.stored)
    BY <1>3, <1>7, <2>3 DEF GoesForward
  <2>5. ~wizard.twice => InOrder(page)
    BY <2>3 DEF GoesForward
  <2>6. /\ told.at = page.at /\ told.channel = page.channel
        /\ told.first = page.first /\ told.shown = page.shown
        /\ page.at # "watching" => told.box = page.box
        /\ page.at = "watching" /\ page.channel = r => Has(told.box, Complete)
        /\ page.channel # r => told.box = page.box
        /\ ~wizard.twice => InOrder(told) /\ (page.channel # 0 => NoneIsAhead(told, new.stored))
    <3>1. CASE page.at = "watching" /\ page.channel = r
      <4>1. told = Sent(page, Complete)
        BY <1>2, <1>7, <2>1, <2>2, <3>1, ToldPages
      <4>2. /\ told.at = page.at /\ told.channel = page.channel
            /\ told.first = page.first /\ told.shown = page.shown
        BY <1>7, <4>1, SentIsTail
      <4>3. Has(told.box, Complete)
        BY <1>7, <4>1, SentHas
      <4>4. ~wizard.twice => InOrder(told) /\ NoneIsAhead(told, new.stored)
        BY <1>3, <1>7, <2>4, <2>5, <3>1, <4>1, SentInOrder
      <4> QED
        BY <3>1, <4>2, <4>3, <4>4
    <3>2. CASE ~(page.at = "watching" /\ page.channel = r)
      <4>1. told = page
        BY <1>2, <1>7, <2>1, <2>2, <3>2, ToldPages
      <4> QED
        BY <2>4, <2>5, <3>2, <4>1
    <3> QED
      BY <3>1, <3>2
  <2>7. IsTold(browser[w])'
    <3>1. page.at = "watching" =>
            \/ told.channel \in Going' \/ Has(told.first, Complete) \/ Has(told.box, Complete)
            \/ told.channel \notin Going' \cup {wizard'.channel} \/ told.channel = 0
      <4>1. CASE page.channel = r
        BY <2>6, <4>1
      <4>2. CASE page.channel # r
        BY <1>5, <1>6, <2>3, <2>6, <4>2 DEF IsTold
      <4> QED
        BY <4>1, <4>2
    <3>2. /\ told.at # "watching" => told.first = <<>> /\ told.box = <<>> /\ told.shown = Nothing
          /\ told.channel # 0 => told.channel \in Started'
          /\ told.at = "unfinished" => wizard'.twice
      BY <1>5, <1>6, <2>3, <2>6 DEF IsTold
    <3>3. wizard'.status \in Done /\ wizard'.status \notin {"none", "preview"}
      BY <1>6, <1>11
    <3> QED
      BY <2>2, <2>6, <3>1, <3>2, <3>3 DEF IsTold
  <2>8. GoesForward(browser[w])'
    <3>1. ~wizard.twice => import'[wizard.channel].stored = new.stored
      BY <1>4, <1>7
    <3> QED
      BY <1>6, <2>2, <2>4, <2>6, <3>1 DEF GoesForward
  <2> QED
    BY <2>7, <2>8
<1> QED
  BY <1>8, <1>9, <1>12, <1>13 DEF WizardInv

\* A browser is sent to the progress.
LEMMA OpenProgressStep ==
  ASSUME WizardInv, NEW w \in Browser, OpenProgress(w)
  PROVE  WizardInv'
<1>1. PICK page \in PageRecord : page = browser[w]
  BY DEF WizardInv, WizardTypes
<1>2. PICK new : new = [page EXCEPT !.at = "opening"]
  OBVIOUS
<1>3. /\ page.at = "elsewhere" /\ wizard.status \notin {"none"} \cup Done
      /\ browser' = [browser EXCEPT ![w] = new] /\ UNCHANGED <<wizard, import>>
  BY <1>1, <1>2 DEF OpenProgress
<1>4. /\ new \in PageRecord /\ new.at = "opening" /\ new.channel = page.channel
      /\ new.first = page.first /\ new.box = page.box /\ new.shown = page.shown
  BY <1>2 DEF PageRecord
<1>5. IsTold(page) /\ GoesForward(page)
  BY <1>1 DEF WizardInv
<1>6. IsTold(new)
  BY <1>3, <1>4, <1>5 DEF IsTold
<1>7. GoesForward(new)
  BY <1>4, <1>5 DEF GoesForward, InOrder, NoneIsAhead
<1> QED
  BY <1>3, <1>4, <1>6, <1>7, OnePageStep

\* import_progress_sse: the latest row, and the end if it was before.
LEMMA SubscribeStep ==
  ASSUME WizardInv, NEW w \in Browser, Subscribe(w)
  PROVE  WizardInv'
<1>1. PICK e \in ImportEvent : e = wizard.latest
  BY DEF WizardInv, WizardTypes, WizardRecord
<1>2. PICK latest : latest = IF e = Nothing THEN <<>> ELSE <<e>>
  OBVIOUS
<1>3. /\ latest \in Seq(ImportEvent) /\ DOMAIN latest = 1 .. Len(latest) /\ Len(latest) \in {0, 1}
      /\ \A i \in DOMAIN latest : latest[i] = e
  <2>1. CASE latest = <<>>
    BY <2>1
  <2>2. CASE latest = <<e>>
    BY <2>2
  <2> QED
    BY <1>2, <2>1, <2>2
<1>4. e # Complete /\ e.row \in Nat /\ Complete \in ImportEvent /\ Nothing.row = 0 /\ Nothing # Complete
  BY <1>1, WizardEvents DEF WizardInv, ChannelIsLast, ImportEvent
<1>5. wizard.status # "none"
  BY DEF Subscribe
<1>6. CASE wizard.status \in Done
  <2>1. PICK new : new = [Elsewhere EXCEPT !.at = "watching", !.first = Append(latest, Complete)]
    OBVIOUS
  <2>2. browser' = [browser EXCEPT ![w] = new] /\ UNCHANGED <<wizard, import>>
    BY <1>1, <1>2, <1>6, <2>1 DEF Subscribe
  <2>3. Append(latest, Complete) \in Seq(ImportEvent)
    BY <1>3, <1>4
  <2>4. /\ new \in PageRecord /\ new.at = "watching" /\ new.channel = 0
        /\ new.first = Append(latest, Complete) /\ new.box = <<>> /\ new.shown = Nothing
    BY <2>1, <2>3, ElsewhereIs DEF PageRecord
  <2>5. /\ DOMAIN new.first = 1 .. Len(latest) + 1
        /\ \A i \in DOMAIN new.first : new.first[i] = IF i = Len(latest) + 1 THEN Complete ELSE e
    BY <1>3, <2>4
  <2>6. Has(new.first, Complete)
    <3>1. Len(latest) + 1 \in DOMAIN new.first
      BY <1>3, <2>5
    <3> QED
      BY <2>5, <3>1 DEF Has
  <2>7. IsTold(new)
    BY <1>5, <1>6, <2>4, <2>6 DEF IsTold, Done
  <2>8. InOrder(new)
    BY <1>4, <2>4, <2>5 DEF InOrder
  <2>9. GoesForward(new)
    BY <2>4, <2>8 DEF GoesForward
  <2> QED
    BY <2>2, <2>4, <2>7, <2>9, OnePageStep
<1>7. CASE wizard.status \notin Done
  <2>1. PICK new : new = [Elsewhere EXCEPT !.at = "watching", !.first = latest,
                                           !.channel = wizard.channel]
    OBVIOUS
  <2>2. browser' = [browser EXCEPT ![w] = new] /\ UNCHANGED <<wizard, import>>
    BY <1>1, <1>2, <1>7, <2>1 DEF Subscribe
  <2>3. wizard.channel \in 0 .. MaxRuns
    BY DEF WizardInv, WizardTypes, WizardRecord
  <2>4. /\ new \in PageRecord /\ new.at = "watching" /\ new.channel = wizard.channel
        /\ new.first = latest /\ new.box = <<>> /\ new.shown = Nothing
    BY <1>3, <2>1, <2>3, ElsewhereIs DEF PageRecord
  <2>5. ~Has(new.first, Complete) /\ ~Has(new.box, Complete)
    BY <1>3, <1>4, <2>4 DEF Has
  <2>6. wizard.status \in {"preview", "running"}
    BY <1>5, <1>7 DEF WizardInv, WizardTypes, WizardRecord, Done
  <2>7. /\ wizard.status = "preview" => new.channel = 0
        /\ wizard.status = "running" => new.channel \in Going
        /\ new.channel # 0 => new.channel \in Started
        /\ ~wizard.twice /\ new.channel # 0 => e.row <= import[wizard.channel].stored
    BY <1>1, <2>4 DEF WizardInv, ChannelIsLast
  <2>8. IsTold(new)
    BY <2>4, <2>5, <2>6, <2>7 DEF IsTold
  <2>9. InOrder(new)
    BY <1>3, <1>4, <2>4 DEF InOrder
  <2>10. ASSUME ~wizard.twice, new.channel # 0
         PROVE  NoneIsAhead(new, import[wizard.channel].stored)
    <3>1. e.row <= import[wizard.channel].stored /\ import[wizard.channel].stored \in Nat
      <4>1. wizard.channel \in Run
        BY <2>4, <2>7, <2>10 DEF Started
      <4> QED
        BY <2>7, <2>10, <4>1 DEF WizardInv, WizardTypes, ThreadRecord
    <3>2. DOMAIN new.box = {} /\ \A i \in DOMAIN new.first : new.first[i] = e
      BY <1>3, <2>4
    <3>3. new.shown.row = 0
      BY <1>4, <2>4
    <3> QED
      BY <3>1, <3>2, <3>3 DEF NoneIsAhead
  <2>11. GoesForward(new)
    BY <2>4, <2>9, <2>10 DEF GoesForward
  <2> QED
    BY <2>2, <2>4, <2>8, <2>11, OnePageStep
<1> QED
  BY <1>6, <1>7

\* The rest of what a page is told is in order, and the end is in it if it was.
LEMMA RestOfSequence ==
  ASSUME NEW s \in Seq(ImportEvent), s # <<>>
  PROVE  /\ Tail(s) \in Seq(ImportEvent) /\ Head(s) = s[1] /\ s[1] \in ImportEvent /\ 1 \in DOMAIN s
         /\ DOMAIN s = 1 .. Len(s) /\ DOMAIN Tail(s) = 1 .. Len(s) - 1 /\ Len(s) \in Nat
         /\ \A i \in DOMAIN Tail(s) : i + 1 \in DOMAIN s /\ Tail(s)[i] = s[i + 1]
         /\ Head(s) # Complete => (Has(Tail(s), Complete) <=> Has(s, Complete))
<1>1. /\ Tail(s) \in Seq(ImportEvent) /\ Head(s) = s[1] /\ s[1] \in ImportEvent /\ 1 \in DOMAIN s
      /\ DOMAIN s = 1 .. Len(s) /\ DOMAIN Tail(s) = 1 .. Len(s) - 1 /\ Len(s) \in Nat
  OBVIOUS
<1>2. \A i \in DOMAIN Tail(s) : i + 1 \in DOMAIN s /\ Tail(s)[i] = s[i + 1]
  BY <1>1
<1>3. ASSUME Has(Tail(s), Complete)
      PROVE  Has(s, Complete)
  BY <1>2, <1>3 DEF Has
<1>4. ASSUME Head(s) # Complete, Has(s, Complete)
      PROVE  Has(Tail(s), Complete)
  <2>1. PICK i \in DOMAIN s : s[i] = Complete
    BY <1>4 DEF Has
  <2>2. i - 1 \in DOMAIN Tail(s)
    BY <1>1, <1>4, <2>1
  <2>3. Tail(s)[i - 1] = Complete
    BY <1>2, <2>1, <2>2
  <2> QED
    BY <2>2, <2>3 DEF Has
<1> QED
  BY <1>1, <1>2, <1>3, <1>4

\* The page shows the next row, or is taken to the results.
LEMMA ShowStep ==
  ASSUME WizardInv, NEW w \in Browser, Show(w)
  PROVE  WizardInv'
<1>1. PICK page \in PageRecord : page = browser[w]
  BY DEF WizardInv, WizardTypes
<1>2. PICK e : e = IF page.first # <<>> THEN Head(page.first) ELSE Head(page.box)
  OBVIOUS
<1>3. PICK new : new = IF e = Complete THEN [Elsewhere EXCEPT !.at = Results]
                       ELSE IF page.first # <<>> THEN [page EXCEPT !.shown = e, !.first = Tail(@)]
                       ELSE [page EXCEPT !.shown = e, !.box = Tail(@)]
  OBVIOUS
<1>4. /\ page.at = "watching" /\ page.first \o page.box # <<>>
      /\ browser' = [browser EXCEPT ![w] = new] /\ UNCHANGED <<wizard, import>>
  BY <1>1, <1>2, <1>3 DEF Show
<1>5. IsTold(page) /\ GoesForward(page) /\ page.first \in Seq(ImportEvent) /\ page.box \in Seq(ImportEvent)
  BY <1>1 DEF WizardInv, PageRecord
<1>6. page.first = <<>> => page.box # <<>>
  BY <1>4, <1>5
<1>7. wizard.status # "none"
  BY <1>4, <1>5 DEF IsTold
<1>8. new \in PageRecord /\ IsTold(new) /\ GoesForward(new)
  <2>1. CASE e = Complete
    <3>1. Results \in {"results", "unfinished"}
      BY DEF Results
    <3>2. /\ new \in PageRecord /\ new.at = Results /\ new.channel = 0
          /\ new.first = <<>> /\ new.box = <<>> /\ new.shown = Nothing
      BY <1>3, <2>1, <3>1, ElsewhereIs DEF PageRecord
    <3>3. Has(page.first, Complete) \/ Has(page.box, Complete)
      BY <1>2, <1>5, <1>6, <2>1, RestOfSequence DEF Has
    <3>4. Results = "unfinished" => wizard.twice
      BY <1>5, <3>3 DEF Results, IsTold
    <3> QED
      BY <1>7, <3>1, <3>2, <3>4, BlankPage
  <2>2. CASE e # Complete /\ page.first # <<>>
    <3>1. /\ Tail(page.first) \in Seq(ImportEvent) /\ e = page.first[1] /\ e \in ImportEvent
          /\ 1 \in DOMAIN page.first
          /\ Has(Tail(page.first), Complete) <=> Has(page.first, Complete)
      BY <1>2, <1>5, <2>2, RestOfSequence
    <3>2. \A i \in DOMAIN Tail(page.first) :
            i + 1 \in DOMAIN page.first /\ Tail(page.first)[i] = page.first[i + 1]
      BY <1>5, <2>2, RestOfSequence
    <3>3. /\ DOMAIN page.first = 1 .. Len(page.first) /\ Len(page.first) \in Nat
          /\ DOMAIN Tail(page.first) = 1 .. Len(page.first) - 1
      BY <1>5, <2>2, RestOfSequence
    <3>4. /\ new \in PageRecord /\ new.at = page.at /\ new.channel = page.channel
          /\ new.first = Tail(page.first) /\ new.box = page.box /\ new.shown = e
      BY <1>3, <2>2, <3>1 DEF PageRecord
    <3>5. IsTold(new)
      BY <1>4, <1>5, <3>1, <3>4 DEF IsTold
    <3>6. ASSUME InOrder(page)
          PROVE  InOrder(new)
      BY <2>2, <3>1, <3>2, <3>3, <3>4, <3>6 DEF InOrder
    <3>7. ASSUME NEW n, NoneIsAhead(page, n)
          PROVE  NoneIsAhead(new, n)
      BY <2>2, <3>1, <3>2, <3>4, <3>7 DEF NoneIsAhead
    <3>8. GoesForward(new)
      BY <1>5, <3>4, <3>6, <3>7 DEF GoesForward
    <3> QED
      BY <3>4, <3>5, <3>8
  <2>3. CASE e # Complete /\ page.first = <<>>
    <3>1. /\ Tail(page.box) \in Seq(ImportEvent) /\ e = page.box[1] /\ e \in ImportEvent
          /\ 1 \in DOMAIN page.box
          /\ Has(Tail(page.box), Complete) <=> Has(page.box, Complete)
      BY <1>2, <1>5, <1>6, <2>3, RestOfSequence
    <3>2. \A i \in DOMAIN Tail(page.box) :
            i + 1 \in DOMAIN page.box /\ Tail(page.box)[i] = page.box[i + 1]
      BY <1>5, <1>6, <2>3, RestOfSequence
    <3>3. /\ DOMAIN page.box = 1 .. Len(page.box) /\ Len(page.box) \in Nat
          /\ DOMAIN Tail(page.box) = 1 .. Len(page.box) - 1 /\ DOMAIN page.first = {}
      BY <1>5, <1>6, <2>3, RestOfSequence
    <3>4. /\ new \in PageRecord /\ new.at = page.at /\ new.channel = page.channel
          /\ new.first = page.first /\ new.box = Tail(page.box) /\ new.shown = e
      BY <1>3, <2>3, <3>1 DEF PageRecord
    <3>5. IsTold(new)
      BY <1>4, <1>5, <3>1, <3>4 DEF IsTold
    <3>6. ASSUME InOrder(page)
          PROVE  InOrder(new)
      BY <2>3, <3>1, <3>2, <3>3, <3>4, <3>6 DEF InOrder
    <3>7. ASSUME NEW n, NoneIsAhead(page, n)
          PROVE  NoneIsAhead(new, n)
      BY <2>3, <3>1, <3>2, <3>3, <3>4, <3>7 DEF NoneIsAhead
    <3>8. GoesForward(new)
      BY <1>5, <3>4, <3>6, <3>7 DEF GoesForward
    <3> QED
      BY <3>4, <3>5, <3>8
  <2> QED
    BY <2>1, <2>2, <2>3
<1> QED
  BY <1>4, <1>8, OnePageStep

\* The page takes the end of the stream for the end, and asks for the results.
LEMMA StreamBreaksStep ==
  ASSUME WizardInv, NEW w \in Browser, StreamBreaks(w)
  PROVE  WizardInv'
<1>1. PICK place \in {"results", "cut off"} : place = IF Results = "results" THEN "results" ELSE "cut off"
  OBVIOUS
<1>2. PICK new : new = [Elsewhere EXCEPT !.at = place]
  OBVIOUS
<1>3. browser' = [browser EXCEPT ![w] = new] /\ UNCHANGED <<wizard, import>>
  BY <1>1, <1>2 DEF StreamBreaks
<1>4. /\ new \in PageRecord /\ new.at = place /\ new.channel = 0
      /\ new.first = <<>> /\ new.box = <<>> /\ new.shown = Nothing
  BY <1>1, <1>2, ElsewhereIs DEF PageRecord
<1>5. IsTold(new) /\ GoesForward(new)
  BY <1>4, BlankPage
<1> QED
  BY <1>3, <1>4, <1>5, OnePageStep

LEMMA GoBackStep ==
  ASSUME WizardInv, NEW w \in Browser, GoBack(w)
  PROVE  WizardInv'
<1>1. PICK new : new = Elsewhere
  OBVIOUS
<1>2. browser' = [browser EXCEPT ![w] = new] /\ UNCHANGED <<wizard, import>>
  BY <1>1 DEF GoBack
<1>3. /\ new \in PageRecord /\ new.at = "elsewhere" /\ new.channel = 0
      /\ new.first = <<>> /\ new.box = <<>> /\ new.shown = Nothing
  BY <1>1, ElsewhereIs
<1>4. IsTold(new) /\ GoesForward(new)
  BY <1>3, BlankPage
<1> QED
  BY <1>2, <1>3, <1>4, OnePageStep

\* The session is gone with the server, and every thread and stream.
LEMMA ServerRestartsStep ==
  ASSUME WizardInv, ServerRestarts
  PROVE  WizardInv'
<1>1. /\ wizard'.status = "none" /\ wizard'.latest = Nothing /\ wizard'.channel = 0
      /\ wizard'.twice = FALSE
      /\ wizard' \in WizardRecord
  BY NoWizardIs DEF ServerRestarts
<1>2. ASSUME NEW r \in Run
      PROVE  /\ import'[r] \in ThreadRecord /\ import'[r].sent = import'[r].stored
             /\ import'[r].at # "running" /\ (import'[r].at = "none" => import'[r].stored = 0)
  <2>1. PICK thread \in ThreadRecord :
          /\ thread = import[r] /\ (thread.at = "none" => thread.stored = 0 /\ thread.sent = 0)
    BY DEF WizardInv, WizardTypes, RowsAreSent
  <2>2. PICK new : new = [thread EXCEPT !.at = "ended", !.sent = thread.stored]
    OBVIOUS
  <2>3. new \in ThreadRecord /\ new.at = "ended" /\ new.sent = new.stored
    BY <2>2 DEF ThreadRecord
  <2>4. import'[r] = IF thread.at = "none" THEN thread ELSE new
    BY <2>1, <2>2 DEF ServerRestarts
  <2> QED
    BY <2>1, <2>3, <2>4
<1>3. import' \in [Run -> ThreadRecord]
  <2>1. import' = [r \in Run |-> import'[r]]
    BY DEF ServerRestarts
  <2> QED
    BY <1>2, <2>1
<1>4. Going' = {}
  BY <1>2 DEF Going
<1>5. RowsAreSent'
  <2>1. \A r \in Run : import'[r].sent \in Nat
    BY <1>2 DEF ThreadRecord
  <2> QED
    BY <1>2, <2>1 DEF RowsAreSent
<1>6. ChannelIsLast'
  BY <1>1, <1>4, WizardEvents DEF ChannelIsLast
<1>7. ASSUME NEW w \in Browser
      PROVE  /\ browser'[w] \in PageRecord
             /\ browser'[w].first = <<>> /\ browser'[w].box = <<>> /\ browser'[w].shown = Nothing
             /\ browser'[w].channel = 0 /\ browser'[w].at \in {"elsewhere", "cut off"}
  <2>1. PICK new : new = [Elsewhere EXCEPT !.at = "cut off"]
    OBVIOUS
  <2>2. /\ new \in PageRecord /\ new.at = "cut off" /\ new.channel = 0
        /\ new.first = <<>> /\ new.box = <<>> /\ new.shown = Nothing
    BY <2>1, ElsewhereIs DEF PageRecord
  <2>3. browser'[w] = new \/ browser'[w] = Elsewhere
    BY <2>1 DEF ServerRestarts
  <2> QED
    BY <2>2, <2>3, ElsewhereIs
<1>8. WizardTypes'
  <2>1. browser' = [w \in Browser |-> browser'[w]]
    BY DEF ServerRestarts
  <2>2. browser' \in [Browser -> PageRecord]
    BY <1>7, <2>1
  <2> QED
    BY <1>1, <1>3, <2>2 DEF WizardTypes
<1>9. ASSUME NEW w \in Browser
      PROVE  (IsTold(browser[w]) /\ GoesForward(browser[w]))'
  <2>1. PICK page : page = browser'[w]
    OBVIOUS
  <2>2. /\ page.first = <<>> /\ page.box = <<>> /\ page.shown = Nothing
        /\ page.channel = 0 /\ page.at \in {"elsewhere", "cut off"}
    <3>1. /\ browser'[w].first = <<>> /\ browser'[w].box = <<>> /\ browser'[w].shown = Nothing
          /\ browser'[w].channel = 0 /\ browser'[w].at \in {"elsewhere", "cut off"}
      BY <1>7
    <3> QED
      BY <2>1, <3>1, Zenon
  <2>3. DOMAIN page.first = {} /\ DOMAIN page.box = {} /\ page.shown # Complete
    <3>1. DOMAIN <<>> = {} /\ Nothing # Complete
      BY WizardEvents
    <3> QED
      BY <2>2, <3>1, Zenon
  <2>4. InOrder(page) /\ ~Has(page.first, Complete) /\ ~Has(page.box, Complete)
    BY <2>3 DEF InOrder, Has
  <2>5. IsTold(browser[w])'
    BY <1>1, <2>1, <2>2, <2>4 DEF IsTold
  <2>6. GoesForward(browser[w])'
    BY <2>1, <2>2, <2>4 DEF GoesForward
  <2> QED
    BY <2>5, <2>6
<1> QED
  BY <1>5, <1>6, <1>8, <1>9 DEF WizardInv

LEMMA WizardStep == WizardInv /\ [WizardNext]_wizardVars => WizardInv'
<1> SUFFICES ASSUME WizardInv, [WizardNext]_wizardVars PROVE WizardInv'
  OBVIOUS
<1>1. CASE UNCHANGED wizardVars
  BY <1>1, WizardStutters
<1>2. CASE Upload
  BY <1>2, UploadStep
<1>3. CASE ServerRestarts
  BY <1>3, ServerRestartsStep
<1>4. ASSUME NEW r \in Run,
             Execute(r) \/ StoreRow(r) \/ SendRow(r) \/ \E outcome \in Done : RunEnds(r, outcome)
      PROVE  WizardInv'
  BY <1>4, ExecuteStep, StoreRowStep, SendRowStep, RunEndsStep
<1>5. ASSUME NEW w \in Browser,
             OpenProgress(w) \/ Subscribe(w) \/ Show(w) \/ StreamBreaks(w) \/ GoBack(w)
      PROVE  WizardInv'
  BY <1>5, OpenProgressStep, SubscribeStep, ShowStep, StreamBreaksStep, GoBackStep
<1> QED
  BY <1>1, <1>2, <1>3, <1>4, <1>5 DEF WizardNext

\* The invariant states what a page finds of the rows that are coming in two parts.
LEMMA WizardInvTells == WizardInv => NobodyWaitsInVain
<1> SUFFICES ASSUME WizardInv, NEW w \in Browser
             PROVE  /\ browser[w].at = "watching" =>
                         browser[w].channel \in Going \/ EndIsComing(browser[w]) \/ Ended(w)
                    /\ wizard.twice \/
                         \A i, j \in DOMAIN (<<browser[w].shown>> \o Coming(browser[w])) :
                           i <= j /\ Complete \notin {(<<browser[w].shown>> \o Coming(browser[w]))[i],
                                                      (<<browser[w].shown>> \o Coming(browser[w]))[j]}
                           => (<<browser[w].shown>> \o Coming(browser[w]))[i].row
                                <= (<<browser[w].shown>> \o Coming(browser[w]))[j].row
                    /\ browser[w].at = "unfinished" => wizard.twice
  BY DEF NobodyWaitsInVain
<1>1. PICK page \in PageRecord : page = browser[w]
  BY DEF WizardInv, WizardTypes
<1>2. IsTold(page) /\ GoesForward(page)
  BY <1>1 DEF WizardInv
<1>3. /\ page.first \in Seq(ImportEvent) /\ page.box \in Seq(ImportEvent) /\ page.shown \in ImportEvent
      /\ DOMAIN page.first = 1 .. Len(page.first) /\ DOMAIN page.box = 1 .. Len(page.box)
      /\ Len(page.first) \in Nat /\ Len(page.box) \in Nat
  BY PageSequences
<1>4. PICK first, box, shown : first = page.first /\ box = page.box /\ shown = page.shown
  OBVIOUS
<1>5. PICK coming : coming = first \o box
  OBVIOUS
<1>6. /\ Len(coming) = Len(first) + Len(box) /\ coming \in Seq(ImportEvent) /\ DOMAIN coming = 1 .. Len(coming)
      /\ Len(first) \in Nat /\ Len(box) \in Nat
      /\ \A i \in 1 .. Len(coming) :
           coming[i] = IF i <= Len(first) THEN first[i] ELSE box[i - Len(first)]
  <2>1. first \in Seq(ImportEvent) /\ box \in Seq(ImportEvent) /\ Len(first) \in Nat /\ Len(box) \in Nat
    BY <1>3, <1>4
  <2>2. coming \in Seq(ImportEvent) /\ Len(coming) = Len(first) + Len(box)
    BY <1>5, <2>1
  <2>3. DOMAIN coming = 1 .. Len(coming)
    BY <2>2
  <2>4. ASSUME NEW i \in 1 .. Len(coming)
        PROVE  coming[i] = IF i <= Len(first) THEN first[i] ELSE box[i - Len(first)]
    BY <1>5, <2>1, <2>2
  <2> QED
    BY <2>1, <2>2, <2>3, <2>4
<1>7. ASSUME Has(first, Complete) \/ Has(box, Complete)
      PROVE  EndIsComing(page)
  <2>1. CASE Has(first, Complete)
    <3>1. PICK i \in 1 .. Len(first) : first[i] = Complete
      BY <1>3, <1>4, <2>1 DEF Has
    <3>2. i \in 1 .. Len(coming) /\ i <= Len(first)
      BY <1>6, <3>1
    <3>3. i \in DOMAIN coming /\ coming[i] = Complete
      BY <1>6, <3>1, <3>2
    <3> QED
      BY <1>4, <1>5, <3>3 DEF EndIsComing, Coming
  <2>2. CASE Has(box, Complete)
    <3>1. PICK i \in 1 .. Len(box) : box[i] = Complete
      BY <1>3, <1>4, <2>2 DEF Has
    <3>2. Len(first) + i \in 1 .. Len(coming) /\ ~(Len(first) + i <= Len(first)) /\ Len(first) + i - Len(first) = i
      BY <1>6, <3>1
    <3>3. Len(first) + i \in DOMAIN coming /\ coming[Len(first) + i] = Complete
      BY <1>6, <3>1, <3>2
    <3> QED
      BY <1>4, <1>5, <3>3 DEF EndIsComing, Coming
  <2> QED
    BY <1>7, <2>1, <2>2
<1>8. page.at = "watching" => page.channel \in Going \/ EndIsComing(page) \/ Ended(w)
  BY <1>1, <1>2, <1>4, <1>7 DEF IsTold, Ended
<1>9. PICK told : told = <<shown>> \o coming
  OBVIOUS
<1>10. /\ DOMAIN told = 1 .. Len(coming) + 1
       /\ \A i \in DOMAIN told : told[i] = IF i = 1 THEN shown ELSE coming[i - 1]
  <2>1. /\ <<shown>> \in Seq(ImportEvent) /\ Len(<<shown>>) = 1 /\ <<shown>>[1] = shown
    BY <1>3, <1>4
  <2> QED
    BY <1>6, <1>9, <2>1
<1>11. ASSUME NEW i \in DOMAIN told
       PROVE  \/ i = 1 /\ told[i] = shown
              \/ i - 1 \in DOMAIN first /\ told[i] = first[i - 1]
              \/ i - 1 > Len(first) /\ i - 1 - Len(first) \in DOMAIN box /\ told[i] = box[i - 1 - Len(first)]
  <2>1. i \in 1 .. Len(coming) + 1 /\ told[i] = IF i = 1 THEN shown ELSE coming[i - 1]
    BY <1>10
  <2>2. /\ Len(first) \in Nat /\ Len(box) \in Nat /\ Len(coming) = Len(first) + Len(box)
        /\ DOMAIN first = 1 .. Len(first) /\ DOMAIN box = 1 .. Len(box)
    BY <1>3, <1>4, <1>6
  <2>3. ASSUME i # 1
        PROVE  /\ i - 1 \in 1 .. Len(coming)
               /\ i - 1 <= Len(first) => i - 1 \in DOMAIN first
               /\ ~(i - 1 <= Len(first)) => i - 1 > Len(first) /\ i - 1 - Len(first) \in DOMAIN box
    BY <2>1, <2>2, <2>3
  <2> QED
    BY <1>6, <2>1, <2>3
<1>12. shown.row \in Nat
  BY <1>3, <1>4 DEF ImportEvent
<1>13. ASSUME ~wizard.twice, NEW i \in DOMAIN told, NEW j \in DOMAIN told, i <= j,
              told[i] # Complete, told[j] # Complete
       PROVE  told[i].row <= told[j].row
  <2>1. InOrder(page) /\ i \in Nat /\ j \in Nat
    BY <1>2, <1>6, <1>10, <1>13 DEF GoesForward
  <2>2. CASE i = 1 /\ told[i] = shown
    <3>1. CASE j = 1 /\ told[j] = shown
      BY <1>12, <2>2, <3>1
    <3>2. CASE j # 1
      BY <1>4, <1>11, <1>13, <2>1, <2>2, <3>2 DEF InOrder
    <3> QED
      BY <1>11, <3>1, <3>2
  <2>3. CASE i - 1 \in DOMAIN first /\ told[i] = first[i - 1]
    <3>1. j # 1
      BY <1>3, <1>4, <1>13, <2>1, <2>3
    <3>2. CASE j - 1 \in DOMAIN first /\ told[j] = first[j - 1]
      BY <1>4, <1>13, <2>1, <2>3, <3>2 DEF InOrder
    <3>3. CASE j - 1 - Len(first) \in DOMAIN box /\ told[j] = box[j - 1 - Len(first)]
      BY <1>4, <1>13, <2>1, <2>3, <3>3 DEF InOrder
    <3> QED
      BY <1>11, <3>1, <3>2, <3>3
  <2>4. CASE i - 1 > Len(first) /\ i - 1 - Len(first) \in DOMAIN box /\ told[i] = box[i - 1 - Len(first)]
    <3>1. j # 1 /\ j - 1 \notin DOMAIN first
      BY <1>3, <1>4, <1>13, <2>1, <2>4
    <3>2. j - 1 - Len(first) \in DOMAIN box /\ told[j] = box[j - 1 - Len(first)]
      BY <1>11, <3>1
    <3>3. i - 1 - Len(first) <= j - 1 - Len(first)
      BY <1>3, <1>4, <1>13, <2>1
    <3> QED
      BY <1>4, <1>13, <2>1, <2>4, <3>2, <3>3 DEF InOrder
  <2> QED
    BY <1>11, <2>2, <2>3, <2>4
<1>14. told = <<browser[w].shown>> \o Coming(browser[w])
  BY <1>1, <1>4, <1>5, <1>9 DEF Coming
<1>15. browser[w].at = "unfinished" => wizard.twice
  BY <1>1, <1>2 DEF IsTold
<1>16. wizard.twice \/ \A i, j \in DOMAIN told :
         i <= j /\ Complete \notin {told[i], told[j]} => told[i].row <= told[j].row
  BY <1>13
<1> QED
  BY <1>1, <1>8, <1>14, <1>15, <1>16

(***************************************************************************)
(* The inductive invariant of an import through the dashboard: a thread    *)
(* sends each row before it stores the next, the session has the channel   *)
(* of the last run, a page has the end coming or still to come, and what   *)
(* it holds is in order.                                                   *)
(***************************************************************************)
THEOREM WizardInvariant == WizardSpec => []WizardInv
<1>1. WizardInit => WizardInv
  BY WizardInitInv
<1>2. WizardInv /\ [WizardNext]_wizardVars => WizardInv'
  BY WizardStep
<1> QED
  BY <1>1, <1>2, PTL DEF WizardSpec

(***************************************************************************)
(* import_progress_sse: for any number of browsers, runs and rows, and for *)
(* any capacity of the channel, a page is told of the end, and of the rows *)
(* in order, however late it comes and however far it is behind.           *)
(***************************************************************************)
THEOREM EveryPageIsTold == WizardSpec => []NobodyWaitsInVain
<1>1. WizardInv => NobodyWaitsInVain
  BY WizardInvTells
<1> QED
  BY <1>1, WizardInvariant, PTL

-----------------------------------------------------------------------------
(* The keys of an account: the inductive invariant, in parts. *)

\* The shape of a bundle, and that its parts fit: the private box holds the key
\* of the public key, and the data box was made for it.
WellShaped(bundle) ==
  /\ bundle.public = Public(bundle.private.text)
  /\ bundle.data.box = Seal(WrapKey(Agreed(bundle.private.text, bundle.data.ephemeral), bundle.data.salt),
                            DataKeyAad(bundle.data.ephemeral, bundle.data.salt),
                            bundle.data.box.text)

\* The bundle is locked with these credentials.
LockedWith(bundle, credentials) ==
  bundle.private = Seal(UnlockKey(credentials, bundle.salt), PrivateKeyAad, bundle.private.text)

Usable == [password : Password \ {Blank}, secret : Typed]

\* The account a has a bundle, and its data key is this one.
IsKeyOf(a, key) ==
  /\ a \in Member /\ bundles[a] # {}
  /\ \A bundle \in bundles[a] : bundle.data.box.text = key

VaultShape ==
  /\ bundles = [a \in Member |-> bundles[a]]
  /\ kit \in [Member -> SUBSET Usable]
  /\ fetched = [m \in Machine |-> fetched[m]] /\ keyring = [m \in Machine |-> keyring[m]]
  /\ draws \in Nat

\* One bundle, locked with what its owner has, and no two accounts share a key.
BundlesFit ==
  \A a \in Member :
    /\ bundles[a] = {} <=> kit[a] = {}
    /\ \A b, c \in bundles[a] : b = c
    /\ \A c, d \in kit[a] : c = d
    /\ \A bundle \in bundles[a] :
         /\ WellShaped(bundle) /\ bundle.data.box.text \in 1 .. draws
         /\ \A owned \in kit[a] : LockedWith(bundle, owned)
         /\ \A other \in Member : \A b \in bundles[other] :
              b.data.box.text = bundle.data.box.text => other = a

\* A bundle on its way may be an old one, with the same data key.
FetchedFit ==
  \A m \in Machine : \A f \in fetched[m] :
    /\ IsKeyOf(f.of, f.bundle.data.box.text) /\ WellShaped(f.bundle)
    /\ \E c \in Usable : LockedWith(f.bundle, c)

KeysFit == \A m \in Machine : \A k \in keyring[m] : IsKeyOf(k.of, k.key)

\* What the server holds was sealed, under the key of the account.
EnvelopesFit ==
  \A e \in envelopes :
    /\ IsKeyOf(e.of, e.box.key)
    /\ [of |-> e.of, as |-> e.box.aad, text |-> e.box.text] \in sealings

VaultInv == VaultShape /\ BundlesFit /\ FetchedFit /\ KeysFit /\ EnvelopesFit /\ OpenedAsSealed

-----------------------------------------------------------------------------

\* Credentials open a bundle that is locked with them, and no others do.
LEMMA OnlyItsOwn ==
  ASSUME NEW bundle, WellShaped(bundle), NEW owned \in Usable, LockedWith(bundle, owned),
         NEW c \in Credentials
  PROVE  UnlockDataKey(bundle, c) = IF c = owned THEN {bundle.data.box.text} ELSE {}
<1>1. UnwrapPrivateKey(bundle, owned) = {bundle.private.text}
  <2>1. owned.password # Blank
    BY DEF Usable
  <2>2. bundle.private.key = UnlockKey(owned, bundle.salt) /\ bundle.private.aad = PrivateKeyAad
    BY DEF LockedWith, Seal
  <2> QED
    BY <2>1, <2>2 DEF UnwrapPrivateKey, Unseal
<1>2. UnwrapDataKey(bundle.data, bundle.private.text) = {bundle.data.box.text}
  <2>1. /\ bundle.data.box.key = WrapKey(Agreed(bundle.private.text, bundle.data.ephemeral), bundle.data.salt)
        /\ bundle.data.box.aad = DataKeyAad(bundle.data.ephemeral, bundle.data.salt)
    BY DEF WellShaped, Seal
  <2> QED
    BY <2>1 DEF UnwrapDataKey, Unseal
<1>3. UnlockDataKey(bundle, owned) = {bundle.data.box.text}
  <2>1. bundle.public = Public(bundle.private.text)
    BY DEF WellShaped
  <2> QED
    BY <1>1, <1>2, <2>1 DEF UnlockDataKey
<1>4. ASSUME c # owned PROVE UnlockDataKey(bundle, c) = {}
  <2>1. UnlockKey(c, bundle.salt) # UnlockKey(owned, bundle.salt)
    <3>1. c.password # owned.password \/ c.secret # owned.secret
      BY <1>4 DEF Credentials, Usable
    <3> QED
      BY <3>1 DEF UnlockKey
  <2>2. bundle.private.key = UnlockKey(owned, bundle.salt)
    BY DEF LockedWith, Seal
  <2>3. UnwrapPrivateKey(bundle, c) = {}
    BY <2>1, <2>2 DEF UnwrapPrivateKey, Unseal
  <2> QED
    BY <2>3 DEF UnlockDataKey
<1> QED
  BY <1>3, <1>4

\* A bundle that is made or locked anew fits.
LEMMA CreatedFits ==
  ASSUME NEW c \in Usable, NEW n \in Nat
  PROVE  /\ WellShaped(CreatedKeys(c, n)) /\ LockedWith(CreatedKeys(c, n), c)
         /\ CreatedKeys(c, n).data.box.text = n
<1> DEFINE b == CreatedKeys(c, n)
<1>1. /\ b.salt = n /\ b.public = Public(n) /\ b.private = WrapPrivateKey(c, n, n)
      /\ b.data = WrapDataKey(n, Public(n), n + 1)
  BY DEF CreatedKeys
<1>2. b.private.text = n /\ LockedWith(b, c)
  BY <1>1 DEF WrapPrivateKey, Seal, LockedWith
<1>3. /\ b.data.ephemeral = Public(n + 1) /\ b.data.salt = n + 1 /\ b.data.box.text = n
      /\ b.data.box = Seal(WrapKey(Agreed(n + 1, Public(n)), n + 1), DataKeyAad(Public(n + 1), n + 1), n)
  BY <1>1 DEF WrapDataKey, Seal
<1>4. Agreed(n + 1, Public(n)) = Agreed(n, Public(n + 1))
  BY DEF Agreed, Public
<1> HIDE DEF b
<1>5. WellShaped(b)
  BY <1>1, <1>2, <1>3, <1>4 DEF WellShaped
<1> QED
  BY <1>2, <1>3, <1>5 DEF b

LEMMA RewrappedFits ==
  ASSUME NEW bundle, WellShaped(bundle), NEW c \in Usable, NEW n \in Nat
  PROVE  /\ WellShaped(Rewrapped(bundle, bundle.private.text, c, n))
         /\ LockedWith(Rewrapped(bundle, bundle.private.text, c, n), c)
         /\ Rewrapped(bundle, bundle.private.text, c, n).data = bundle.data
<1> DEFINE b == Rewrapped(bundle, bundle.private.text, c, n)
<1>1. /\ b.salt = n /\ b.public = bundle.public /\ b.data = bundle.data
      /\ b.private = WrapPrivateKey(c, n, bundle.private.text)
  BY DEF Rewrapped
<1>2. b.private.text = bundle.private.text /\ LockedWith(b, c)
  BY <1>1 DEF WrapPrivateKey, Seal, LockedWith
<1> HIDE DEF b
<1>3. WellShaped(b)
  BY <1>1, <1>2 DEF WellShaped
<1> QED
  BY <1>1, <1>2, <1>3 DEF b

\* Initially there is no account.
LEMMA VaultInitInv == KeyVaultInit => VaultInv
  BY DEF KeyVaultInit, VaultInv, VaultShape, BundlesFit, FetchedFit, KeysFit, EnvelopesFit,
         OpenedAsSealed

\* What follows from the invariant about the bundle of an account and its owner.
LEMMA KeysOpen == VaultInv => KeysOpenTheLibrary
<1> SUFFICES ASSUME VaultInv, NEW a \in Member, NEW bundle \in bundles[a], NEW owned \in kit[a]
             PROVE  LET keys == UnlockDataKey(bundle, owned) IN
                    /\ keys # {}
                    /\ \A c \in Credentials : UnlockDataKey(bundle, c) # {} => c = owned
                    /\ \A m \in Machine : \A k \in keyring[m] : k.of = a => k.key \in keys
                    /\ \A e \in envelopes : e.of = a => e.box.key \in keys
  BY DEF KeysOpenTheLibrary
<1>1. owned \in Usable /\ owned \in Credentials
  BY DEF VaultInv, VaultShape, Usable, Credentials
<1>2. WellShaped(bundle) /\ LockedWith(bundle, owned)
  BY DEF VaultInv, BundlesFit
<1>3. \A c \in Credentials :
        UnlockDataKey(bundle, c) = IF c = owned THEN {bundle.data.box.text} ELSE {}
  BY <1>1, <1>2, OnlyItsOwn
<1>4. \A key : IsKeyOf(a, key) => key = bundle.data.box.text
  BY DEF IsKeyOf
<1>5. \A m \in Machine : \A k \in keyring[m] : k.of = a => k.key = bundle.data.box.text
  BY <1>4 DEF VaultInv, KeysFit
<1>6. \A e \in envelopes : e.of = a => e.box.key = bundle.data.box.text
  BY <1>4 DEF VaultInv, EnvelopesFit
<1> QED
  BY <1>1, <1>3, <1>5, <1>6

\* A new account has a key of its own.
LEMMA SignUpStep ==
  ASSUME VaultInv, NEW a \in Member, NEW m \in Machine, NEW password \in Password,
         SignUp(a, m, password)
  PROVE  VaultInv'
<1> DEFINE c == [password |-> password, secret |-> draws + 1]
           bundled == CreatedKeys(c, draws + 1)
<1>1. /\ bundles[a] = {} /\ password # Blank /\ draws + 2 <= MaxDraws /\ draws' = draws + 2
      /\ bundles' = [bundles EXCEPT ![a] = {bundled}] /\ kit' = [kit EXCEPT ![a] = {c}]
      /\ keyring' = [keyring EXCEPT ![m] = {[of |-> a, key |-> draws + 1]}]
  BY DEF SignUp
<1>11. UNCHANGED <<fetched, envelopes, sealings, readings>>
  BY DEF SignUp
<1>2. draws \in Nat /\ c \in Usable
  BY <1>1, KeyVaultAssumption DEF VaultInv, VaultShape, Usable, Typed
<1>3. WellShaped(bundled) /\ LockedWith(bundled, c) /\ bundled.data.box.text = draws + 1
  BY <1>2, CreatedFits
<1> HIDE DEF c, bundled
<1>4. /\ bundles' = [x \in Member |-> IF x = a THEN {bundled} ELSE bundles[x]]
      /\ kit' = [x \in Member |-> IF x = a THEN {c} ELSE kit[x]]
      /\ keyring' = [x \in Machine |-> IF x = m THEN {[of |-> a, key |-> draws + 1]} ELSE keyring[x]]
  BY <1>1 DEF VaultInv, VaultShape
<1>5. VaultShape'
  <2>1. kit' \in [Member -> SUBSET Usable]
    BY <1>2, <1>4 DEF VaultInv, VaultShape
  <2>2. draws' \in Nat
    BY <1>1, <1>2
  <2> QED
    BY <1>4, <1>11, <2>1, <2>2 DEF VaultInv, VaultShape
<1>6. BundlesFit'
  <2>1. ASSUME NEW x \in Member, NEW b \in bundles'[x]
        PROVE  \/ x = a /\ b = bundled
               \/ x # a /\ b \in bundles[x] /\ b.data.box.text \in 1 .. draws
    BY <1>4 DEF VaultInv, BundlesFit
  <2>2. ASSUME NEW x \in Member, NEW b \in bundles'[x]
        PROVE  /\ WellShaped(b) /\ b.data.box.text \in 1 .. draws'
               /\ \A owned \in kit'[x] : LockedWith(b, owned)
    <3>1. CASE x = a
      BY <1>1, <1>2, <1>3, <1>4, <2>1, <2>2, <3>1
    <3>2. CASE x # a
      BY <1>1, <1>2, <1>4, <2>1, <2>2, <3>2 DEF VaultInv, BundlesFit
    <3> QED
      BY <3>1, <3>2
  <2>3. ASSUME NEW x \in Member, NEW b \in bundles'[x], NEW y \in Member, NEW d \in bundles'[y],
               d.data.box.text = b.data.box.text
        PROVE  y = x
    BY <1>2, <1>3, <2>1, <2>3 DEF VaultInv, BundlesFit
  <2>4. ASSUME NEW x \in Member
        PROVE  /\ bundles'[x] = {} <=> kit'[x] = {}
               /\ \A b, d \in bundles'[x] : b = d
               /\ \A b, d \in kit'[x] : b = d
    BY <1>4 DEF VaultInv, BundlesFit
  <2> QED
    BY <2>2, <2>3, <2>4 DEF BundlesFit
<1>7. \A x, key : IsKeyOf(x, key) => IsKeyOf(x, key)'
  BY <1>1, <1>4 DEF IsKeyOf
<1>8. \A key : key = draws + 1 => IsKeyOf(a, key)'
  BY <1>3, <1>4 DEF IsKeyOf
<1>9. FetchedFit' /\ EnvelopesFit'
  BY <1>7, <1>11 DEF VaultInv, FetchedFit, EnvelopesFit
<1>10. KeysFit'
  BY <1>4, <1>7, <1>8 DEF VaultInv, KeysFit
<1> QED
  BY <1>5, <1>6, <1>9, <1>10, <1>11 DEF VaultInv, OpenedAsSealed

\* A rotation locks the same keys anew.
LEMMA RotateStep ==
  ASSUME VaultInv, NEW a \in Member, NEW old \in Credentials, NEW password \in Password,
         Rotate(a, old, password)
  PROVE  VaultInv'
<1>0. PICK bundle \in bundles[a] :
        \E private \in UnwrapPrivateKey(bundle, old) : \E secret \in {old.secret, draws + 1} :
          LET c == [password |-> password, secret |-> secret] IN
          /\ bundles' = [bundles EXCEPT ![a] = {Rewrapped(bundle, private, c, draws + 1)}]
          /\ kit' = [kit EXCEPT ![a] = {c}]
  BY DEF Rotate
<1>1. PICK private \in UnwrapPrivateKey(bundle, old), secret \in {old.secret, draws + 1} :
        LET c == [password |-> password, secret |-> secret] IN
        /\ bundles' = [bundles EXCEPT ![a] = {Rewrapped(bundle, private, c, draws + 1)}]
        /\ kit' = [kit EXCEPT ![a] = {c}]
  BY <1>0
<1>2. /\ password # Blank /\ draws < MaxDraws /\ draws' = draws + 1 /\ draws \in Nat
      /\ UNCHANGED <<fetched, keyring, envelopes, sealings, readings>>
  BY DEF Rotate, VaultInv, VaultShape
<1> DEFINE c == [password |-> password, secret |-> secret]
           bundled == Rewrapped(bundle, bundle.private.text, c, draws + 1)
<1>3. private = bundle.private.text
  BY <1>1 DEF UnwrapPrivateKey, Unseal
<1>4. c \in Usable
  BY <1>1, <1>2, KeyVaultAssumption DEF Usable, Typed, Credentials
<1>5. WellShaped(bundle) /\ bundle.data.box.text \in 1 .. draws
  BY <1>1 DEF VaultInv, BundlesFit
<1>6. WellShaped(bundled) /\ LockedWith(bundled, c) /\ bundled.data = bundle.data
  <2>1. draws + 1 \in Nat
    BY <1>2
  <2> HIDE DEF c
  <2> QED
    BY <1>4, <1>5, <2>1, RewrappedFits
<1>7. bundles' = [bundles EXCEPT ![a] = {bundled}] /\ kit' = [kit EXCEPT ![a] = {c}]
  BY <1>1, <1>3
<1> HIDE DEF c, bundled
<1>8. /\ bundles' = [x \in Member |-> IF x = a THEN {bundled} ELSE bundles[x]]
      /\ kit' = [x \in Member |-> IF x = a THEN {c} ELSE kit[x]]
  BY <1>7 DEF VaultInv, VaultShape
<1>9. VaultShape'
  BY <1>2, <1>4, <1>8 DEF VaultInv, VaultShape
<1>10. ASSUME NEW x \in Member, NEW b \in bundles'[x]
       PROVE  \E d \in bundles[x] : d.data = b.data
  BY <1>1, <1>6, <1>8, <1>10
<1>11. BundlesFit'
  <2>2. ASSUME NEW x \in Member, NEW b \in bundles'[x]
        PROVE  /\ WellShaped(b) /\ b.data.box.text \in 1 .. draws'
               /\ \A owned \in kit'[x] : LockedWith(b, owned)
    <3>1. CASE x = a
      BY <1>2, <1>5, <1>6, <1>8, <2>2, <3>1
    <3>2. CASE x # a
      BY <1>2, <1>8, <2>2, <3>2 DEF VaultInv, BundlesFit
    <3> QED
      BY <3>1, <3>2
  <2>3. ASSUME NEW x \in Member, NEW b \in bundles'[x], NEW y \in Member, NEW d \in bundles'[y],
               d.data.box.text = b.data.box.text
        PROVE  y = x
    <3>1. PICK b0 \in bundles[x] : b0.data = b.data
      BY <1>10, <2>3
    <3>2. PICK d0 \in bundles[y] : d0.data = d.data
      BY <1>10, <2>3
    <3> QED
      BY <2>3, <3>1, <3>2 DEF VaultInv, BundlesFit
  <2>4. ASSUME NEW x \in Member
        PROVE  /\ bundles'[x] = {} <=> kit'[x] = {}
               /\ \A b, d \in bundles'[x] : b = d
               /\ \A b, d \in kit'[x] : b = d
    BY <1>8 DEF VaultInv, BundlesFit
  <2> QED
    BY <2>2, <2>3, <2>4 DEF BundlesFit
<1>12. \A x, key : IsKeyOf(x, key) => IsKeyOf(x, key)'
  <2> SUFFICES ASSUME NEW x, NEW key, IsKeyOf(x, key) PROVE IsKeyOf(x, key)'
    OBVIOUS
  <2>1. bundles'[x] # {}
    BY <1>8 DEF IsKeyOf
  <2>2. \A b \in bundles'[x] : b.data.box.text = key
    BY <1>10 DEF IsKeyOf
  <2> QED
    BY <2>1, <2>2 DEF IsKeyOf
<1>13. FetchedFit' /\ EnvelopesFit' /\ KeysFit'
  BY <1>2, <1>12 DEF VaultInv, FetchedFit, EnvelopesFit, KeysFit
<1> QED
  BY <1>2, <1>9, <1>11, <1>13 DEF VaultInv, OpenedAsSealed

\* The bundles stay as they are, and with them whose key is whose.
LEMMA BundlesStay ==
  ASSUME VaultInv, UNCHANGED <<bundles, kit, draws>>
  PROVE  /\ BundlesFit' /\ \A x, key : IsKeyOf(x, key) => IsKeyOf(x, key)'
         /\ fetched' = [m \in Machine |-> fetched'[m]] /\ keyring' = [m \in Machine |-> keyring'[m]]
              => VaultShape'
  BY DEF VaultInv, VaultShape, BundlesFit, IsKeyOf

\* A login fetches the bundle as it is.
LEMMA FetchBundleStep ==
  ASSUME VaultInv, NEW m \in Machine, NEW a \in Member, FetchBundle(m, a)
  PROVE  VaultInv'
<1>1. UNCHANGED <<bundles, kit, keyring, envelopes, draws, sealings, readings>> /\ bundles[a] # {}
  BY DEF FetchBundle
<1>2. fetched' = [x \in Machine |-> IF x = m THEN {[of |-> a, bundle |-> b] : b \in bundles[a]}
                                             ELSE fetched[x]]
  BY DEF FetchBundle, VaultInv, VaultShape
<1>3. BundlesFit' /\ \A x, key : IsKeyOf(x, key) => IsKeyOf(x, key)'
  BY <1>1, BundlesStay
<1>4. VaultShape'
  BY <1>1, <1>2, BundlesStay DEF VaultInv, VaultShape
<1>5. ASSUME NEW x \in Machine, NEW f \in fetched'[x]
      PROVE  /\ IsKeyOf(f.of, f.bundle.data.box.text) /\ WellShaped(f.bundle)
             /\ \E c \in Usable : LockedWith(f.bundle, c)
  <2>1. CASE x = m
    <3>1. PICK b \in bundles[a] : f = [of |-> a, bundle |-> b]
      BY <1>2, <1>5, <2>1
    <3>2. WellShaped(b) /\ IsKeyOf(a, b.data.box.text)
      BY <1>1 DEF VaultInv, BundlesFit, IsKeyOf
    <3>3. PICK owned \in kit[a] : owned \in Usable
      BY <1>1 DEF VaultInv, BundlesFit, VaultShape
    <3>4. LockedWith(b, owned)
      BY DEF VaultInv, BundlesFit
    <3> QED
      BY <3>1, <3>2, <3>3, <3>4
  <2>2. CASE x # m
    BY <1>2, <1>5, <2>2 DEF VaultInv, FetchedFit
  <2> QED
    BY <2>1, <2>2
<1>6. FetchedFit'
  BY <1>3, <1>5 DEF FetchedFit
<1>7. KeysFit' /\ EnvelopesFit' /\ OpenedAsSealed'
  BY <1>1, <1>3 DEF VaultInv, KeysFit, EnvelopesFit, OpenedAsSealed
<1> QED
  BY <1>3, <1>4, <1>6, <1>7 DEF VaultInv

\* Whatever opens the bundle yields its data key.
LEMMA UnlockStep ==
  ASSUME VaultInv, NEW m \in Machine, NEW credentials \in Credentials, Unlock(m, credentials)
  PROVE  VaultInv'
<1>1. PICK f \in fetched[m] :
        LET keys == UnlockDataKey(f.bundle, credentials) IN
        /\ keyring' = IF keys = {} THEN keyring
                      ELSE [keyring EXCEPT ![m] = {[of |-> f.of, key |-> k] : k \in keys}]
        /\ fetched' = [fetched EXCEPT ![m] = {}]
        /\ UNCHANGED <<bundles, kit, envelopes, draws, sealings, readings>>
  BY DEF Unlock
<1>2. PICK c \in Usable : LockedWith(f.bundle, c)
  BY DEF VaultInv, FetchedFit
<1>3. WellShaped(f.bundle) /\ IsKeyOf(f.of, f.bundle.data.box.text)
  BY DEF VaultInv, FetchedFit
<1>4. UnlockDataKey(f.bundle, credentials) \in {{}, {f.bundle.data.box.text}}
  BY <1>2, <1>3, OnlyItsOwn
<1>5. UNCHANGED <<bundles, kit, envelopes, draws, sealings, readings>>
  BY <1>1
<1>6. /\ fetched' = [x \in Machine |-> IF x = m THEN {} ELSE fetched[x]]
      /\ \/ keyring' = keyring
         \/ keyring' = [x \in Machine |-> IF x = m THEN {[of |-> f.of, key |-> f.bundle.data.box.text]}
                                                   ELSE keyring[x]]
  <2>1. fetched = [x \in Machine |-> fetched[x]] /\ keyring = [x \in Machine |-> keyring[x]]
    BY DEF VaultInv, VaultShape
  <2>2. CASE UnlockDataKey(f.bundle, credentials) = {}
    BY <1>1, <2>1, <2>2
  <2>3. CASE UnlockDataKey(f.bundle, credentials) = {f.bundle.data.box.text}
    <3>1. keyring' = [keyring EXCEPT ![m] = {[of |-> f.of, key |-> k] : k \in {f.bundle.data.box.text}}]
      BY <1>1, <2>3
    <3>2. {[of |-> f.of, key |-> k] : k \in {f.bundle.data.box.text}} = {[of |-> f.of, key |-> f.bundle.data.box.text]}
      OBVIOUS
    <3> QED
      BY <1>1, <2>1, <3>1, <3>2
  <2> QED
    BY <1>4, <2>2, <2>3
<1>7. BundlesFit' /\ \A x, key : IsKeyOf(x, key) => IsKeyOf(x, key)'
  BY <1>5, BundlesStay
<1>8. VaultShape'
  BY <1>5, <1>6, BundlesStay DEF VaultInv, VaultShape
<1>9. FetchedFit'
  BY <1>6, <1>7 DEF VaultInv, FetchedFit
<1>10. KeysFit'
  BY <1>3, <1>6, <1>7 DEF VaultInv, KeysFit
<1>11. EnvelopesFit' /\ OpenedAsSealed'
  BY <1>5, <1>7 DEF VaultInv, EnvelopesFit, OpenedAsSealed
<1> QED
  BY <1>7, <1>8, <1>9, <1>10, <1>11 DEF VaultInv

\* What is sealed is under the account's key, and is remembered.
LEMMA SealedStep ==
  ASSUME VaultInv, NEW m \in Machine, NEW aad, Sealed(m, aad)
  PROVE  VaultInv'
<1>1. PICK k \in keyring[m] :
        LET text == Cardinality(sealings) + 1 IN
        /\ envelopes' = envelopes \cup {[of |-> k.of, box |-> Seal(k.key, aad, text)]}
        /\ sealings' = sealings \cup {[of |-> k.of, as |-> aad, text |-> text]}
        /\ UNCHANGED <<bundles, kit, fetched, keyring, draws, readings>>
  BY DEF Sealed
<1>2. UNCHANGED <<bundles, kit, fetched, keyring, draws, readings>>
  BY <1>1
<1>3. BundlesFit' /\ VaultShape' /\ \A x, key : IsKeyOf(x, key) => IsKeyOf(x, key)'
  BY <1>2, BundlesStay DEF VaultInv, VaultShape
<1>4. FetchedFit' /\ KeysFit' /\ OpenedAsSealed'
  BY <1>1, <1>2, <1>3 DEF VaultInv, FetchedFit, KeysFit, OpenedAsSealed
<1>5. IsKeyOf(k.of, k.key)
  BY DEF VaultInv, KeysFit
<1>6. ASSUME NEW e \in envelopes'
      PROVE  IsKeyOf(e.of, e.box.key) /\ [of |-> e.of, as |-> e.box.aad, text |-> e.box.text] \in sealings'
  <2>1. CASE e \in envelopes
    BY <1>1, <2>1 DEF VaultInv, EnvelopesFit
  <2>2. CASE e \notin envelopes
    <3>1. e = [of |-> k.of, box |-> Seal(k.key, aad, Cardinality(sealings) + 1)]
      BY <1>1, <1>6, <2>2
    <3>2. e.of = k.of /\ e.box.key = k.key /\ e.box.aad = aad /\ e.box.text = Cardinality(sealings) + 1
      BY <3>1 DEF Seal
    <3> QED
      BY <1>1, <1>5, <3>2
  <2> QED
    BY <2>1, <2>2
<1>7. EnvelopesFit'
  BY <1>3, <1>6 DEF EnvelopesFit
<1> QED
  BY <1>3, <1>4, <1>7 DEF VaultInv

\* A box opens under the key of its own account only, and for what it was sealed for.
LEMMA ReadsStep ==
  ASSUME VaultInv, NEW m \in Machine, NEW e \in envelopes, NEW aad, Reads(m, e.box, aad)
  PROVE  VaultInv'
<1>1. PICK k \in keyring[m] :
        /\ readings' = readings \cup {[of |-> k.of, as |-> aad, text |-> text] : text \in Unseal(k.key, aad, e.box)}
        /\ UNCHANGED <<bundles, kit, fetched, keyring, envelopes, draws, sealings>>
  BY DEF Reads
<1>2. UNCHANGED <<bundles, kit, fetched, keyring, envelopes, draws, sealings>>
  BY <1>1
<1>3. BundlesFit' /\ VaultShape' /\ \A x, key : IsKeyOf(x, key) => IsKeyOf(x, key)'
  BY <1>2, BundlesStay DEF VaultInv, VaultShape
<1>4. FetchedFit' /\ KeysFit' /\ EnvelopesFit'
  BY <1>2, <1>3 DEF VaultInv, FetchedFit, KeysFit, EnvelopesFit
<1>5. ASSUME NEW text \in Unseal(k.key, aad, e.box)
      PROVE  [of |-> k.of, as |-> aad, text |-> text] \in sealings
  <2>1. e.box.key = k.key /\ e.box.aad = aad /\ text = e.box.text
    BY <1>5 DEF Unseal
  <2>2. IsKeyOf(k.of, k.key) /\ IsKeyOf(e.of, e.box.key)
    BY DEF VaultInv, KeysFit, EnvelopesFit
  <2>3. PICK b \in bundles[k.of] : b.data.box.text = k.key
    BY <2>2 DEF IsKeyOf
  <2>4. PICK d \in bundles[e.of] : d.data.box.text = k.key
    BY <2>1, <2>2 DEF IsKeyOf
  <2>5. k.of \in Member /\ e.of \in Member
    BY <2>2 DEF IsKeyOf
  <2>6. e.of = k.of
    BY <2>3, <2>4, <2>5 DEF VaultInv, BundlesFit
  <2> QED
    BY <2>1, <2>6 DEF VaultInv, EnvelopesFit
<1>6. OpenedAsSealed'
  BY <1>1, <1>5 DEF VaultInv, OpenedAsSealed
<1> QED
  BY <1>3, <1>4, <1>6 DEF VaultInv

\* Every step keeps the invariant.
LEMMA VaultNextInv == VaultInv /\ [KeyVaultNext]_keyVaultVars => VaultInv'
<1> SUFFICES ASSUME VaultInv, [KeyVaultNext]_keyVaultVars PROVE VaultInv'
  OBVIOUS
<1>1. CASE \E a \in Member : \E password \in Password : \E m \in Machine : SignUp(a, m, password)
  BY <1>1, SignUpStep
<1>2. CASE \E a \in Member : \E password \in Password : \E old \in Credentials : Rotate(a, old, password)
  BY <1>2, RotateStep
<1>3. CASE \E m \in Machine : \E a \in Member : FetchBundle(m, a)
  BY <1>3, FetchBundleStep
<1>4. CASE \E m \in Machine : \E credentials \in Credentials : Unlock(m, credentials)
  BY <1>4, UnlockStep
<1>5. CASE \E m \in Machine : EncryptSnapshot(m) \/ \E about \in About : EncryptOp(m, about)
  BY <1>5, SealedStep DEF EncryptSnapshot, EncryptOp
<1>6. CASE \E m \in Machine : \E e \in envelopes :
             DecryptSnapshot(m, e.box) \/ \E about \in About : DecryptOp(m, e.box, about)
  BY <1>6, ReadsStep DEF DecryptSnapshot, DecryptOp
<1>7. CASE UNCHANGED keyVaultVars
  <2>1. UNCHANGED <<bundles, kit, fetched, keyring, envelopes, draws, sealings, readings>>
    BY <1>7 DEF keyVaultVars
  <2>2. BundlesFit' /\ VaultShape' /\ \A x, key : IsKeyOf(x, key) => IsKeyOf(x, key)'
    BY <2>1, BundlesStay DEF VaultInv, VaultShape
  <2> QED
    BY <2>1, <2>2 DEF VaultInv, FetchedFit, KeysFit, EnvelopesFit, OpenedAsSealed
<1> QED
  BY <1>1, <1>2, <1>3, <1>4, <1>5, <1>6, <1>7 DEF KeyVaultNext

\* The inductive invariant holds throughout.
THEOREM KeyVaultInvariant == KeyVaultSpec => []VaultInv
<1> QED
  BY VaultInitInv, VaultNextInv, PTL DEF KeyVaultSpec

(***************************************************************************)
(* However often its credentials are changed, the credentials of an        *)
(* account's owner open its bundle and no others do, and the key they open *)
(* is that of every machine that is logged in and of everything sealed.    *)
(***************************************************************************)
THEOREM KeysAlwaysOpen == KeyVaultSpec => []KeysOpenTheLibrary
<1> QED
  BY KeyVaultInvariant, KeysOpen, PTL

(***************************************************************************)
(* What a machine opens was sealed for its account as what it is read as.  *)
(***************************************************************************)
THEOREM EnvelopesAreBound == KeyVaultSpec => []OpenedAsSealed
<1>1. VaultInv => OpenedAsSealed
  BY DEF VaultInv
<1> QED
  BY <1>1, KeyVaultInvariant, PTL

=============================================================================
