------------------------------- MODULE WebLogin -------------------------------
(***************************************************************************)
(* The dashboard in hosted mode: one account, made by the first visitor,   *)
(* and logins with a counter of failures and a lock.  The session that a   *)
(* login ends in is not followed.                                          *)
(*                                                                         *)
(* A login reads the row of the account in one statement and writes it in  *)
(* another, on a thread of a pool: the counter that it writes is the one   *)
(* that it read, plus one.  What a verifier is compared with is a Boolean. *)
(***************************************************************************)
EXTENDS Naturals

CONSTANTS
  Visitor,      \* requests that can be served at the same time
  MaxFailed     \* MAX_FAILED_ATTEMPTS

ASSUME WebLoginAssumption == MaxFailed \in Nat \ {0}

VARIABLES
  owner,     \* the row of web_users: who made it, the counter, and whether it is locked
  visit,     \* visit[v]: what the request of v has read and has still to do
  streak,    \* history: the wrong logins since a right one, a lock or the setup
  crossed    \* history: whether since then two logins have been served at once

webLoginVars == <<owner, visit, streak, crossed>>

NoOwner == [of |-> {}, failed |-> 0, locked |-> FALSE]
Away == [next |-> "none", failed |-> 0]

WebLoginInit ==
  /\ owner = NoOwner
  /\ visit = [v \in Visitor |-> Away]
  /\ streak = 0 /\ crossed = FALSE

AdminExists == owner.of # {}
AtWork == {v \in Visitor : visit[v] # Away}

\* A login of v ends: the next ones are counted from here on.
Counted(v) == crossed' = (AtWork \ {v} # {})

\* create_admin: one transaction.
Setup(v) ==
  /\ visit[v] = Away
  /\ ~AdminExists
  /\ owner' = [NoOwner EXCEPT !.of = {v}]
  /\ UNCHANGED <<visit, streak, crossed>>

\* A locked account ends the login here.
LoginReads(v, right) ==
  /\ visit[v] = Away
  /\ AdminExists /\ ~owner.locked
  /\ visit' = [visit EXCEPT ![v] = [next |-> IF right THEN "reset" ELSE "count", failed |-> owner.failed]]
  /\ crossed' = (crossed \/ AtWork # {})
  /\ UNCHANGED <<owner, streak>>

\* A faulty RecordFailure, to validate WebLockoutIsExact: one failure too late.
RecordFailureLate(v) ==
  /\ visit[v].next = "count"
  /\ owner' = IF visit[v].failed >= MaxFailed
              THEN [owner EXCEPT !.failed = 0, !.locked = TRUE]
              ELSE [owner EXCEPT !.failed = visit[v].failed + 1]
  /\ IF visit[v].failed >= MaxFailed
     THEN streak' = 0 /\ Counted(v) ELSE streak' = streak + 1 /\ UNCHANGED crossed
  /\ visit' = [visit EXCEPT ![v] = Away]

RecordFailure(v) ==
  LET failed == visit[v].failed + 1 IN
  /\ visit[v].next = "count"
  /\ IF failed >= MaxFailed
     THEN /\ owner' = [owner EXCEPT !.failed = 0, !.locked = TRUE]
          /\ streak' = 0 /\ Counted(v)
     ELSE /\ owner' = [owner EXCEPT !.failed = failed]
          /\ streak' = streak + 1 /\ UNCHANGED crossed
  /\ visit' = [visit EXCEPT ![v] = Away]

LoginResets(v) ==
  /\ visit[v].next = "reset"
  /\ owner' = [owner EXCEPT !.failed = 0, !.locked = FALSE]
  /\ streak' = 0 /\ Counted(v)
  /\ visit' = [visit EXCEPT ![v].next = "session"]

LoginOpensSession(v) ==
  /\ visit[v].next = "session"
  /\ visit' = [visit EXCEPT ![v] = Away]
  /\ UNCHANGED <<owner, streak, crossed>>

\* LOCKOUT_MINUTES have passed.
LockPasses ==
  /\ owner.locked
  /\ owner' = [owner EXCEPT !.locked = FALSE]
  /\ UNCHANGED <<visit, streak, crossed>>

\* The process stops, and what its requests have still to do is lost.
DashboardStops ==
  /\ AtWork # {}
  /\ visit' = [v \in Visitor |-> Away]
  /\ UNCHANGED <<owner, streak, crossed>>

WebLoginNext ==
  \/ \E v \in Visitor :
       \/ Setup(v) \/ \E right \in BOOLEAN : LoginReads(v, right)
       \/ RecordFailure(v) \/ LoginResets(v) \/ LoginOpensSession(v)
  \/ LockPasses \/ DashboardStops

WebLoginSpec == WebLoginInit /\ [][WebLoginNext]_webLoginVars

-----------------------------------------------------------------------------

(***************************************************************************)
(* The account is locked by as many wrong logins in a row as the code says *)
(* and by no fewer, and while it is locked no login is on its way to a     *)
(* session; unless two logins were served at once, of which one writes     *)
(* back what the other has changed.                                        *)
(***************************************************************************)
WebLockoutIsExact ==
  ~crossed =>
    /\ owner.failed = streak /\ streak < MaxFailed
    /\ owner.locked => AtWork = {}

=============================================================================
