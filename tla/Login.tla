------------------------------- MODULE Login ---------------------------------
(***************************************************************************)
(* Logging in to an account of the relay server: challenge, verify, the    *)
(* failed-attempt counter, the lockout and the session.                    *)
(*                                                                         *)
(* account_verify is a sequence of statements that commit one by one: it   *)
(* reads the challenge and the account, deletes the challenge, writes the  *)
(* counter from the value it read, and inserts the session.  Requests run  *)
(* on a thread pool, so two of them interleave, the server may stop        *)
(* between two statements, and a statement may fail (the database is busy  *)
(* or its disk full): the handler drops the error of every one but the     *)
(* last and goes on.  srp_challenge and srp_verify do the same for the     *)
(* account of a library (without the e-mail gate).                         *)
(***************************************************************************)
EXTENDS Naturals

CONSTANTS
  Challenge,   \* the challenges that are ever issued
  Request,     \* the verify requests that run at the same time
  MaxAttempts, \* MAX_FAILED_ATTEMPTS, 5 in the code
  MaxStops     \* bound on the requests that die and the statements that fail

ASSUME LoginAssumption ==
  /\ MaxAttempts \in Nat \ {0} /\ MaxStops \in Nat

VARIABLES
  challenge,  \* challenge[c]: where c stands
  attempts,   \* users.failed_attempts
  locked,     \* locked_until lies ahead
  verified,   \* users.email_verified
  request,    \* request[r]: the verify request r
  sessions,   \* sessions[c]: how many sessions were issued on c
  stops,      \* what the bound counts
  wrong,      \* history: the wrong proofs recorded since the last right one
  served,     \* history: how many they were when a lock last expired
  crossed,    \* history: one was recorded over a count it had not seen, or a
              \* statement that writes the count failed
  twice,      \* history: the challenges read twice before they were deleted
  undeleted   \* history: the challenges that a failed DELETE has left

loginVars == <<challenge, attempts, locked, verified, request, sessions, stops,
               wrong, served, crossed, twice, undeleted>>

-----------------------------------------------------------------------------

Idle == [phase |-> "idle", on |-> {}, right |-> FALSE, attempts |-> 0,
         confirmed |-> FALSE, stale |-> FALSE]

\* r is done with the account: what the others have read of it is stale.
Recorded(r, next) ==
  [q \in Request |->
     IF q = r THEN next
     ELSE IF request[q].phase = "idle" THEN Idle
     ELSE [request[q] EXCEPT !.stale = TRUE]]

LoginInit ==
  /\ challenge = [c \in Challenge |-> "none"]
  /\ attempts = 0 /\ locked = FALSE /\ verified \in BOOLEAN
  /\ request = [r \in Request |-> Idle]
  /\ sessions = [c \in Challenge |-> 0]
  /\ stops = 0 /\ wrong = 0 /\ served = 0 /\ crossed = FALSE
  /\ twice = {} /\ undeleted = {}

\* account_challenge: refused while locked; a new row, then the old ones go.
\* (Where they fail to, nothing comes of it: a challenge of that age is refused.)
IssueChallenge(c) ==
  /\ challenge[c] = "none"
  /\ ~locked
  /\ challenge' = [d \in Challenge |-> IF d = c THEN "open"
                                       ELSE IF challenge[d] = "aged" THEN "gone"
                                       ELSE challenge[d]]
  /\ UNCHANGED <<attempts, locked, verified, request, sessions, stops, wrong,
                 served, crossed, twice, undeleted>>

\* CHALLENGE_TTL_SECS pass.
ChallengeAges(c) ==
  /\ challenge[c] = "open"
  /\ challenge' = [challenge EXCEPT ![c] = "aged"]
  /\ UNCHANGED <<attempts, locked, verified, request, sessions, stops, wrong,
                 served, crossed, twice, undeleted>>

\* LOCKOUT_MINUTES pass: the counter stays as it is.
LockExpires ==
  /\ locked
  /\ locked' = FALSE
  /\ served' = wrong
  /\ UNCHANGED <<challenge, attempts, verified, request, sessions, stops, wrong,
                 crossed, twice, undeleted>>

\* verify_email, or a signup that needs no confirmation.
ConfirmEmail ==
  /\ ~verified
  /\ verified' = TRUE
  /\ UNCHANGED <<challenge, attempts, locked, request, sessions, stops, wrong,
                 served, crossed, twice, undeleted>>

\* verify of an expired challenge deletes it.
VerifyExpired(c) ==
  /\ challenge[c] = "aged"
  /\ challenge' = [challenge EXCEPT ![c] = "gone"]
  /\ UNCHANGED <<attempts, locked, verified, request, sessions, stops, wrong,
                 served, crossed, twice, undeleted>>

\* The challenge and the account are read.  For a locked account the request
\* ends here, and the challenge stays.
VerifyLoad(r, c, right) ==
  /\ request[r].phase = "idle"
  /\ challenge[c] = "open"
  /\ ~locked
  /\ request' = [request EXCEPT ![r] =
       [phase |-> "loaded", on |-> {c}, right |-> right, attempts |-> attempts,
        confirmed |-> verified, stale |-> FALSE]]
  /\ twice' = IF \E q \in Request : request[q].phase = "loaded" /\ request[q].on = {c}
                THEN twice \cup {c} ELSE twice
  /\ UNCHANGED <<challenge, attempts, locked, verified, sessions, stops, wrong,
                 served, crossed, undeleted>>

\* A faulty VerifyConsume, to validate OneSessionPerChallenge: only a wrong
\* proof uses the challenge up.
VerifyConsumeIfWrong(r) ==
  /\ request[r].phase = "loaded"
  /\ request' = [request EXCEPT ![r].phase = "consumed"]
  /\ challenge' = [c \in Challenge |-> IF c \in request[r].on /\ ~request[r].right
                                         THEN "gone" ELSE challenge[c]]
  /\ UNCHANGED <<attempts, locked, verified, sessions, stops, wrong, served,
                 crossed, twice, undeleted>>

\* "Single-use: always delete the challenge."  The count and the session come
\* later, in statements of their own.
VerifyConsume(r) ==
  /\ request[r].phase = "loaded"
  /\ request' = [request EXCEPT ![r].phase = "consumed"]
  /\ challenge' = [c \in Challenge |-> IF c \in request[r].on THEN "gone"
                                       ELSE challenge[c]]
  /\ UNCHANGED <<attempts, locked, verified, sessions, stops, wrong, served,
                 crossed, twice, undeleted>>

\* The DELETE fails: its error is dropped, the request goes on as if the
\* challenge were gone, and whoever loads it next may use it again.
VerifyConsumeFails(r) ==
  /\ request[r].phase = "loaded"
  /\ stops < MaxStops
  /\ stops' = stops + 1
  /\ request' = [request EXCEPT ![r].phase = "consumed"]
  /\ undeleted' = undeleted \cup {c \in request[r].on : challenge[c] # "gone"}
  /\ UNCHANGED <<challenge, attempts, locked, verified, sessions, wrong, served,
                 crossed, twice>>

\* A faulty VerifyWrong, to validate CountsFailures: a lock restarts the count.
VerifyWrongRestarts(r) ==
  /\ request[r].phase = "consumed" /\ ~request[r].right
  /\ LET count == request[r].attempts + 1
     IN  /\ attempts' = IF count >= MaxAttempts THEN 0 ELSE count
         /\ locked' = (locked \/ count >= MaxAttempts)
  /\ wrong' = wrong + 1
  /\ crossed' = (crossed \/ request[r].stale)
  /\ request' = Recorded(r, Idle)
  /\ UNCHANGED <<challenge, verified, sessions, stops, served, twice, undeleted>>

\* A faulty VerifyWrong, to validate LockedAtLimit: one failure too late.
VerifyWrongLate(r) ==
  /\ request[r].phase = "consumed" /\ ~request[r].right
  /\ LET count == request[r].attempts + 1
     IN  /\ attempts' = count
         /\ locked' = (locked \/ count > MaxAttempts)
  /\ wrong' = wrong + 1
  /\ crossed' = (crossed \/ request[r].stale)
  /\ request' = Recorded(r, Idle)
  /\ UNCHANGED <<challenge, verified, sessions, stops, served, twice, undeleted>>

\* record_user_failure: the counter is written from the value that was read.
VerifyWrong(r) ==
  /\ request[r].phase = "consumed" /\ ~request[r].right
  /\ LET count == request[r].attempts + 1
     IN  /\ attempts' = count
         /\ locked' = (locked \/ count >= MaxAttempts)
  /\ wrong' = wrong + 1
  /\ crossed' = (crossed \/ request[r].stale)
  /\ request' = Recorded(r, Idle)
  /\ UNCHANGED <<challenge, verified, sessions, stops, served, twice, undeleted>>

\* The UPDATE fails: the answer is the same, and nothing is counted.
VerifyWrongFails(r) ==
  /\ request[r].phase = "consumed" /\ ~request[r].right
  /\ stops < MaxStops
  /\ stops' = stops + 1
  /\ wrong' = wrong + 1 /\ crossed' = TRUE
  /\ request' = [request EXCEPT ![r] = Idle]
  /\ UNCHANGED <<challenge, attempts, locked, verified, sessions, served, twice, undeleted>>

\* The right proof, but the address was not confirmed when it was read.
VerifyUnconfirmed(r) ==
  /\ request[r].phase = "consumed" /\ request[r].right /\ ~request[r].confirmed
  /\ request' = [request EXCEPT ![r] = Idle]
  /\ UNCHANGED <<challenge, attempts, locked, verified, sessions, stops, wrong,
                 served, crossed, twice, undeleted>>

\* The right proof: the counter and the lock are reset.
VerifyRight(r) ==
  /\ request[r].phase = "consumed" /\ request[r].right /\ request[r].confirmed
  /\ attempts' = 0 /\ locked' = FALSE
  /\ wrong' = 0 /\ served' = 0 /\ crossed' = FALSE
  /\ request' = Recorded(r, [request[r] EXCEPT !.phase = "passed"])
  /\ UNCHANGED <<challenge, verified, sessions, stops, twice, undeleted>>

\* The UPDATE fails: the count and the lock stay, and the session is issued.
VerifyRightFails(r) ==
  /\ request[r].phase = "consumed" /\ request[r].right /\ request[r].confirmed
  /\ stops < MaxStops
  /\ stops' = stops + 1
  /\ wrong' = 0 /\ served' = 0 /\ crossed' = TRUE
  /\ request' = [request EXCEPT ![r].phase = "passed"]
  /\ UNCHANGED <<challenge, attempts, locked, verified, sessions, twice, undeleted>>

\* INSERT INTO user_sessions.
VerifyIssue(r) ==
  /\ request[r].phase = "passed"
  /\ sessions' = [c \in Challenge |-> IF c \in request[r].on THEN sessions[c] + 1
                                      ELSE sessions[c]]
  /\ request' = [request EXCEPT ![r] = Idle]
  /\ UNCHANGED <<challenge, attempts, locked, verified, stops, wrong, served,
                 crossed, twice, undeleted>>

\* The server stops, or a statement fails whose error ends the request: a read,
\* or the INSERT of the session.
ServerStops(r) ==
  /\ request[r].phase # "idle"
  /\ stops < MaxStops
  /\ stops' = stops + 1
  /\ request' = [request EXCEPT ![r] = Idle]
  /\ UNCHANGED <<challenge, attempts, locked, verified, sessions, wrong, served,
                 crossed, twice, undeleted>>

LoginNext ==
  \/ \E c \in Challenge :
       \/ IssueChallenge(c) \/ ChallengeAges(c) \/ VerifyExpired(c)
       \/ \E r \in Request, right \in BOOLEAN : VerifyLoad(r, c, right)
  \/ LockExpires \/ ConfirmEmail
  \/ \E r \in Request :
       \/ VerifyConsume(r) \/ VerifyConsumeFails(r) \/ VerifyWrong(r)
       \/ VerifyWrongFails(r) \/ VerifyUnconfirmed(r) \/ VerifyRight(r)
       \/ VerifyRightFails(r) \/ VerifyIssue(r) \/ ServerStops(r)

LoginSpec == LoginInit /\ [][LoginNext]_loginVars

-----------------------------------------------------------------------------

LoginTypeOK ==
  /\ challenge \in [Challenge -> {"none", "open", "aged", "gone"}]
  /\ attempts \in Nat /\ wrong \in Nat /\ served \in 0 .. wrong
  /\ locked \in BOOLEAN /\ verified \in BOOLEAN /\ crossed \in BOOLEAN
  /\ \A r \in Request :
       /\ request[r].phase \in {"idle", "loaded", "consumed", "passed"}
       /\ request[r].phase \in {"consumed", "passed"} =>
            \A c \in request[r].on \ undeleted : challenge[c] = "gone"
  /\ sessions \in [Challenge -> Nat] /\ twice \subseteq Challenge /\ undeleted \subseteq Challenge

(***************************************************************************)
(* "Single-use: always delete the challenge" (account_verify, srp_verify): *)
(* one challenge gives one session, however requests interleave and        *)
(* wherever they stop, but for two: a challenge that two requests had read *)
(* before the first of them deleted it, and one whose DELETE failed, since *)
(* the handler drops that error and goes on.                               *)
(***************************************************************************)
OneSessionPerChallenge == \A c \in Challenge \ (twice \cup undeleted) : sessions[c] <= 1

(***************************************************************************)
(* failed_attempts counts the consecutive failures: a request that writes  *)
(* a count read before another's record, and a statement that fails to     *)
(* write it, are the only things that bend it, and the next right proof    *)
(* whose reset is written sets it straight.                                *)
(***************************************************************************)
CountsFailures == crossed \/ attempts = wrong

(***************************************************************************)
(* "After 5 consecutive failures the account is locked": it is locked at   *)
(* the limit, and again by every failure after the lock has run out.       *)
(***************************************************************************)
LockedAtLimit ==
  wrong >= MaxAttempts /\ wrong > served => locked \/ crossed

(***************************************************************************)
(* The two together: no failure goes uncounted, and the count locks.       *)
(***************************************************************************)
LockoutIsExact == CountsFailures /\ LockedAtLimit

=============================================================================
