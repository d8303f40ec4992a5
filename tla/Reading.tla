------------------------------- MODULE Reading -------------------------------
(***************************************************************************)
(* One book being read: its status, the reading sessions and the progress  *)
(* entries that refer to them, written by commands of several shells, by   *)
(* an application over the foreign function interface, and by the ops that *)
(* a pull merges.                                                          *)
(*                                                                         *)
(* A command resolves the book, checks its status and then makes each of   *)
(* its writes in a transaction of its own.  A session refers to no status  *)
(* and is never ended by a command: an entry refers to the unfinished      *)
(* session that began last by its date.                                    *)
(***************************************************************************)
EXTENDS Naturals, Sequences, FiniteSets

CONSTANTS
  Shell,         \* commands that can run at once on the library
  Status,        \* the statuses in use
  MaxReadings,   \* bound on the times the book is begun
  MaxSessions,   \* bound on the sessions
  MaxEntries,    \* bound on the progress entries
  MaxTime,       \* bound on the clock
  MaxOutside     \* bound on what is not a command of a shell: writes of the
                 \* application and of peers, kills, the clock set back

ASSUME ReadingAssumption == {MaxReadings, MaxSessions, MaxEntries, MaxTime, MaxOutside} \subseteq Nat

VARIABLES
  status,     \* the status in the book's row
  session,    \* the rows of reading_sessions, in the order they were inserted
  entries,    \* the rows of reading_progress
  rated,      \* the reading that the rating in the row was given to
  clock,      \* the wall clock
  job,        \* job[s]: what the command in the shell s has still to do
  outside,    \* how much has happened outside the shells
  reading,    \* history: how many times the book has been begun
  unclear     \* history: the readings that began without a session of their
              \* own, or during which one was written for another

readingVars == <<status, session, entries, rated, clock, job, outside, reading, unclear>>

CanTransition(from, to) ==
  <<from, to>> \in {"want-to-read", "on-hold", "abandoned", "read"} \X {"reading"}
                   \cup {"reading"} \X {"read", "abandoned", "on-hold"}

Free == [next |-> "none", to |-> "reading", then |-> "none", reading |-> 0, session |-> 0]

ReadingInit ==
  /\ status = "want-to-read" /\ session = <<>> /\ entries = {} /\ rated = 0
  /\ clock = 1
  /\ job = [s \in Shell |-> Free]
  /\ outside = 0 /\ reading = 0 /\ unclear = {}

Outside == outside < MaxOutside /\ outside' = outside + 1

\* update_book_status.  A book that becomes one being read begins a reading.
SetStatus(to) ==
  /\ status' = to
  /\ reading' = IF to = "reading" /\ status # "reading" THEN reading + 1 ELSE reading
  /\ reading' <= MaxReadings

\* A session of the reading r that is dated t.  It makes the reading of the book
\* unclear unless it is one of it and dated after all others.
AddSession(r, t) ==
  /\ Len(session) < MaxSessions
  /\ session' = Append(session, [at |-> t, finished |-> FALSE, reading |-> r])
  /\ unclear' = IF r = reading /\ \A i \in DOMAIN session : session[i].at < t
                THEN unclear ELSE unclear \cup {reading}

Unfinished == {i \in DOMAIN session : ~session[i].finished}

\* A faulty Active, to validate ProgressJoinsItsReading: in ascending order.
ActiveOldest(i) ==
  \/ i \in Unfinished /\ \A j \in Unfinished : session[i].at <= session[j].at
  \/ i = 0 /\ Unfinished = {}

\* get_active_session; 0 if there is none.
Active(i) ==
  \/ i \in Unfinished /\ \A j \in Unfinished : session[j].at <= session[i].at
  \/ i = 0 /\ Unfinished = {}

-----------------------------------------------------------------------------
(* The commands of a shell. *)

\* start and resume, finish with and without a rating, abandon and hold.
StatusReads(s, to) ==
  /\ job[s].next = "none"
  /\ CanTransition(status, to)
  /\ \E first \in {"status"} \cup (IF to = "read" THEN {"rating"} ELSE {}) :
       job' = [job EXCEPT ![s] = [Free EXCEPT !.next = first, !.to = to,
                 !.then = IF to = "reading" THEN "session" ELSE "none"]]
  /\ UNCHANGED <<status, session, entries, rated, clock, outside, reading, unclear>>

\* toku add of a book that is there, with a status: no transition is checked.
AddReads(s, to) ==
  /\ job[s].next = "none"
  /\ job' = [job EXCEPT ![s] = [Free EXCEPT !.next = "status", !.to = to,
               !.then = IF to = "reading" THEN "session" ELSE "none"]]
  /\ UNCHANGED <<status, session, entries, rated, clock, outside, reading, unclear>>

\* toku bulk status: no transition is checked, and no session made.
BulkReads(s, to) ==
  /\ job[s].next = "none"
  /\ status # to
  /\ job' = [job EXCEPT ![s] = [Free EXCEPT !.next = "status", !.to = to]]
  /\ UNCHANGED <<status, session, entries, rated, clock, outside, reading, unclear>>

CommandRates(s) ==
  /\ job[s].next = "rating"
  /\ rated' = reading
  /\ job' = [job EXCEPT ![s].next = "status"]
  /\ UNCHANGED <<status, session, entries, clock, outside, reading, unclear>>

CommandSetsStatus(s) ==
  /\ job[s].next = "status"
  /\ SetStatus(job[s].to)
  /\ job' = [job EXCEPT ![s].next = job[s].then, ![s].reading = reading']
  /\ unclear' = IF reading' # reading /\ job[s].then = "none"
                THEN unclear \cup {reading'} ELSE unclear
  /\ UNCHANGED <<session, entries, rated, clock, outside>>

CommandAddsSession(s) ==
  /\ job[s].next = "session"
  /\ clock < MaxTime
  /\ AddSession(job[s].reading, clock)
  /\ clock' = clock + 1
  /\ job' = [job EXCEPT ![s] = Free]
  /\ UNCHANGED <<status, entries, rated, outside, reading>>

\* toku reading update.
UpdateReads(s) ==
  /\ job[s].next = "none"
  /\ status = "reading"
  /\ job' = [job EXCEPT ![s] = [Free EXCEPT !.next = "find", !.reading = reading]]
  /\ UNCHANGED <<status, session, entries, rated, clock, outside, reading, unclear>>

\* toku_log_progress, whatever the status.
ApplicationLogs(s) ==
  /\ job[s].next = "none"
  /\ Outside
  /\ job' = [job EXCEPT ![s] = [Free EXCEPT !.next = "find",
               !.reading = IF status = "reading" THEN reading ELSE 0]]
  /\ UNCHANGED <<status, session, entries, rated, clock, reading, unclear>>

\* The session is that of another reading if the book has been begun again since
\* the command checked it, or if the session of its reading is still to come.
UpdateFinds(s) ==
  /\ job[s].next = "find"
  /\ \E i \in 0 .. Len(session) :
       /\ Active(i)
       /\ job' = [job EXCEPT ![s].next = "log", ![s].session = i]
  /\ unclear' = IF \/ job[s].reading # reading
                   \/ \E o \in Shell : job[o].next = "session"
                THEN unclear \cup {job[s].reading} ELSE unclear
  /\ UNCHANGED <<status, session, entries, rated, clock, outside, reading>>

UpdateLogs(s) ==
  /\ job[s].next = "log"
  /\ Cardinality(entries) < MaxEntries
  /\ entries' = entries \cup {[reading |-> job[s].reading, session |-> job[s].session]}
  /\ job' = [job EXCEPT ![s] = Free]
  /\ UNCHANGED <<status, session, rated, clock, outside, reading, unclear>>

\* A command that dies between a status and its session leaves a reading without.
CommandDies(s) ==
  /\ job[s].next # "none"
  /\ Outside
  /\ unclear' = IF job[s].next = "session" THEN unclear \cup {job[s].reading} ELSE unclear
  /\ job' = [job EXCEPT ![s] = Free]
  /\ UNCHANGED <<status, session, entries, rated, clock, reading>>

-----------------------------------------------------------------------------
(* What else writes to the library. *)

\* toku_update_book_status takes any status.
ApplicationSetsStatus(to) ==
  /\ Outside
  /\ SetStatus(to)
  /\ unclear' = IF reading' # reading THEN unclear \cup {reading'} ELSE unclear
  /\ UNCHANGED <<session, entries, rated, clock, job>>

\* merge_book_update of a newer status.
PeerSetsStatus(to) ==
  /\ CanTransition(status, to)
  /\ ApplicationSetsStatus(to)

\* merge_session_create: the session of a peer, dated by its clock.  That of an
\* import has an end.
PeerAddsSession(t, finished) ==
  /\ Outside
  /\ Len(session) < MaxSessions
  /\ session' = Append(session, [at |-> t, finished |-> finished, reading |-> 0])
  /\ unclear' = IF finished THEN unclear ELSE unclear \cup {reading}
  /\ UNCHANGED <<status, entries, rated, clock, job, reading>>

ClockSetBack(t) ==
  /\ Outside
  /\ t < clock
  /\ clock' = t
  /\ UNCHANGED <<status, session, entries, rated, job, reading, unclear>>

ReadingNext ==
  \/ \E s \in Shell :
       \/ \E to \in Status :
            \/ StatusReads(s, to)
            \/ AddReads(s, to)
            \/ BulkReads(s, to)
       \/ CommandRates(s) \/ CommandSetsStatus(s) \/ CommandAddsSession(s)
       \/ UpdateReads(s) \/ ApplicationLogs(s) \/ UpdateFinds(s) \/ UpdateLogs(s)
       \/ CommandDies(s)
  \/ \E to \in Status : ApplicationSetsStatus(to) \/ PeerSetsStatus(to)
  \/ \E t \in 1 .. MaxTime :
       \/ \E finished \in BOOLEAN : PeerAddsSession(t, finished)
       \/ ClockSetBack(t)

ReadingSpec == ReadingInit /\ [][ReadingNext]_readingVars

-----------------------------------------------------------------------------

(***************************************************************************)
(* The progress of a reading that a command began refers to the session of *)
(* that reading, and not to one of an earlier time the book was read,      *)
(* however the commands overlap and although no session ever ends; unless  *)
(* the reading is unclear: begun by the application, a peer, a bulk        *)
(* command or a command that died, or crossed by another, by a session of  *)
(* a peer or by a clock that was set back.                                 *)
(***************************************************************************)
ProgressJoinsItsReading ==
  \A e \in entries : e.reading \notin unclear \cup {0} =>
    e.session # 0 /\ session[e.session].reading = e.reading

=============================================================================
