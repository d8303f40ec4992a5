------------------------------ MODULE Statistics ------------------------------
(***************************************************************************)
(* The reading statistics: what toku stats, the dashboard and the          *)
(* application gather from the sessions and the progress entries, for one  *)
(* year or for all, for the books of one author or for all, and the        *)
(* streaks and the months they compute from it.                            *)
(*                                                                         *)
(* A date is a day of the database, that is of UTC, counted from the first *)
(* of a year; today is a day of the user's zone, one off at most.          *)
(* Averages, speeds and moods are left out.                                *)
(***************************************************************************)
EXTENDS Integers, Sequences, FiniteSets, SequencesExt, FiniteSetsExt

CONSTANTS
  Title,          \* the books
  DaysPerMonth,
  MonthsPerYear,
  MaxDay,         \* bound on the days
  MaxFacts        \* bound on the sessions and entries

ASSUME StatisticsAssumption ==
  /\ {DaysPerMonth, MonthsPerYear} \subseteq Nat \ {0}
  /\ {MaxDay, MaxFacts} \subseteq Nat

VARIABLES
  logged,   \* the entries of reading_progress: the book and the day
  sat,      \* the reading sessions: the book, the first day and, finished, the last
  gone,     \* the books with a tombstone
  now       \* the day it is

statisticsVars == <<logged, sat, gone, now>>

StatisticsInit == logged = {} /\ sat = {} /\ gone = {} /\ now = 0

Room == Cardinality(logged) + Cardinality(sat) < MaxFacts

-----------------------------------------------------------------------------
(* What the database holds. *)

LogProgress(b) ==
  /\ Room /\ b \notin gone
  /\ logged' = logged \cup {[book |-> b, day |-> now]}
  /\ UNCHANGED <<sat, gone, now>>

StartReading(b) ==
  /\ Room /\ b \notin gone
  /\ sat' = sat \cup {[book |-> b, first |-> now, last |-> {}]}
  /\ UNCHANGED <<logged, gone, now>>

\* An import gives a book read on some days in the past.
ImportSession(b, first, last) ==
  /\ Room
  /\ first <= last /\ last <= now
  /\ sat' = sat \cup {[book |-> b, first |-> first, last |-> {last}]}
  /\ UNCHANGED <<logged, gone, now>>

\* The entry of a peer whose clock may be ahead.
PeerLogs(b, day) ==
  /\ Room
  /\ logged' = logged \cup {[book |-> b, day |-> day]}
  /\ UNCHANGED <<sat, gone, now>>

\* A tombstone leaves entries and sessions alone.
BuryBook(b) ==
  /\ b \notin gone
  /\ gone' = gone \cup {b}
  /\ UNCHANGED <<logged, sat, now>>

DayPasses ==
  /\ now < MaxDay
  /\ now' = now + 1
  /\ UNCHANGED <<logged, sat, gone>>

StatisticsNext ==
  \/ \E b \in Title :
       \/ LogProgress(b) \/ StartReading(b) \/ BuryBook(b)
       \/ \E day \in 0 .. MaxDay :
            \/ PeerLogs(b, day)
            \/ \E last \in 0 .. MaxDay : ImportSession(b, day, last)
  \/ DayPasses

-----------------------------------------------------------------------------
(* A report is about a set of books, everything or the live books of an     *)
(* author, and about the days of a year or of all years; but the activity   *)
(* of an author is that of all years whatever the year of the report.       *)

MonthOf(day) == <<day \div (DaysPerMonth * MonthsPerYear),
                  1 + ((day \div DaysPerMonth) % MonthsPerYear)>>

Years == {MonthOf(day)[1] : day \in 0 .. MaxDay}
DaysOf(year) == {day \in 0 .. MaxDay : MonthOf(day)[1] = year}

\* list_activity_dates_for_books: the activity in a report about an author.
ActivityOf(books) ==
  {e.day : e \in {x \in logged : x.book \in books}}
    \cup UNION {{s.first} \cup s.last : s \in {x \in sat : x.book \in books}}

\* list_activity_dates and list_activity_dates_in_year: that in a report about
\* everything.
ActivityDates(days) == ActivityOf(Title) \cap days

\* list_reading_sessions and its three variants, those that are finished.
Finished(books, days) ==
  {s \in sat : s.book \in books /\ s.last # {} /\ s.last \subseteq days}

\* A faulty Extended, to validate ReportsAddUp: a gap does not end the run.
ExtendedAcross(run, gap) ==
  LET length == IF gap = 1 THEN run.current + 1 ELSE run.current IN
  [current |-> length, longest |-> IF length > run.longest THEN length ELSE run.longest]

\* The runs after one more day.
Extended(run, gap) ==
  LET length == IF gap = 1 THEN run.current + 1 ELSE 1 IN
  [current |-> length, longest |-> IF length > run.longest THEN length ELSE run.longest]

\* compute_streaks.
Streaks(dates, today) ==
  IF dates = {} THEN [current |-> 0, longest |-> 0]
  ELSE LET ds == SetToSortSeq(dates, <)
           gaps == [i \in 1 .. Len(ds) - 1 |-> ds[i + 1] - ds[i]]
           run == FoldLeft(Extended, [current |-> 1, longest |-> 1], gaps)
       IN [run EXCEPT !.current = IF today - Last(ds) <= 1 THEN run.current ELSE 0]

\* The months from m to the last, rolling over at the end of a year.
RECURSIVE MonthsFrom(_, _)
MonthsFrom(m, last) ==
  IF m = last THEN <<m>>
  ELSE <<m>> \o MonthsFrom(IF m[2] < MonthsPerYear THEN <<m[1], m[2] + 1>> ELSE <<m[1] + 1, 1>>, last)

InMonth(sessions, m) == {s \in sessions : \A day \in s.last : MonthOf(day) = m}

\* compute_monthly_finished.
MonthlyFinished(sessions) ==
  LET months == {MonthOf(day) : day \in UNION {s.last : s \in sessions}}
      earlier(m, n) == m[1] < n[1] \/ (m[1] = n[1] /\ m[2] <= n[2])
      first == CHOOSE m \in months : \A n \in months : earlier(m, n)
      last == CHOOSE m \in months : \A n \in months : earlier(n, m)
      row(m) == [month |-> m, count |-> Cardinality(InMonth(sessions, m))]
  IN IF months = {} THEN <<>>
     ELSE LET ms == MonthsFrom(first, last) IN [i \in DOMAIN ms |-> row(ms[i])]

-----------------------------------------------------------------------------

\* The lengths of the runs of days in dates that end on the day d.
RunsTo(dates, d) == {n \in 1 .. Cardinality(dates) : d - n + 1 .. d \subseteq dates}
Longest(lengths) == IF lengths = {} THEN 0 ELSE Max(lengths)

Always == 0 .. MaxDay
Periods == {Always} \cup {DaysOf(y) : y \in Years}

\* What a report says of the month m; what it does not list is nothing.
CountOf(months, m) ==
  MapThenSumSet(LAMBDA i : months[i].count, {i \in DOMAIN months : months[i].month = m})

(***************************************************************************)
(* The reports agree with the library and with one another.  The longest   *)
(* streak of a report is the longest run of days with activity in it, and  *)
(* the current one the run that ends today, or else yesterday, whatever    *)
(* zone today is one of, unless there is activity after today.  The months *)
(* of a report follow one another without a gap from the first to the last *)
(* with a finished session, and their counts add up to all of those; a     *)
(* month counts for the same in the report of its year as in that of all   *)
(* years.  The reports of the years share out the finished sessions and,   *)
(* if they are about everything, the activity; the reports of two sets of  *)
(* authors share out, in every period, the sessions of the live books.     *)
(***************************************************************************)
ReportAddsUp ==
  /\ \A dates \in {ActivityDates(days) : days \in Periods} \cup {ActivityOf(Title \ gone)} :
       \A today \in {now - 1, now, now + 1} :
         LET streaks == Streaks(dates, today) IN
         /\ streaks.longest = Longest(UNION {RunsTo(dates, d) : d \in dates})
         /\ (\A d \in dates : d <= today) =>
              streaks.current = Longest(RunsTo(dates, today) \cup RunsTo(dates, today - 1))
  /\ LET whole == MonthlyFinished(Finished(Title, Always)) IN \A days \in Periods :
       LET months == MonthlyFinished(Finished(Title, days)) IN
       /\ FoldLeft(LAMBDA sum, m : sum + m.count, 0, months) = Cardinality(Finished(Title, days))
       /\ months # <<>> => months[1].count > 0 /\ Last(months).count > 0
       /\ \A i \in 2 .. Len(months) :
            months[i].month \in {MonthOf(day) : day \in
              {d + DaysPerMonth : d \in {x \in Always : MonthOf(x) = months[i - 1].month}}}
       /\ \A m \in {MonthOf(day) : day \in days} :
            CountOf(months, m) = CountOf(whole, m)
  /\ ActivityDates(Always) = UNION {ActivityDates(DaysOf(y)) : y \in Years}
  /\ MapThenSumSet(LAMBDA y : Cardinality(Finished(Title, DaysOf(y))), Years)
       = Cardinality(Finished(Title, Always))
  /\ \A mine \in SUBSET (Title \ gone), days \in Periods :
       LET others == (Title \ gone) \ mine
           count(books) == Cardinality(Finished(books, days))
       IN count(mine) + count(others) = count(Title) - count(gone)

=============================================================================
