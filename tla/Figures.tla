-------------------------------- MODULE Figures -------------------------------
(***************************************************************************)
(* The figures of the reading statistics that are about books: what        *)
(* toku stats, the dashboard and the application count by status, format,  *)
(* rating, tag and author, the pages, the averages, the moods of a month   *)
(* and what is being read, for all books or for those of an author, in a   *)
(* year or in all.                                                         *)
(*                                                                         *)
(* An average or a speed is the pair of what is divided and what it is     *)
(* divided by, a pace the pair of what is divided by the time since the    *)
(* first book was finished.  A time counts the days; the order of a list,  *)
(* and how much of it is shown, is left out.                               *)
(***************************************************************************)
EXTENDS Integers, FiniteSets, FiniteSetsExt

CONSTANTS
  Tome,          \* the books
  TomeFormat,    \* the formats in use
  Writer,        \* the names of authors
  Namesake,      \* those of them that differ in case only
  Mark,          \* the names of tags
  Rating,        \* the ratings
  PageCount,     \* and the page counts in use
  YearLength,    \* the days of a year,
  MonthLength,   \* and of a month
  LastDay,       \* bound on the days
  MaxFigures,    \* bound on the changes
  MaxStints      \* bound on the sessions

Statuses == {"want_to_read", "reading", "read", "abandoned", "on_hold"}
Formats == {"physical", "ebook", "audiobook"}
Ratings == 0 .. 10

ASSUME FiguresAssumption ==
  /\ TomeFormat \subseteq Formats /\ Rating \subseteq Ratings /\ Namesake \subseteq Writer /\ PageCount \subseteq Nat
  /\ {YearLength, MonthLength} \subseteq Nat \ {0} /\ {LastDay, MaxFigures, MaxStints} \subseteq Nat

VARIABLES
  cards,    \* cards[b]: the row of the book, a set of none or one
  buried,   \* the books with a tombstone
  marks,    \* book_tags: a book, the name of a tag and whether it is a mood
  credits,  \* book_authors: a book, the name and whether the role is author
  stints,   \* reading_sessions
  reached,  \* reached[b]: the latest progress, a set of none or one
  changes   \* how many changes there were

figuresVars == <<cards, buried, marks, credits, stints, reached, changes>>

FiguresInit ==
  /\ cards = [b \in Tome |-> {}] /\ reached = [b \in Tome |-> {}]
  /\ buried = {} /\ marks = {} /\ credits = {} /\ stints = {} /\ changes = 0

Living == {b \in Tome \ buried : cards[b] # {}}

-----------------------------------------------------------------------------
(* What the database holds. *)

Changed == changes < MaxFigures /\ changes' = changes + 1

AddTome(b, format, pages) ==
  /\ cards[b] = {} /\ b \notin buried
  /\ cards' = [cards EXCEPT ![b] =
       {[status |-> "want_to_read", format |-> format, rating |-> {}, pages |-> pages]}]
  /\ UNCHANGED <<buried, marks, credits, stints, reached, changes>>

PutStatus(b, status) ==
  /\ Changed /\ b \in Living
  /\ cards' = [cards EXCEPT ![b] = {[c EXCEPT !.status = status] : c \in @}]
  /\ UNCHANGED <<buried, marks, credits, stints, reached>>

RateTome(b, rating) ==
  /\ Changed /\ b \in Living
  /\ cards' = [cards EXCEPT ![b] = {[c EXCEPT !.rating = {rating}] : c \in @}]
  /\ UNCHANGED <<buried, marks, credits, stints, reached>>

MarkTome(b, name, mood) ==
  /\ Changed /\ b \in Living
  /\ marks' = marks \cup {[book |-> b, name |-> name, mood |-> mood]}
  /\ UNCHANGED <<cards, buried, credits, stints, reached>>

CreditTome(b, name, author) ==
  /\ Changed /\ b \in Living
  /\ credits' = credits \cup {[book |-> b, name |-> name, author |-> author]}
  /\ UNCHANGED <<cards, buried, marks, stints, reached>>

\* A session, of this device or of a peer, whose clock may go back; the pages read
\* are those from the start page to the end page, if both are known.
AddStint(b, first, last, pages) ==
  /\ Changed /\ cards[b] # {} /\ Cardinality(stints) < MaxStints
  /\ stints' = stints \cup {[no |-> Cardinality(stints), book |-> b, first |-> first,
                             last |-> last, pages |-> pages]}
  /\ UNCHANGED <<cards, buried, marks, credits, reached>>

ReachPage(b, page) ==
  /\ Changed /\ b \in Living
  /\ reached' = [reached EXCEPT ![b] = {page}]
  /\ UNCHANGED <<cards, buried, marks, credits, stints>>

\* A deleted book keeps its tags, its authors and its sessions.
BuryTome(b) ==
  /\ Changed /\ b \in Living
  /\ buried' = buried \cup {b}
  /\ UNCHANGED <<cards, marks, credits, stints, reached>>

Moved(rows, from, to) == {[r EXCEPT !.book = IF @ = from THEN to ELSE @] : r \in rows}

\* The row of the kept book, with what it lacks.
Filled(card, other) ==
  [card EXCEPT !.rating = IF @ = {} THEN other.rating ELSE @,
               !.pages = IF @ = {} THEN other.pages ELSE @]

\* A faulty Taken, to validate ReportsAddUp: the tags are copied, and stay.
TakenAsCopy(rows, from, to) == rows \cup Moved(rows, from, to)

\* INSERT OR IGNORE of the rows of one book for the other, and DELETE.
Taken(rows, from, to) == Moved(rows, from, to)

\* merge_books: what the removed book had is the kept book's, each once, and its
\* row is gone.  The later of two progress entries is the latest.
MergeTomes(keep, away) ==
  /\ Changed /\ {keep, away} \subseteq Living /\ keep # away
  /\ cards' = [cards EXCEPT ![keep] = {Filled(c, o) : c \in cards[keep], o \in cards[away]},
                            ![away] = {}]
  /\ marks' = Taken(marks, away, keep) /\ credits' = Taken(credits, away, keep)
  /\ stints' = Moved(stints, away, keep)
  /\ LET known == reached[keep] \cup reached[away] IN
     \E latest \in IF known = {} THEN {{}} ELSE {{page} : page \in known} :
       reached' = [reached EXCEPT ![keep] = latest, ![away] = {}]
  /\ UNCHANGED buried

\* None or one of a set.
Perhaps(S) == {{}} \cup {{x} : x \in S}

FiguresNext ==
  \/ \E b \in Tome :
       \/ \E format \in TomeFormat, pages \in Perhaps(PageCount) : AddTome(b, format, pages)
       \/ \E status \in Statuses : PutStatus(b, status)
       \/ \E rating \in Rating : RateTome(b, rating)
       \/ \E name \in Mark, mood \in BOOLEAN : MarkTome(b, name, mood)
       \/ \E name \in Writer, author \in BOOLEAN : CreditTome(b, name, author)
       \/ \E first \in 0 .. LastDay, last \in Perhaps(0 .. LastDay), pages \in Perhaps({1}) :
            AddStint(b, first, last, pages)
       \/ \E page \in PageCount : ReachPage(b, page)
       \/ BuryTome(b)
  \/ \E keep, away \in Tome : MergeTomes(keep, away)

-----------------------------------------------------------------------------
(* What a report is computed from, StatsInput. *)

Year(day) == day \div YearLength
Month(day) == day \div MonthLength

SameName(n, m) == n = m \/ {n, m} \subseteq Namesake

\* list_books_by_author_name: whatever the role, and whatever the case.
ByAuthor(name) ==
  {b \in Living : \E c \in credits : c.book = b /\ SameName(c.name, name)}

\* list_reading_sessions, and for a year those that were finished in it.  (years is
\* empty for all of them.)
Stints(years) == {s \in stints : years # {} => \E day \in s.last : Year(day) \in years}

\* list_sessions_for_books.
StintsOf(books, years) == {s \in Stints(years) : s.book \in books}

\* list_tag_counts: a tag of a book counts, and there may be two of the same name.
TagCounts(books) ==
  [name \in Mark |-> Cardinality({m \in marks : m.book \in books /\ m.name = name})]

\* list_author_book_counts: each book once, in the role of author.
AuthorCounts(books) ==
  [name \in Writer |->
     Cardinality({c.book : c \in {x \in credits : x.book \in books /\ x.name = name /\ x.author}})]

\* get_currently_reading_details.
BeingRead(books) == {b \in Living \cap books : \E c \in cards[b] : c.status = "reading"}

\* get_mood_tags_for_books: of the books of the report, that is of live ones.
MoodTags(books) == {m \in marks : m.mood /\ m.book \in books}

\* What a report lists.
StatsInput(books, sittings, counted) ==
  [books |-> books, stints |-> sittings, reading |-> BeingRead(counted),
   tags |-> TagCounts(counted), authors |-> AuthorCounts(counted), moods |-> MoodTags(books)]

\* The report of cmd_stats about an author: whatever it lists is of these books.
OfAuthor(books, years) == StatsInput(books, StintsOf(books, years), books)

\* The report about everything, of cmd_stats and the dashboard: tags, authors and
\* sessions are listed whether or not the book is deleted.
OfAll(years) == StatsInput(Living, Stints(years), Tome)

-----------------------------------------------------------------------------
(* The figures, compute_stats. *)

\* The number in a set of none or one, and 0 if there is none.
Only(S) == MapThenSumSet(LAMBDA n : n, S)

PagesIn(b) == UNION {c.pages : c \in cards[b]}
RatingOf(b) == UNION {c.rating : c \in cards[b]}
WithStatus(books, status) == {b \in books : \E c \in cards[b] : c.status = status}
PagesOf(books) == MapThenSumSet(LAMBDA b : Only(PagesIn(b)), books)

Closed(sittings) == {s \in sittings : s.last # {}}
Days(s) == Only(s.last) - s.first

\* Books on hold are not counted.
StatusCounts(books) ==
  [s \in Statuses \ {"on_hold"} |-> Cardinality(WithStatus(books, s))]

FormatBreakdown(books) ==
  [f \in Formats |-> Cardinality({b \in books : \E c \in cards[b] : c.format = f})]
RatingDistribution(books) == [r \in Ratings |-> Cardinality({b \in books : r \in RatingOf(b)})]

AverageRating(books) ==
  <<MapThenSumSet(LAMBDA b : Only(RatingOf(b)), books), Cardinality({b \in books : RatingOf(b) # {}})>>

\* compute_pace: a book that was finished twice counts twice, its pages once.
Pace(sittings, books) ==
  <<Cardinality(Closed(sittings)), PagesOf({b \in books : \E s \in Closed(sittings) : s.book = b})>>

\* compute_avg_days_to_finish: never less than no day.
DaysToFinish(sittings) ==
  <<MapThenSumSet(LAMBDA s : IF Days(s) > 0 THEN Days(s) ELSE 0, Closed(sittings)),
    Cardinality(Closed(sittings))>>

\* compute_reading_speed: of the sessions whose pages and length are known.
ReadingSpeed(sittings) ==
  LET valid == {s \in Closed(sittings) : s.pages # {} /\ Days(s) > 0} IN
  <<MapThenSumSet(LAMBDA s : Only(s.pages), valid), MapThenSumSet(Days, valid)>>

\* compute_mood_trends: by the month in which the book was finished.
MoodTrends(sittings, moods) ==
  [month \in {Month(day) : day \in 0 .. LastDay} |->
     [name \in Mark |->
        Cardinality({<<s, m>> \in Closed(sittings) \X moods :
                       s.last \subseteq {day \in 0 .. LastDay : Month(day) = month}
                         /\ m.book = s.book /\ m.name = name})]]

\* compute_currently_reading: at most 100 percent, and of no pages no percentage.
CurrentlyReading(books) ==
  {[book |-> b, page |-> reached[b],
    percent |-> {Min({100, (100 * page) \div total}) :
                 page \in reached[b],
                 total \in PagesIn(b) \ {0}}] : b \in books}

ShortestAndLongest(books) ==
  LET pages == UNION {PagesIn(b) : b \in books} \ {0} IN
  IF pages = {} THEN {} ELSE {Min(pages), Max(pages)}

\* compute_stats.
Stats(in) ==
  [total |-> Cardinality(in.books), statuses |-> StatusCounts(in.books),
   pages |-> PagesOf(WithStatus(in.books, "read")), formats |-> FormatBreakdown(in.books),
   ratings |-> RatingDistribution(in.books), average |-> AverageRating(in.books),
   pace |-> Pace(in.stints, in.books), days |-> DaysToFinish(in.stints),
   speed |-> ReadingSpeed(in.stints), moods |-> MoodTrends(in.stints, in.moods),
   reading |-> CurrentlyReading(in.reading), extremes |-> ShortestAndLongest(in.books),
   tags |-> in.tags, authors |-> in.authors]

\* The years that the dashboard offers.
Offered == {Year(day) : day \in UNION {s.last : s \in stints}}

\* gather_stats_for_ffi, the report of the application.
Gathered(years) == Stats(OfAll(years))

-----------------------------------------------------------------------------

\* What deleted books leave in a report about everything: sessions, tags and authors.
OfBuried(years) ==
  [books |-> {}, stints |-> StintsOf(buried, years), reading |-> {},
   tags |-> TagCounts(buried), authors |-> AuthorCounts(buried), moods |-> {}]

\* Two reports put together.
Plus(f, g) == [x \in DOMAIN f |-> f[x] + g[x]]
Together(s, t) ==
  [total |-> s.total + t.total, statuses |-> Plus(s.statuses, t.statuses),
   pages |-> s.pages + t.pages, formats |-> Plus(s.formats, t.formats),
   ratings |-> Plus(s.ratings, t.ratings), average |-> Plus(s.average, t.average),
   pace |-> Plus(s.pace, t.pace), days |-> Plus(s.days, t.days), speed |-> Plus(s.speed, t.speed),
   moods |-> [month \in DOMAIN s.moods |-> Plus(s.moods[month], t.moods[month])],
   reading |-> s.reading \cup t.reading,
   extremes |-> LET both == s.extremes \cup t.extremes IN
                IF both = {} THEN {} ELSE {Min(both), Max(both)},
   tags |-> Plus(s.tags, t.tags), authors |-> Plus(s.authors, t.authors)]

SumOf(f) == MapThenSumSet(LAMBDA x : f[x], DOMAIN f)

(***************************************************************************)
(* The figures of a report agree with one another and with those of other  *)
(* reports.  Every book has a format and, but for those on hold, a status  *)
(* that is counted, and the distribution of ratings is what the average is *)
(* of.  The report about everything is what that about an author's books   *)
(* and that about all other books come to, each book in one of them: in it *)
(* there is besides only what deleted books have left.  A book that was    *)
(* merged into another is in none.  The years that the dashboard offers    *)
(* share out what was finished.                                            *)
(***************************************************************************)
FiguresAddUp ==
  LET whole == Gathered({}) IN
  /\ SumOf(whole.statuses) + Cardinality(WithStatus(Living, "on_hold")) = whole.total
  /\ SumOf(whole.formats) = whole.total
  /\ whole.average = <<MapThenSumSet(LAMBDA r : r * whole.ratings[r], Ratings), SumOf(whole.ratings)>>
  /\ \A mine \in {ByAuthor(name) : name \in Writer} :
       LET ours == Together(Stats(OfAuthor(mine, {})), Stats(OfAuthor(Living \ mine, {})))
       IN whole = Together(ours, Stats(OfBuried({})))
  /\ LET year == [y \in Offered |-> Gathered({y})] IN
       /\ whole.pace[1] = MapThenSumSet(LAMBDA y : year[y].pace[1], Offered)
       /\ whole.days[1] = MapThenSumSet(LAMBDA y : year[y].days[1], Offered)
       /\ whole.speed[2] = MapThenSumSet(LAMBDA y : year[y].speed[2], Offered)
       /\ \A month \in DOMAIN whole.moods : \A y \in Offered :
            year[y].moods[month] = [name \in Mark |-> IF Year(month * MonthLength) = y
                                                        THEN whole.moods[month][name] ELSE 0]

=============================================================================
