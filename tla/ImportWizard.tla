----------------------------- MODULE ImportWizard -----------------------------
(***************************************************************************)
(* An import through the dashboard: a file is uploaded and previewed, the  *)
(* import is started, and the browsers that show its progress are told row *)
(* by row and at the end, which takes them to the results.                 *)
(*                                                                         *)
(* What the handlers share is one session under a mutex.  The import runs  *)
(* on a thread of its own and tells of its rows through a broadcast        *)
(* channel, which drops the oldest events of a receiver that falls behind. *)
(* A browser that opens the stream late is first told the latest row.      *)
(***************************************************************************)
EXTENDS Naturals, Sequences

CONSTANTS
  Browser,    \* pages that can show the progress
  MaxRuns,    \* bound on the times the import is started
  MaxRows,    \* rows of the file
  Capacity    \* events that the channel keeps for a receiver

ASSUME WizardAssumption ==
  /\ {MaxRuns, MaxRows} \subseteq Nat
  /\ Capacity \in Nat \ {0}

Run == 1 .. MaxRuns
Complete == [event |-> "complete", run |-> 0, row |-> 0]
RowEvent(r, i) == [event |-> "progress", run |-> r, row |-> i]
Nothing == [event |-> "none", run |-> 0, row |-> 0]

VARIABLES
  wizard,   \* the import session: status, the latest row, the run whose
            \* channel it has, and, as history, whether it was started twice
  import,   \* import[r]: the thread of the run r: rows stored and rows sent
  browser   \* browser[w]: where the page is, the channel it listens to, the
            \* events sent first and those of the channel, and the last row shown

wizardVars == <<wizard, import, browser>>

NoWizard == [status |-> "none", latest |-> Nothing, channel |-> 0, twice |-> FALSE]
Unstarted == [at |-> "none", stored |-> 0, sent |-> 0]
Elsewhere == [at |-> "elsewhere", channel |-> 0, first |-> <<>>, box |-> <<>>, shown |-> Nothing]

WizardInit ==
  /\ wizard = NoWizard
  /\ import = [r \in Run |-> Unstarted]
  /\ browser = [w \in Browser |-> Elsewhere]

Done == {"complete", "failed"}
Going == {r \in Run : import[r].at = "running"}
Started == {r \in Run : import[r].at # "none"}

\* What a receiver that is behind keeps.
Kept(box) == SubSeq(box, IF Len(box) > Capacity THEN Len(box) - Capacity + 1 ELSE 1, Len(box))

\* The pages after e was sent to the channel of the run r.
Told(r, e) ==
  [w \in Browser |-> IF browser[w].at = "watching" /\ browser[w].channel = r
                     THEN [browser[w] EXCEPT !.box = Kept(Append(@, e))] ELSE browser[w]]

-----------------------------------------------------------------------------

\* upload_csv and submit_calibre_path, with their dry run.
Upload ==
  /\ wizard.status = "none"
  /\ wizard' = [NoWizard EXCEPT !.status = "preview"]
  /\ UNCHANGED <<import, browser>>

\* execute_import, whatever the status.
Execute(r) ==
  /\ wizard.status # "none"
  /\ r \notin Started /\ 1 .. r - 1 \subseteq Started
  /\ wizard' = [wizard EXCEPT !.status = "running", !.channel = r,
                               !.twice = wizard.status # "preview"]
  /\ import' = [import EXCEPT ![r].at = "running"]
  /\ UNCHANGED browser

\* on_event stores the row under the mutex, and sends it after.
StoreRow(r) ==
  /\ import[r].at = "running" /\ import[r].stored = import[r].sent
  /\ import[r].stored < MaxRows
  /\ import' = [import EXCEPT ![r].stored = @ + 1]
  /\ wizard' = [wizard EXCEPT !.latest = RowEvent(r, import'[r].stored)]
  /\ UNCHANGED browser

SendRow(r) ==
  /\ import[r].sent < import[r].stored
  /\ import' = [import EXCEPT ![r].sent = @ + 1]
  /\ browser' = Told(r, RowEvent(r, import'[r].sent))
  /\ UNCHANGED wizard

\* A faulty RunEnds, to validate NobodyWaitsInVain: a failure returns early.
RunEndsSilently(r, outcome) ==
  /\ import[r].at = "running" /\ import[r].sent = import[r].stored
  /\ outcome = "complete" => import[r].sent = MaxRows
  /\ import' = [import EXCEPT ![r].at = "ended"]
  /\ wizard' = [wizard EXCEPT !.status = outcome]
  /\ browser' = IF outcome = "complete" THEN Told(r, Complete) ELSE browser

\* The status and the last event are one section of the mutex.
RunEnds(r, outcome) ==
  /\ import[r].at = "running" /\ import[r].sent = import[r].stored
  /\ outcome = "complete" => import[r].sent = MaxRows
  /\ import' = [import EXCEPT ![r].at = "ended"]
  /\ wizard' = [wizard EXCEPT !.status = outcome]
  /\ browser' = Told(r, Complete)

\* progress_page sends a browser that comes late to the results, and any other
\* to import_progress_sse, which subscribes and reads the status in one section.
OpenProgress(w) ==
  /\ browser[w].at = "elsewhere"
  /\ wizard.status \notin {"none"} \cup Done
  /\ browser' = [browser EXCEPT ![w].at = "opening"]
  /\ UNCHANGED <<wizard, import>>

Subscribe(w) ==
  LET latest == IF wizard.latest = Nothing THEN <<>> ELSE <<wizard.latest>> IN
  /\ browser[w].at = "opening"
  /\ wizard.status # "none"
  /\ browser' = [browser EXCEPT ![w] =
       IF wizard.status \in Done
       THEN [Elsewhere EXCEPT !.at = "watching", !.first = Append(latest, Complete)]
       ELSE [Elsewhere EXCEPT !.at = "watching", !.first = latest, !.channel = wizard.channel]]
  /\ UNCHANGED <<wizard, import>>

\* What the results page answers.
Results == IF wizard.status \in Done THEN "results" ELSE "unfinished"

\* The page shows a row, or goes to the results.
Show(w) ==
  LET page == browser[w]
      e == IF page.first # <<>> THEN Head(page.first) ELSE Head(page.box)
  IN
  /\ page.at = "watching" /\ page.first \o page.box # <<>>
  /\ browser' = [browser EXCEPT ![w] =
       IF e = Complete THEN [Elsewhere EXCEPT !.at = Results]
       ELSE IF page.first # <<>> THEN [page EXCEPT !.shown = e, !.first = Tail(@)]
       ELSE [page EXCEPT !.shown = e, !.box = Tail(@)]]
  /\ UNCHANGED <<wizard, import>>

\* A stream that has no sender left is at its end.
Ended(w) == browser[w].channel \notin Going \cup {wizard.channel} \/ browser[w].channel = 0

\* The end of the stream is an error to the page, as is a lost connection.
StreamBreaks(w) ==
  /\ browser[w].at = "watching"
  /\ browser' = [browser EXCEPT ![w] = [Elsewhere EXCEPT !.at =
                   IF Results = "results" THEN "results" ELSE "cut off"]]
  /\ UNCHANGED <<wizard, import>>

\* The way back, for instance after a cut.
GoBack(w) ==
  /\ browser[w].at \in {"results", "unfinished", "cut off"}
  /\ browser' = [browser EXCEPT ![w] = Elsewhere]
  /\ UNCHANGED <<wizard, import>>

\* Sessions are in memory only.
ServerRestarts ==
  /\ wizard.status # "none"
  /\ wizard' = NoWizard
  /\ import' = [r \in Run |-> IF import[r].at = "none" THEN import[r]
                              ELSE [import[r] EXCEPT !.at = "ended", !.sent = import[r].stored]]
  /\ browser' = [w \in Browser |-> IF browser[w].at \in {"watching", "opening"}
                                   THEN [Elsewhere EXCEPT !.at = "cut off"] ELSE Elsewhere]

WizardNext ==
  \/ Upload \/ ServerRestarts
  \/ \E r \in Run :
       \/ Execute(r) \/ StoreRow(r) \/ SendRow(r)
       \/ \E outcome \in Done : RunEnds(r, outcome)
  \/ \E w \in Browser :
       OpenProgress(w) \/ Subscribe(w) \/ Show(w) \/ StreamBreaks(w) \/ GoBack(w)

WizardSpec == WizardInit /\ [][WizardNext]_wizardVars

-----------------------------------------------------------------------------

Coming(page) == page.first \o page.box
EndIsComing(page) == \E i \in DOMAIN Coming(page) : Coming(page)[i] = Complete

(***************************************************************************)
(* A page that shows the progress will be told the end, however late it    *)
(* subscribed and however far it is behind: the last event is on its way   *)
(* to it, or the run it listens to is still going, or its stream is at its *)
(* end, which a page takes for the end too.  Unless the import was started *)
(* a second time, the rows that a page will show never go back, and one    *)
(* that has been told the end finds results.                               *)
(***************************************************************************)
NobodyWaitsInVain ==
  \A w \in Browser :
    LET page == browser[w]  told == <<page.shown>> \o Coming(page) IN
    /\ page.at = "watching" => page.channel \in Going \/ EndIsComing(page) \/ Ended(w)
    /\ wizard.twice \/
         \A i, j \in DOMAIN told :
           i <= j /\ Complete \notin {told[i], told[j]} => told[i].row <= told[j].row
    /\ page.at = "unfinished" => wizard.twice

=============================================================================
