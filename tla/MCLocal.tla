------------------------------- MODULE MCLocal --------------------------------
(***************************************************************************)
(* What a library does on its own device: the stamping of its ops, the     *)
(* reading of a book, smart filters, shelves, statistics and the ways to   *)
(* find a book, and the dashboard that is served from it.  These parts     *)
(* share no state, so a behaviour is about one of them.                    *)
(***************************************************************************)
EXTENDS HlcLog, Reading, SmartFilter, Shelves, Statistics, Catalogue,
        ImportWizard, WebLogin, KeyVault, Figures, TLC

VARIABLE part

PartInit ==
  /\ Init /\ ReadingInit /\ FilterInit /\ ShelvesInit /\ StatisticsInit
  /\ CatalogueInit /\ WizardInit /\ WebLoginInit /\ KeyVaultInit /\ FiguresInit
  /\ part \in {"log", "reading", "filter", "shelves", "statistics",
               "catalogue", "wizard", "web login", "vault", "figures"}

PartNext ==
  /\ \/ /\ part = "log" /\ Next
        /\ UNCHANGED <<readingVars, typed, shelvesVars, statisticsVars,
                        catalogueVars, wizardVars, webLoginVars, keyVaultVars, figuresVars>>
     \/ /\ part = "reading" /\ ReadingNext
        /\ UNCHANGED <<vars, typed, shelvesVars, statisticsVars,
                        catalogueVars, wizardVars, webLoginVars, keyVaultVars, figuresVars>>
     \/ /\ part = "filter" /\ FilterNext
        /\ UNCHANGED <<vars, readingVars, shelvesVars, statisticsVars,
                        catalogueVars, wizardVars, webLoginVars, keyVaultVars, figuresVars>>
     \/ /\ part = "shelves" /\ ShelvesNext
        /\ UNCHANGED <<vars, readingVars, typed, statisticsVars,
                        catalogueVars, wizardVars, webLoginVars, keyVaultVars, figuresVars>>
     \/ /\ part = "statistics" /\ StatisticsNext
        /\ UNCHANGED <<vars, readingVars, typed, shelvesVars,
                        catalogueVars, wizardVars, webLoginVars, keyVaultVars, figuresVars>>
     \/ /\ part = "catalogue" /\ CatalogueNext
        /\ UNCHANGED <<vars, readingVars, typed, shelvesVars, statisticsVars,
                        wizardVars, webLoginVars, keyVaultVars, figuresVars>>
     \/ /\ part = "wizard" /\ WizardNext
        /\ UNCHANGED <<vars, readingVars, typed, shelvesVars, statisticsVars,
                        catalogueVars, webLoginVars, keyVaultVars, figuresVars>>
     \/ /\ part = "web login" /\ WebLoginNext
        /\ UNCHANGED <<vars, readingVars, typed, shelvesVars, statisticsVars,
                        catalogueVars, wizardVars, keyVaultVars, figuresVars>>
     \/ /\ part = "vault" /\ KeyVaultNext
        /\ UNCHANGED <<vars, readingVars, typed, shelvesVars, statisticsVars,
                        catalogueVars, wizardVars, webLoginVars, figuresVars>>
     \/ /\ part = "figures" /\ FiguresNext
        /\ UNCHANGED <<vars, readingVars, typed, shelvesVars, statisticsVars,
                        catalogueVars, wizardVars, webLoginVars, keyVaultVars>>
  /\ UNCHANGED part

PartSpec ==
  PartInit /\ [][PartNext]_<<part, vars, readingVars, typed, shelvesVars, statisticsVars,
                             catalogueVars, wizardVars, webLoginVars, keyVaultVars, figuresVars>>

\* A report adds up: the days of a library's statistics and the figures about its
\* books, which toku stats, the dashboard and the application show side by side.
\* (In the other parts neither changes.)
ReportsAddUp ==
  /\ part = "statistics" => ReportAddsUp
  /\ part = "figures" => FiguresAddUp

\* The configuration gives the commands and the books of all the parts the same
\* names; the devices of the log are numbers and stay apart.
Symmetry == Permutations(Shell) \cup Permutations(Shelved)

=============================================================================
