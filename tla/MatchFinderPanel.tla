-------------------------- MODULE MatchFinderPanel --------------------------
(***************************************************************************)
(* MatchFinderPanel (src/src/ui/MatchFinderPanel.cpp): the options of a    *)
(* search with the two saved paths, the table of matches, and the buttons  *)
(* that start a search and a run of links.  The actions of a panel that    *)
(* exists; MainWindow creates and deletes it.                              *)
(*                                                                         *)
(* Buttons and form are enabled by updateControls alone, so what they show *)
(* is state of its own, and the code relies on it: onStartClicked does not *)
(* ask whether a run of links is under way.  A box runs an event loop of   *)
(* its own: the user can do nothing else, but everything else goes on.     *)
(*                                                                         *)
(* MatchSearcher is taken as MatchSearcher.tla shows it (a search ends     *)
(* once, failing inside start at the earliest), LinkRunner as LinkRun.     *)
(***************************************************************************)
EXTENDS MatchResultsModel, MatchConflicts

CONSTANTS Paths,    \* paths a user may enter
          Nothing   \* an empty text

Sides == {"primary", "secondary"}

ASSUME MatchFinderPanelAssumption == Nothing \notin Paths \cup Sides

VARIABLES
  edit, typing,      \* texts of the path boxes; the one being edited
  saved,             \* the paths in QSettings, which outlive the program
  validating,        \* m_primaryValidating, m_secondaryValidating
  searching,         \* m_searcher->isRunning()
  jobs, current, reported,               \* m_runner, as LinkRun
  jobRows,           \* m_jobRows
  dialog, picked,    \* the box that is open; rows of onLinkSelectedClicked
  startEnabled, linkEnabled, formEnabled, header,  \* what the controls show
  owed,              \* listings the session will answer, how many by path
  said               \* history: what the runner last said of a match

form     == <<edit, typing, saved, validating>>
run      == <<jobs, current, reported, jobRows>>
box      == <<dialog, picked>>
controls == <<startEnabled, linkEnabled, formEnabled>>

Runner == INSTANCE LinkRun

Texts == Paths \cup {Nothing}
Boxes == {"none", "warning", "question"}

Linking           == Runner!Active
ValidationPending == \E s \in Sides : validating[s] # Nothing

JobOf(m)  == [primary |-> m.primary, victim |-> m.secondary]
JobsOf(r) == [k \in DOMAIN r |-> JobOf(rows[r[k]].match)]
Said(m)   == IF JobOf(m) \in DOMAIN said THEN said[JobOf(m)] ELSE ""

\* A new panel, but for its paths; also what stands for the panel where there
\* is none.
NoPanel ==
  /\ edit = [s \in Sides |-> Nothing] /\ typing = Nothing
  /\ validating = [s \in Sides |-> Nothing]
  /\ searching = FALSE /\ jobs = <<>> /\ current = 0 /\ reported = <<>>
  /\ jobRows = <<>> /\ dialog = "none" /\ picked = <<>>
  /\ rows = <<>> /\ checkedCount = 0 /\ locked = FALSE
  /\ startEnabled = TRUE /\ linkEnabled = FALSE /\ formEnabled = TRUE
  /\ header = "unchecked" /\ said = <<>>

\* The panel is deleted with all its children.
PanelGone ==
  /\ edit' = [s \in Sides |-> Nothing] /\ typing' = Nothing
  /\ validating' = [s \in Sides |-> Nothing]
  /\ searching' = FALSE /\ Runner!Gone /\ jobRows' = <<>>
  /\ dialog' = "none" /\ picked' = <<>>
  /\ rows' = <<>> /\ checkedCount' = 0 /\ locked' = FALSE
  /\ startEnabled' = TRUE /\ linkEnabled' = FALSE /\ formEnabled' = TRUE
  /\ header' = "unchecked" /\ said' = <<>>
-----------------------------------------------------------------------------
\* Mutant of UpdateControls: a run of links does not keep searches away.
StartWhileLinking ==
  /\ startEnabled' = (searching' \/ ~ValidationPending')
  /\ linkEnabled' = (~searching' /\ ~Linking' /\ checkedCount' > 0)
  /\ formEnabled' = (~searching' /\ ~Linking')

\* updateControls.
UpdateControls ==
  /\ startEnabled' = (searching' \/ (~Linking' /\ ~ValidationPending'))
  /\ linkEnabled' = (~searching' /\ ~Linking' /\ checkedCount' > 0)
  /\ formEnabled' = (~searching' /\ ~Linking')

\* The panel's handler of checkedCountChanged.
CheckedCountChanged ==
  /\ header' = AggregateCheckState'
  /\ UpdateControls

\* The user turns to a path box and changes its text ...
Type(s, text) ==
  /\ formEnabled /\ dialog = "none" /\ typing \in {s, Nothing}
  /\ edit' = [edit EXCEPT ![s] = text] /\ typing' = s
  /\ UNCHANGED <<saved, validating, searching, run, box, results, controls,
                 header, owed, said>>

\* ... and leaves it.  Every other click of the user comes after that.
EditingFinished ==
  /\ typing # Nothing
  /\ saved' = [saved EXCEPT ![typing] = edit[typing]] /\ typing' = Nothing
  /\ UNCHANGED <<edit, validating, searching, run, box, results, controls,
                 header, owed, said>>

\* The user is free to click.
Clicks == dialog = "none" /\ typing = Nothing

\* Mutant of Validation: the members are set after the calls, which may have
\* failed by then.
ValidationNotedLate(bad) ==
  /\ validating' = saved
  /\ edit' = saved /\ UNCHANGED saved

\* beginPathValidation, on a panel with the saved paths in its boxes: the
\* listings of bad are declined on the spot and the paths cleared.
Validation(bad) ==
  LET kept == [s \in Sides |-> IF saved[s] \in bad THEN Nothing ELSE saved[s]]
  IN validating' = kept /\ edit' = kept /\ saved' = kept

BeginPathValidation ==
  \E bad \in SUBSET ({saved[s] : s \in Sides} \ {Nothing}) :
    /\ Validation(bad)
    /\ owed' = [p \in Paths |-> IF p \notin bad /\ \E s \in Sides : saved[s] = p
                                  THEN 1 ELSE 0]
    /\ UpdateControls

\* onDirectoryListed, whoever asked for the listing.
OnDirectoryListed(p) ==
  /\ validating' = [s \in Sides |-> IF validating[s] = p THEN Nothing ELSE validating[s]]
  /\ IF validating' # validating THEN UpdateControls ELSE UNCHANGED controls

Answered(p) == owed[p] > 0 /\ owed' = [owed EXCEPT ![p] = @ - 1]

Listed(p) ==
  /\ Answered(p)
  /\ UNCHANGED <<edit, typing, saved, searching, run, box, results, header, said>>
  /\ OnDirectoryListed(p)

\* Mutants of OnDirectoryListFailed: it looks at the boxes; it forgets the
\* settings.
FailureClearsText(p) ==
  LET hit == {s \in Sides : edit[s] = p} IN
  /\ validating' = [s \in Sides |-> IF validating[s] = p THEN Nothing ELSE validating[s]]
  /\ edit' = [s \in Sides |-> IF s \in hit THEN Nothing ELSE edit[s]]
  /\ saved' = [s \in Sides |-> IF s \in hit THEN Nothing ELSE saved[s]]
  /\ UpdateControls

FailureNotSaved(p) ==
  LET hit == {s \in Sides : validating[s] = p} IN
  /\ validating' = [s \in Sides |-> IF s \in hit THEN Nothing ELSE validating[s]]
  /\ edit' = [s \in Sides |-> IF s \in hit THEN Nothing ELSE edit[s]]
  /\ UNCHANGED saved
  /\ IF hit # {} THEN UpdateControls ELSE UNCHANGED controls

\* onDirectoryListFailed: clears what the box holds now, which need not be
\* the path that failed.
OnDirectoryListFailed(p) ==
  LET hit == {s \in Sides : validating[s] = p} IN
  /\ validating' = [s \in Sides |-> IF s \in hit THEN Nothing ELSE validating[s]]
  /\ edit' = [s \in Sides |-> IF s \in hit THEN Nothing ELSE edit[s]]
  /\ saved' = [s \in Sides |-> IF s \in hit THEN Nothing ELSE saved[s]]
  /\ IF hit # {} THEN UpdateControls ELSE UNCHANGED controls

ListFailed(p) ==
  /\ Answered(p)
  /\ UNCHANGED <<typing, searching, run, box, results, header, said>>
  /\ OnDirectoryListFailed(p)

\* A view or the searcher lists a path.
OthersList(p) ==
  /\ owed[p] = 0
  /\ owed' = [owed EXCEPT ![p] = 1]
  /\ UNCHANGED <<form, searching, run, box, results, controls, header, said>>
-----------------------------------------------------------------------------
\* The table gets new rows: setMatches and its signal.
NewMatches(ms) ==
  /\ SetMatches(ms) /\ said' = <<>>
  /\ CheckedCountChanged

\* onStartClicked, with both paths entered: the search fails inside start or
\* is under way.
StartSearch ==
  /\ Clicks /\ startEnabled /\ ~searching
  /\ \A s \in Sides : edit[s] # Nothing
  /\ searching' \in BOOLEAN
  /\ UNCHANGED <<form, run, box, owed>>
  /\ NewMatches(<<>>)

\* onStartClicked during a search, and onSearchFinished, cancelled.
CancelSearch ==
  /\ Clicks /\ startEnabled /\ searching
  /\ searching' = FALSE
  /\ UNCHANGED <<form, run, box, results, header, owed, said>>
  /\ UpdateControls

\* onSearchFinished.
OnSearchFinished(ms) ==
  /\ searching /\ searching' = FALSE
  /\ UNCHANGED <<form, run, box, owed>>
  /\ NewMatches(ms)

\* Mutant of OnSearchFailed: the controls are left as they are.
FailedSearchNotShown ==
  /\ searching /\ searching' = FALSE
  /\ UNCHANGED <<form, run, box, results, header, owed, said, controls>>

\* onSearchFailed.
OnSearchFailed ==
  /\ searching /\ searching' = FALSE
  /\ UNCHANGED <<form, run, box, results, header, owed, said>>
  /\ UpdateControls

\* A click on a row's check box, or on the header.
Check(i, checked) ==
  /\ Clicks
  /\ SetData(i, checked)
  /\ UNCHANGED <<form, searching, run, box, owed, said>>
  /\ CheckedCountChanged

ToggleAll ==
  /\ Clicks
  /\ SetAllChecked(header # "checked")
  /\ UNCHANGED <<form, searching, run, box, owed, said>>
  /\ CheckedCountChanged

\* Mutant of Ask: the conflicts are not looked for.
AskAnyway(r) == dialog' = "question" /\ picked' = r

\* The boxes of onLinkSelectedClicked.
Ask(r) ==
  \/ ConflictFree(JobsOf(r)) /\ dialog' = "question" /\ picked' = r
  \/ ~ConflictFree(JobsOf(r)) /\ dialog' = "warning" /\ UNCHANGED picked

\* onLinkSelectedClicked up to its box, ...
OnLinkSelectedClicked ==
  /\ Clicks /\ linkEnabled /\ ~searching /\ ~Linking
  /\ \E r \in CheckedRows : r # <<>> /\ Ask(r)
  /\ UNCHANGED <<form, searching, run, results, controls, header, owed, said>>

\* ... after the warning or the answer No, ...
Dismissed ==
  /\ dialog # "none"
  /\ dialog' = "none" /\ picked' = <<>>
  /\ UNCHANGED <<form, searching, run, results, controls, header, owed, said>>

\* Mutant of TellRow: jobs are taken for rows.
TellSameRow(rs, k, status) == WithStatus(rs, k, status)

\* setStatus(m_jobRows.at(k), status) and the same in the history.
TellRow(rs, k, status) == WithStatus(rs, jobRows'[k], status)
Tell(told, js, k, status) ==
  [j \in DOMAIN told \cup {js[k]} |-> IF j = js[k] THEN status ELSE told[j]]

\* ... and after Yes: LinkRunner::start, whose first jobStatusChanged comes
\* before it returns.
Confirmed ==
  /\ dialog = "question" /\ dialog' = "none" /\ picked' = <<>>
  /\ jobRows' = picked /\ jobs' = JobsOf(picked) /\ Runner!Begin
  /\ rows' = TellRow(rows, 1, "under way")
  /\ said' = Tell(said, jobs', 1, "under way")
  /\ locked' = TRUE
  /\ UNCHANGED <<form, searching, checkedCount, header, owed>>
  /\ UpdateControls

\* The handler of allFinished.
AllFinished ==
  /\ locked' = FALSE
  /\ UpdateControls

\* jobFinished, then jobStatusChanged of the next job or allFinished.
JobFinished(message) ==
  /\ UNCHANGED <<form, searching, box, jobRows, checkedCount, header, owed>>
  /\ Runner!Finish(message)
  /\ LET once == TellRow(rows, current, message)
         told == Tell(said, jobs, current, message)
     IN \/ /\ Linking'
           /\ rows' = TellRow(once, current + 1, "under way")
           /\ said' = Tell(told, jobs, current + 1, "under way")
           /\ UNCHANGED <<locked, controls>>
        \/ /\ ~Linking'
           /\ rows' = once /\ said' = told
           /\ AllFinished
-----------------------------------------------------------------------------
TypeOK ==
  /\ edit \in [Sides -> Texts] /\ typing \in Sides \cup {Nothing}
  /\ saved \in [Sides -> Texts] /\ validating \in [Sides -> Texts]
  /\ searching \in BOOLEAN
  /\ jobs \in Seq([primary : Files, victim : Files]) /\ current \in Nat
  /\ dialog \in Boxes
  /\ rows \in Seq(Row) /\ checkedCount \in Nat /\ locked \in BOOLEAN
  /\ {jobRows, picked} \subseteq Seq(Nat)
  /\ {startEnabled, linkEnabled, formEnabled} \subseteq BOOLEAN
  /\ header \in {"unchecked", "partial", "checked"}
  /\ owed \in [Paths -> Nat]
=============================================================================
