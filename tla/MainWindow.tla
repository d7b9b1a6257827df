----------------------------- MODULE MainWindow -----------------------------
(***************************************************************************)
(* MainWindow (src/src/ui/MainWindow.cpp) with its MatchFinderPanel: the   *)
(* Connect button, what a change of the session's state does, and the life *)
(* of the panel.  The views' part is in FileBrowserView.tla; here they are *)
(* others who ask for listings.                                            *)
(*                                                                         *)
(* After a disconnect the panel waits for its deferred deletion, hidden    *)
(* but not idle.  A box that is open then is deleted with its parent while *)
(* the function that called it still runs: undefined behaviour, modelled   *)
(* as the end of the process.                                              *)
(***************************************************************************)
EXTENDS MatchFinderPanel

VARIABLES conn,   \* m_session->state()
          panel   \* "none", "live", or "doomed": deleteLater was called

panelVars == <<form, searching, run, box, results, controls, header, owed, said>>
vars == <<panelVars, conn, panel>>

Init ==
  /\ saved \in [Sides -> Texts]
  /\ NoPanel /\ owed = [p \in Paths |-> 0]
  /\ conn = "disconnected" /\ panel = "none"
-----------------------------------------------------------------------------
(***************************************************************************)
(* The Connect button, and the session's stateChanged.  What errorOccurred *)
(* adds to it is in SmbSession.tla.                                        *)
(***************************************************************************)
\* onConnectActionTriggered, with a URL that will do and a password, and
\* onSessionStateChanged(Connecting).
Connect ==
  /\ dialog = "none" /\ conn = "disconnected"
  /\ conn' = "connecting"
  /\ UNCHANGED <<panelVars, panel>>

\* onSessionStateChanged(Disconnected), for a failure at any time or the button
\* as Abort or Disconnect: the panel is to be deleted.  What the session had to
\* list is dropped.
Disconnected ==
  /\ conn # "disconnected"
  /\ conn' = "disconnected"
  /\ panel' = IF panel = "live" THEN "doomed" ELSE panel
  /\ owed' = [p \in Paths |-> 0]
  /\ UNCHANGED <<form, searching, run, box, results, controls, header, said>>

\* onSessionStateChanged(Connected): a new panel with the saved paths, whose
\* validation begins.  The old panel is gone by now: its deletion was posted
\* before the attempt began.
Connected ==
  /\ conn = "connecting" /\ panel = "none"
  /\ conn' = "connected" /\ panel' = "live"
  /\ UNCHANGED <<typing, searching, run, box, results, header, said>>
  /\ BeginPathValidation

\* The process ends; the settings remain for the next.
ProcessEnds ==
  /\ conn' = "disconnected" /\ panel' = "none"
  /\ PanelGone /\ owed' = [p \in Paths |-> 0]
  /\ UNCHANGED saved

\* The deferred deletion; the box of onLinkSelectedClicked does not survive it.
PanelDeleted ==
  /\ panel = "doomed"
  /\ \/ /\ dialog = "none"
        /\ panel' = "none" /\ PanelGone
        /\ UNCHANGED <<saved, owed, conn>>
     \/ dialog # "none" /\ ProcessEnds

Crash == ProcessEnds
-----------------------------------------------------------------------------
\* What a user does with the panel, and what only a live session can bring.
LivePanel ==
  \/ \E s \in Sides, text \in Texts : Type(s, text)
  \/ \E p \in Paths : Listed(p)
  \/ \E p \in Paths : ListFailed(p)
  \/ \E p \in Paths : OthersList(p)
  \/ StartSearch
  \/ CancelSearch
  \/ \E ms \in MatchLists : OnSearchFinished(ms)
  \/ OnSearchFailed
  \/ \E i \in DOMAIN rows, checked \in BOOLEAN : Check(i, checked)
  \/ ToggleAll
  \/ OnLinkSelectedClicked

\* What may still happen in a panel that is about to be deleted, too.
AnyPanel ==
  \/ EditingFinished
  \/ Dismissed
  \/ Confirmed
  \/ \E message \in Message : JobFinished(message)

\* A step within the panel, which the window takes no part in.
Within(step) == step /\ UNCHANGED <<conn, panel>>

PanelStep ==
  \/ panel = "live" /\ Within(LivePanel)
  \/ panel # "none" /\ Within(AnyPanel)

Next ==
  \/ Connect \/ Disconnected \/ Connected \/ PanelDeleted \/ Crash
  \/ PanelStep

Spec == Init /\ [][Next]_vars

\* While the connection lasts listings are answered (SmbSession!ReadsSettle),
\* a search ends (MatchSearcher!SearchEnds) and so does each job of a run
\* (LinkRunner!RunEnds).
ListingEnds(p) == panel = "live" /\ Within(Listed(p) \/ ListFailed(p))
SearchEnds == panel = "live" /\ Within(OnSearchFailed \/ \E ms \in MatchLists : OnSearchFinished(ms))
JobEnds    == panel = "live" /\ Within(\E message \in Message : JobFinished(message))

Fairness ==
  /\ \A p \in Paths : WF_vars(ListingEnds(p))
  /\ WF_vars(SearchEnds) /\ WF_vars(JobEnds)

FairSpec == Spec /\ Fairness
-----------------------------------------------------------------------------
\* At most one of the three is under way: the validation of the paths, a
\* search, a run of links.  A search during a run would replace the rows the
\* runner reports on; a listing that fails in a search must not clear paths.
OneActivity ==
  /\ ~(searching /\ Linking)
  /\ ValidationPending => ~searching /\ ~Linking

\* What a row says is what the runner last said of this row's match, also
\* when rows were checked, jobs were others than rows, a second run followed.
StatusIsOfItsMatch == \A i \in DOMAIN rows : rows[i].status = Said(rows[i].match)

\* From the question to the end of the run, the jobs are those of the checked
\* rows, free of conflicts, whatever happened while the question was open.
RunIsAsConfirmed ==
  /\ dialog = "question" => picked \in CheckedRows /\ ConflictFree(JobsOf(picked))
  /\ Linking => jobRows \in CheckedRows /\ jobs = JobsOf(jobRows) /\ ConflictFree(jobs)

\* The controls show what is the case, after every event: buttons, form,
\* the header's check mark, the lock of the check boxes.
ControlsCurrent ==
  panel # "none" =>
    /\ startEnabled = (searching \/ (~Linking /\ ~ValidationPending))
    /\ linkEnabled = (~searching /\ ~Linking /\ Checked # {})
    /\ formEnabled = (~searching /\ ~Linking)
    /\ locked = Linking
    /\ header = IF Checked = {} THEN "unchecked"
                ELSE IF Checked = DOMAIN rows THEN "checked" ELSE "partial"

\* "so nothing is lost on a crash" (wireSettingsSaves): the boxes show what a
\* restart would show, except the one being edited.
WrittenThrough ==
  panel # "none" => \A s \in Sides : edit[s] = saved[s] \/ typing = s

\* A path in use, entered or found on this server, is not taken away by the
\* listings of others that fail: only by the user.
SavedPathsKept ==
  [][\A s \in Sides : panel = "live" /\ validating[s] = Nothing /\ saved'[s] # saved[s]
       => typing = s]_vars

Ready == startEnabled /\ formEnabled /\ ~locked

\* No event is missed that gives the user the controls back: after searches
\* that end in any way, runs, and validations, the panel is ready again.
ControlsComeBack == panel = "live" /\ ~Ready ~> panel # "live" \/ Ready
-----------------------------------------------------------------------------
\* The table counts its check marks, and no match is in two rows.
TableInv ==
  /\ checkedCount = Cardinality(Checked)
  /\ \A i, k \in DOMAIN rows : rows[i].match = rows[k].match => i = k

\* Between runs the runner has nothing; in a run it is at one of its jobs.
RunInv == IF Linking THEN current \in DOMAIN jobs ELSE current = 0 /\ reported = <<>>

\* What is being validated will be answered; it comes before any search, and
\* boxes open only when nothing is under way.
PanelInv ==
  /\ panel = "live" => \A s \in Sides : validating[s] # Nothing => owed[validating[s]] > 0
  /\ ValidationPending => rows = <<>>
  /\ dialog # "none" => ~searching /\ ~Linking
  /\ panel = "none" => NoPanel
  /\ (panel = "live") = (conn = "connected")

\* The safety half of ControlsComeBack: a panel that is not ready waits for
\* something that comes, an answer that is owed, the end of a search or the
\* report on a job; no state locks the user out with nothing under way.
ReadyOwed ==
  panel = "live" /\ ~Ready =>
    \/ \E s \in Sides : validating[s] # Nothing /\ owed[validating[s]] > 0
    \/ searching
    \/ Linking /\ current \in DOMAIN jobs

IInv ==
  /\ TypeOK
  /\ conn \in {"disconnected", "connecting", "connected"}
  /\ panel \in {"none", "live", "doomed"}
  /\ TableInv /\ RunInv /\ PanelInv
=============================================================================
