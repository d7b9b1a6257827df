--------------------------- MODULE FileBrowserView ---------------------------
(***************************************************************************)
(* FileBrowserView (src/src/ui/FileBrowserView.cpp): one view of the       *)
(* share.  It lists a directory at a time and fills in the link counts of  *)
(* the files listed with a bounded number of stats.                        *)
(*                                                                         *)
(* The session broadcasts answers to all its consumers and tells them      *)
(* apart by path alone.  A view therefore also sees the answers to what it *)
(* asked for before its current listing, and to what others ask for (the   *)
(* other views, the match finder).  Of a stat only its age is modelled:    *)
(* asked for since the current listing ("fresh") or before it ("stale").   *)
(*                                                                         *)
(* A file is its full path, so m_statInFlight, a map from paths to rows of *)
(* the current listing, is a set of files.                                 *)
(***************************************************************************)
EXTENDS Naturals, FiniteSets, FiniteSetsExt

CONSTANTS Dirs,            \* directories
          Files,           \* files, by their full paths
          Content,         \* for each directory, the files that may be in it
          Nothing,         \* an empty path or name
          Filters,         \* sets of files a filter may hide, {} for no filter
          MaxInFlight,     \* kMaxStatsInFlight
          Overshoot,       \* how many stats a moving scroll bar may add to it
          MaxNavigations,  \* bound on the navigations
          MaxOthers        \* bound on the files others ask for at a time

ASSUME FileBrowserViewAssumption ==
  /\ Content \in [Dirs -> SUBSET Files]
  /\ Filters \subseteq SUBSET Files
  /\ Nothing \notin Dirs \cup Files
  /\ MaxInFlight \in Nat \ {0} /\ Overshoot \in Nat
  /\ MaxNavigations \in Nat /\ MaxOthers \in Nat

VARIABLES
  currentPath, pendingPath, pendingReveal, \* members
  entries, nlink,   \* the model: the files listed, their link counts
  requested, inFlight,                     \* m_statRequested, m_statInFlight
  listings,         \* listings the session will answer: how many for each path
  stats,            \* stats it will answer: how many, by file and age
  others,           \* stats of others it will answer: their ages, by file
  revealed,         \* the file revealByName selected since the last navigation
  hidden,           \* files whose names the filter hides
  wanted,           \* history: what the last navigation asked to reveal
  navigations       \* history: how many there were

place == <<currentPath, pendingPath, pendingReveal>>
model == <<entries, nlink>>
queue == <<requested, inFlight>>
asked == <<listings, stats, others>>
shown == <<revealed, hidden>>
vars  == <<place, model, queue, asked, shown, wanted, navigations>>

Ages   == {"fresh", "stale"}
Counts == Ages \cup {"unknown", "unavailable"}

Init ==
  /\ currentPath = Nothing /\ pendingPath = Nothing /\ pendingReveal = Nothing
  /\ entries = {} /\ nlink = [f \in Files |-> "unknown"]
  /\ requested = {} /\ inFlight = {}
  /\ listings = [d \in Dirs |-> 0]
  /\ stats = [f \in Files |-> [age \in Ages |-> 0]]
  /\ others = [f \in Files |-> {}]
  /\ revealed = Nothing /\ hidden = {} /\ wanted = Nothing /\ navigations = 0

-----------------------------------------------------------------------------
(***************************************************************************)
(* pumpStats, when of the files in rows those in seen were asked for, those*)
(* in flying are in flight, and counts and owed are the link counts and    *)
(* the stats not answered.  Rows that are visible come first, so any row   *)
(* may be next.  libsmb2 declines the stats of bad on the spot; their      *)
(* onStatFailed runs inside statFile and pumps on.  The loop ends when the *)
(* slots or the rows are used up.                                          *)
(*                                                                         *)
(* Between its test for a free slot and the request nextStatRow asks the   *)
(* tree for its rows, which carries out a delayed layout.  If that moves   *)
(* the scroll bar, pumpStats runs in between and may take the slot the     *)
(* outer loop has found free: one stat too many for each such layout.      *)
(***************************************************************************)
PumpStats(rows, seen, flying, counts, owed) ==
  \E next \in SUBSET (rows \ seen) : \E bad \in SUBSET next :
    LET flight == flying \cup (next \ bad) IN
    /\ Cardinality(flight) <= MaxInFlight + Overshoot
    /\ Cardinality(flying) >= MaxInFlight => next = {}
    /\ Cardinality(flight) >= MaxInFlight \/ next = rows \ seen
    /\ requested' = seen \cup next
    /\ inFlight' = flight
    /\ nlink' = [f \in Files |-> IF f \in bad THEN "unavailable" ELSE counts[f]]
    /\ stats' = [f \in Files |-> IF f \in next \ bad
                                   THEN [owed[f] EXCEPT !["fresh"] = @ + 1]
                                   ELSE owed[f]]

\* navigateTo: the listing is under way, or fails at once and with it
\* whatever the navigation was to reveal.
NavigateTo(d) ==
  \/ /\ pendingPath' = d
     /\ listings' = [listings EXCEPT ![d] = @ + 1]
  \/ pendingPath' = Nothing /\ UNCHANGED listings

\* Mutant of Navigate: what an earlier navigation was to reveal is kept.
NavigateKeepsReveal(d) ==
  /\ navigations < MaxNavigations /\ navigations' = navigations + 1
  /\ NavigateTo(d)
  /\ wanted' = Nothing
  /\ revealed' = Nothing
  /\ UNCHANGED <<currentPath, pendingReveal, model, queue, stats, others, hidden>>

\* A path typed, a folder opened, the up button, refresh.
Navigate(d) ==
  /\ navigations < MaxNavigations /\ navigations' = navigations + 1
  /\ NavigateTo(d)
  /\ pendingReveal' = Nothing /\ wanted' = Nothing /\ revealed' = Nothing
  /\ UNCHANGED <<currentPath, model, queue, stats, others, hidden>>

\* Mutant of Reveal: the file stays behind the filter.
RevealHidden(f, rows) ==
  revealed' = (IF f \in rows THEN f ELSE Nothing) /\ UNCHANGED hidden

\* revealByName: silent when no entry has the name; a filter that hides the
\* entry is cleared.
Reveal(f, rows) ==
  /\ revealed' = IF f \in rows THEN f ELSE Nothing
  /\ hidden' = IF f \in rows \cap hidden THEN {} ELSE hidden

\* A text is typed into the filter box or cleared.
Filter(files) ==
  /\ hidden' = files
  /\ UNCHANGED <<place, model, queue, asked, revealed, wanted, navigations>>

\* navigateToAndReveal, when a match is selected in the panel.
NavigateToAndReveal(d, f) ==
  /\ navigations < MaxNavigations /\ navigations' = navigations + 1
  /\ wanted' = f
  /\ \/ /\ d = currentPath /\ pendingPath = Nothing
        /\ Reveal(f, entries)
        /\ UNCHANGED <<place, listings>>
     \/ /\ ~(d = currentPath /\ pendingPath = Nothing)
        /\ NavigateTo(d) /\ pendingReveal' = f /\ revealed' = Nothing
        /\ UNCHANGED <<currentPath, hidden>>
  /\ UNCHANGED <<model, queue, stats, others>>

\* resetStatQueue: what is in flight belongs to an earlier listing now.
Aged ==
  /\ others' = [f \in Files |-> IF others[f] = {} THEN {} ELSE {"stale"}]
AgedStats ==
  [f \in Files |-> [age \in Ages |-> IF age = "fresh" THEN 0
                                     ELSE stats[f]["fresh"] + stats[f]["stale"]]]
OneLess(d) == listings' = [listings EXCEPT ![d] = @ - 1]

\* Mutant of OnDirectoryListed: m_statInFlight is not cleared.
ListedKeepsInFlight(d, rows) ==
  IF d # pendingPath THEN UNCHANGED <<place, model, queue, stats, others, shown>>
  ELSE /\ currentPath' = d /\ pendingPath' = Nothing /\ pendingReveal' = Nothing
       /\ entries' = rows
       /\ Aged
       /\ PumpStats(rows, {}, inFlight, [f \in Files |-> "unknown"], AgedStats)
       /\ Reveal(pendingReveal, rows)

\* onDirectoryListed, with the files the directory holds at that time.
OnDirectoryListed(d, rows) ==
  IF d # pendingPath THEN UNCHANGED <<place, model, queue, stats, others, shown>>
  ELSE /\ currentPath' = d /\ pendingPath' = Nothing /\ pendingReveal' = Nothing
       /\ entries' = rows
       /\ Aged
       /\ PumpStats(rows, {}, {}, [f \in Files |-> "unknown"], AgedStats)
       /\ Reveal(pendingReveal, rows)

Listed(d, rows) ==
  /\ listings[d] > 0 /\ OneLess(d)
  /\ OnDirectoryListed(d, rows)
  /\ UNCHANGED <<wanted, navigations>>

\* Mutant of OnDirectoryListFailed: the view goes on waiting.
FailureOnlyShown(d) == UNCHANGED place

\* onDirectoryListFailed.
OnDirectoryListFailed(d) ==
  IF d # pendingPath THEN UNCHANGED place
  ELSE pendingPath' = Nothing /\ pendingReveal' = Nothing /\ UNCHANGED currentPath

ListFailed(d) ==
  /\ listings[d] > 0 /\ OneLess(d)
  /\ OnDirectoryListFailed(d)
  /\ UNCHANGED <<model, queue, stats, others, shown, wanted, navigations>>

\* Mutant of OnStatAnswer: the pump is not called for a file without a count.
UnavailableDoesNotPump(f, count, left) ==
  IF f \notin inFlight THEN stats' = left /\ UNCHANGED <<nlink, queue>>
  ELSE \/ /\ count = "unavailable"
          /\ inFlight' = inFlight \ {f} /\ nlink' = [nlink EXCEPT ![f] = count]
          /\ stats' = left /\ UNCHANGED requested
       \/ /\ count # "unavailable"
          /\ PumpStats(entries, requested, inFlight \ {f}, [nlink EXCEPT ![f] = count], left)

\* onFileStatted and onStatFailed, with the link count to show for f; left
\* are the view's stats that remain to be answered.
OnStatAnswer(f, count, left) ==
  IF f \notin inFlight THEN stats' = left /\ UNCHANGED <<nlink, queue>>
  ELSE PumpStats(entries, requested, inFlight \ {f}, [nlink EXCEPT ![f] = count], left)

\* The session answers a stat of f of the given age.
StatAnswered(f, age) ==
  /\ \E count \in {age, "unavailable"} :
       \/ /\ stats[f][age] > 0
          /\ OnStatAnswer(f, count, [stats EXCEPT ![f][age] = @ - 1])
          /\ UNCHANGED others
       \/ /\ age \in others[f]
          /\ OnStatAnswer(f, count, stats)
          /\ others' = [others EXCEPT ![f] = @ \ {age}]
  /\ UNCHANGED <<place, entries, listings, shown, wanted, navigations>>

\* Another view asks for a stat, or someone for a listing.
OthersStat(f) ==
  /\ others[f] = {} /\ Cardinality({e \in Files : others[e] # {}}) < MaxOthers
  /\ others' = [others EXCEPT ![f] = {"fresh"}]
  /\ UNCHANGED <<place, model, queue, listings, stats, shown, wanted, navigations>>

OthersList(d) ==
  /\ listings[d] = 0
  /\ listings' = [listings EXCEPT ![d] = 1]
  /\ UNCHANGED <<place, model, queue, stats, others, shown, wanted, navigations>>

\* The connection ends: pending requests are dropped, MainWindow deletes its
\* views, and builds new ones for the next connection.
Reconnect ==
  /\ currentPath' = Nothing /\ pendingPath' = Nothing /\ pendingReveal' = Nothing
  /\ entries' = {} /\ nlink' = [f \in Files |-> "unknown"]
  /\ requested' = {} /\ inFlight' = {}
  /\ listings' = [d \in Dirs |-> 0]
  /\ stats' = [f \in Files |-> [age \in Ages |-> 0]]
  /\ others' = [f \in Files |-> {}]
  /\ revealed' = Nothing /\ hidden' = {} /\ wanted' = Nothing /\ UNCHANGED navigations

Next ==
  \/ \E d \in Dirs : Navigate(d)
  \/ \E d \in Dirs : \E f \in Content[d] : NavigateToAndReveal(d, f)
  \/ \E d \in Dirs : \E rows \in SUBSET Content[d] : Listed(d, rows)
  \/ \E d \in Dirs : ListFailed(d)
  \/ \E f \in Files, age \in Ages : StatAnswered(f, age)
  \/ \E f \in Files : OthersStat(f)
  \/ \E d \in Dirs : OthersList(d)
  \/ \E files \in Filters : Filter(files)
  \/ Reconnect

Spec == Init /\ [][Next]_vars

\* Every listing and stat asked for is answered while the connection lasts.
Fairness ==
  /\ \A d \in Dirs : WF_vars(ListFailed(d) \/ \E rows \in SUBSET Content[d] : Listed(d, rows))
  /\ \A f \in Files, age \in Ages : WF_vars(StatAnswered(f, age))

FairSpec == Spec /\ Fairness
-----------------------------------------------------------------------------
TypeOK ==
  /\ {currentPath, pendingPath} \subseteq Dirs \cup {Nothing}
  /\ {pendingReveal, revealed, wanted} \subseteq Files \cup {Nothing}
  /\ hidden \subseteq Files
  /\ entries \subseteq Files /\ nlink \in [Files -> Counts]
  /\ requested \subseteq entries /\ inFlight \subseteq requested
  /\ listings \in [Dirs -> Nat]
  /\ stats \in [Files -> [Ages -> Nat]] /\ others \in [Files -> SUBSET Ages]
  /\ navigations \in Nat

\* Every file listed is in one place: not asked for, in flight, or with a
\* count shown; and a free slot is never left idle while a file waits.  The
\* slots are those of kMaxStatsInFlight, but for what the scroll bar adds.
RowsAccounted ==
  /\ \A f \in entries : nlink[f] = "unknown" <=> f \notin requested \/ f \in inFlight
  /\ Cardinality(inFlight) <= MaxInFlight + Overshoot
  /\ requested # entries => Cardinality(inFlight) >= MaxInFlight

\* What the view waits for, the session owes: a stat in flight was asked for
\* since the current listing, and a pending listing will be answered, though
\* answers to others may have been taken for one's own.
AnswersOwed ==
  /\ \A f \in inFlight : stats[f]["fresh"] > 0
  /\ pendingPath # Nothing => listings[pendingPath] > 0

\* What a pending listing will reveal is what the last navigation asked for.
\* A navigation that fails on the spot leaves its file behind; no listing is
\* pending then, and the next navigation forgets it.
RevealInv == pendingPath # Nothing => pendingReveal \in {Nothing, wanted}

ViewInv == TypeOK /\ RowsAccounted /\ AnswersOwed /\ RevealInv

\* Stats of f the view may yet send without another navigation: for its row,
\* and for the listing that is pending.
ToCome(f) == (IF f \in entries \ requested THEN 1 ELSE 0)
               + (IF pendingPath # Nothing THEN 1 ELSE 0)

\* What does hold in place of WindowBounded: a listing has each of its files
\* asked for once, so that no more stats of a file are outstanding than there
\* were navigations.
StatsOnce ==
  \A f \in Files :
    /\ stats[f]["fresh"] <= IF f \in requested THEN 1 ELSE 0
    /\ stats[f]["fresh"] + stats[f]["stale"] + ToCome(f) <= navigations

IInv == ViewInv /\ StatsOnce

\* A file is revealed only if the user's last navigation asked for it: no
\* earlier request, left over by a listing that failed or was overtaken by
\* another navigation, moves the selection; and it is there to be seen.
RevealIsWanted ==
  [][revealed' # revealed /\ revealed' # Nothing
       => revealed' = wanted' /\ revealed' \in entries' \ hidden']_vars

\* Every file shown gets a link count, or the mark that there is none, unless
\* another listing replaces it.
LinkCountsFill ==
  \A f \in Files : f \in entries /\ nlink[f] = "unknown"
                     ~> f \notin entries \/ nlink[f] # "unknown"

\* The safety half of LinkCountsFill, with AnswersOwed: until a listing comes,
\* a slot changes hands only as another row gets its count, for good.
Blank == {f \in entries : nlink[f] = "unknown"}

CountsAdvance ==
  [][~(pendingPath # Nothing /\ pendingPath' = Nothing)
       => Blank' \subseteq Blank /\ (inFlight' # inFlight => Blank' # Blank)]_vars

\* A navigation ends: the path box does not stay on a path that never comes.
NavigationSettles == pendingPath # Nothing ~> pendingPath = Nothing

\* "In-flight replies for the old directory now miss m_statInFlight and are
\* dropped" (resetStatQueue).  When the same directory is listed again they
\* hit it, and an old count is shown for a file that may have been linked
\* since.
LinkCountsAreCurrent == \A f \in entries : nlink[f] # "stale"

\* "the window may transiently hold old + new requests, bounded by
\* 2 * kMaxStatsInFlight" (resetStatQueue).
WindowBounded ==
  MapThenSumSet(LAMBDA f : stats[f]["fresh"] + stats[f]["stale"], Files)
    <= 2 * MaxInFlight
=============================================================================
