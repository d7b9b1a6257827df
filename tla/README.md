# Formal models of hardlinkmgr

hardlinkmgr is a Qt program that browses an SMB share, searches two folders of
it for files that look alike, and replaces chosen files with hard links. This
directory holds TLA+ models of its core, TLC configurations that check them on
small instances, and proofs that TLAPS checks for every value of the constants.
Paths below are relative to the repository; the program's code is under
`src/src/`.

## 1. The system

Everything runs on the GUI thread. What interleaves are *events*: user actions,
timers, socket notifications, callbacks of libsmb2 and their handlers, results
posted to the event loop. On the other side of the connection are the SMB
server, which handles requests in its own time, and other clients of the share.

| Part | State | Operations | Interacts with |
|---|---|---|---|
| `SmbSession` (`smb/`) | connection state, host lookup, libsmb2 context, teardown flags, pending requests, next operation id | connect, abort, disconnect, list, stat, rename, link, remove; socket and timer service | libsmb2 callbacks; *broadcasts* answers as signals to all consumers, reads by path, operations by id |
| `LinkRunner` (`core/`) | jobs, current job and step, awaited id, totals | start; completion handlers | session (operations), panel (results) |
| `MatchConflicts` (`core/`) | none | `find` | guard of a run |
| `MatchSearcher` (`core/`) | options, visited, queue, in flight, files, errors | start, cancel, listing handlers | session (listings), panel (results) |
| `MatchPairing` (`core/`) | none | `computeMatches` | end of a search |
| `MatchFinderPanel`, `MatchResultsModel` | saved paths under validation, rows with check marks and status, lock, job-to-row map | search, link, reveal, validate paths | searcher, runner, session, main window |
| `FileBrowserView`, `FileListModel`, `FileFilterProxyModel` (`ui/`, `models/`) | current and pending path, file to reveal, entries, link counts, stat queue | navigate, refresh, reveal, answer handlers | session (listings, stats) |
| `MainWindow` (`ui/`) | panel and views, which exist only while connected | connect button, reaction to state changes | creates and deletes the others |
| `PathUtil`, `VersionCompare`, `Logger`, `LogFormat`, `AboutDialog`, `CheckBoxHeader`, `IconUtil`, `main.cpp` | little or none | formatting, parsing, painting, logging | |

What is hard here:

* **A chain of remote operations that may stop anywhere.** A job is rename
  aside, link, remove, with a rename back when the link fails. An answer may be
  lost (per-PDU timeout, connection lost) while the server applies the request,
  at once or much later; the panel may be deleted in the middle; the process may
  die. Correct means: no data of a file to be replaced is lost, and what a row
  says of it is true.
* **Re-entrancy.** Signals are emitted from inside `smb2_service()`; a handler
  may call back into the session, even disconnect, while the context is on the
  stack. `listDirectory` and `statFile` may fail inside the call and re-enter
  the caller's pump. Correct means: contexts are destroyed at the right moment
  and exactly once, pumps neither stop early nor lose work.
* **Answers told apart by path only.** Searchers, views and the panel see each
  other's answers and answers to what they asked for earlier. Correct means:
  results are complete, nothing is taken twice, nothing waits for ever.
* **Controls as guards.** The panel's handlers do not ask what else is under way;
  they rely on buttons that some earlier event disabled. A box runs a nested
  event loop between the check for conflicts and the use of the checked rows.
  Correct means: activities exclude each other, controls come back after every
  end of every activity, a run is the one that was confirmed.
* **Things that outlive what they were for**: host lookups that finish after
  the abort, throttled stats after a disconnect, teardown flags, listings of a
  cancelled search, abandoned operations at the server.

`PROJECT.json` lists these hazards at their lines, with the properties that
cover each one and the few that none covers.

## 2. Modules

| Module | Models | Runs | Proofs |
|---|---|---|---|
| `Share` | paths, and the three mutating operations at the server | (part of `LinkRunner`) | |
| `MatchConflicts` | `matchconflicts::find` | (part of `LinkRunner`, `MatchFinderPanel`) | |
| `LinkRun` | abstract: what the owner of a runner is promised | (refined by `LinkRunner`, part of `MatchFinderPanel`) | |
| `LinkRunner` | `LinkRunner.cpp`, the session as the runner sees it, server, other client, disconnect, crash | `link_batch`, `link_repeat`, `link_lost` | `LinkRunnerProofs`, `LinkReportsProofs` |
| `SessionOps` | abstract: what callers of mutating operations are promised | (refined by `SmbSession`) | |
| `SmbSession` | `SmbSession.cpp` | `session`, `session_dropped` | `SmbSessionProofs` |
| `MatchSearcher` | `MatchSearcher.cpp` | `search`, `search_slots` | `MatchSearcherProofs`, `MatchCoverProofs` |
| `MatchPairing` | `computeMatches` of `MatchPairing.h` | `pairing` | `MatchPairingProofs` |
| `FileBrowserView` | navigation, reveal, filter and link counts of `FileBrowserView.cpp` | `view`, `view_stale`, `view_window` | `FileBrowserViewProofs` |
| `MatchResultsModel` | `MatchResultsModel.cpp`: rows, check marks, lock, status | (part of `MainWindow`) | |
| `MatchFinderPanel` | `MatchFinderPanel.cpp`: paths, search, boxes, runs, controls | (part of `MainWindow`) | |
| `MainWindow` | `MainWindow.cpp`: connect button, session signals, life of the panel | `window` | `MainWindowProofs` |

Each `MC*` module gives the constants of its component for TLC and nothing
else. Definitions called *mutants* in their comments are deliberate errors that
no specification uses; each says which definition it is an error of, and
replacing that definition by it makes TLC report the property it is paired with
in `PROJECT.json`.

The components meet at the session. `SmbSession` shows what becomes of a request
of each kind (an operation is completed exactly once; a read is answered or
dropped by a teardown), and `LinkRunner`, `MatchSearcher` and `FileBrowserView`
take just that as their environment. `LinkRunner` models operations as
`SessionOps` promises them and adds what the server makes of them. Above these,
`MainWindow` extends `MatchFinderPanel`, which extends `MatchResultsModel` and
`MatchConflicts`: one specification of the window with its panel. It does not
look inside a search or a run again; of the runner it takes `LinkRun`, which
`LinkRunner` is shown to implement, and of the searcher what the properties of
`MatchSearcher` and `MatchPairing` say: it fails inside `start` at the earliest,
ends once, is silent afterwards, and its result has no pair of files twice
(`ResultIsExact`).

### Share and LinkRunner

A share is a function from paths to inodes; a path is a file's name or its
aside name (`.hlmgr-tmp`). A request has a stage: `sent` (the server has not
handled it), `applied`, `refused`, or `queued` (failed already, with its
`operationFailed` in the event loop). Actions:

* `Start` is `onLinkSelectedClicked` with `LinkRunner::start`: any list of jobs
  free of conflicts (`matchconflicts::find(...).isEmpty()`).
* `Deliver` and `Timeout` run `OnOpSucceeded` or `OnOpFailed`, each with all it
  calls: `FinishJob`, `StartJob`, the next request (`Submit`).
* `ServerApplies`, `ServerRefuses`: the server, at any time, in any order. It
  may refuse for reasons of its own.
* `Disconnect` queues the failure of every open request; `DestroyPanel` is the
  deferred deletion of the panel, so a runner may go on for a while against a
  dead session, as in the code. `Crash` loses everything but the share.
* Requests given up on become `orphans`; `OrphanApplies` and `OrphanDies` decide
  their fate at any later time, also during later runs.
* `OtherClientCreates` puts a new file at a free name.

History variables (`ran`, `outcome`, `before`, `unknown`, `stale`, `runs`) serve
the properties. Results of jobs about files that an operation abandoned *before*
the run could still touch are exempt from the report properties
(`Undisturbed`); `VictimDataKept` has no exemption.

`LinkRun` is the contract of a run: jobs are reported once each and in order, the
run ends with the last one or is gone with its owner, and nothing is left of it.
The refinement mapping is `jobs <- jobs`, `current <- current`, and
`reported <- IF isRunning THEN outcome ELSE <<>>`, since `outcome` is a history
that outlives the run. Everything about requests, the server and the session is
a stutter of `LinkRun`.

### SmbSession and SessionOps

`where` says what is on the stack: nothing, `smb2_service()`, one of its
callbacks, or a failure between its two signals. Reads and operations can be
requested between events and inside
callbacks; `DisconnectFromShare` too; only `ServiceEnd` and steps outside
`smb2_service()` carry out a `Teardown`. Each request has a fate: `pending` at
libsmb2, `queued`, `delayed` by `HLM_STAT_DELAY_MS`, `answered`, `dropped`.
`OnConnectDone` leaves an error for `ServiceEnd`; `ServiceEnd` may find the
connection broken at any pass. `m_inTeardown` is not a variable: no other step
can happen during a teardown, so its effect is part of `Teardown`
(`Flushed(ops, "queued")`, `Flushed(lists, "dropped")`).

Signals about the connection go out in a definite order. `lastSignal` is the one
sent last: `SetState` sends `stateChanged` if the state changes, as `setState`
does, and each path on which something fails (`FailToStart` for the lookup, the
context and the connect request; `ServiceEnd` for the rest) leaves the session
at `failing`, where handlers may call it, until `ErrorOccurred` sends the error.
`ServiceEnd` takes the error that a callback noted *before* its teardown clears
the note. `failed` is a history of what really happened: it is set where a
failure comes up, whatever the session makes of it, and cleared by the next
attempt. `EndIsExplained` compares the two between events.

Assumptions, each from the code that calls the session: `connectToShare` is
called only from the click on Connect, outside any callback; the password prompt
that precedes it runs an event loop, so the result of an aborted lookup that was
already posted is delivered before the next attempt starts. The check in
`onHostResolved` is therefore exercised against a session that is disconnected,
never against the next attempt.

`SessionOps` is the promise of the header ("each returns a request id;
completion arrives ... always asynchronously"). The refinement mapping is
`nextOpId <- nextOpId`, `owed <- Owed`, the ids pending or queued.

### MatchSearcher

The list of files is represented by the directories whose files it holds: the
code gathers the files of a directory all at once. `PumpListings` is
`pumpListings` with `maybeFinish` and everything a synchronous failure inside
`listDirectory` does: it takes a prefix of the queue, some of which libsmb2
declines on the spot. `asked` counts the searcher's listings that the session
will answer, also those of cancelled searches; `foreign` those of other
consumers. `Listed` and `Failed` deliver an answer of either kind; the searcher
cannot tell which. `Disconnect` drops requests and deletes the panel with the
searcher.

### FileBrowserView

`PumpStats` is the loop of `pumpStats` with `nextStatRow` (any row may be next:
visible ones come first) and with stats that fail on the spot, whose
`onStatFailed` pumps again. Looking for a visible row may also run a layout that
moves the scroll bar, which pumps while the loop is at work; the loop then sends
one more stat than the window has room for. `Overshoot` is by how many the
window may be exceeded that way; it is a parameter, since what Qt does inside
`indexAt` is outside the repository, and the invariants are proved for any. The two
runs that refute comments need none of it. A file is its full path, so the map
`m_statInFlight` is a set. Of a stat's answer only its age is kept: asked for
since the current listing, or before it. A listing may hold any part of what
the directory may contain, so files come and go. `m_statOrder` and
`m_statCursor` only decide the order and are not modelled. `Filter` is the text
of the filter box: a set of files it hides. It neither stops the stats of hidden
rows nor an entry from being revealed: `revealByName` clears the filter when the
file sought is behind it. `revealed` is a history of the file selected since the
last navigation, so that a second request for the same file counts as new.
`Reconnect` drops all requests and puts new views in
place.

One thing shows in the model that no property objects to: a
`navigateToAndReveal` whose listing fails inside the call sets `m_pendingReveal`
after the failure has cleared it (`FileBrowserView.cpp:266-267`), and it stays.
It does no harm, as the next navigation overwrites it and nothing is revealed
without a pending listing; `RevealInv` says so and is part of `IInv`.

### MatchResultsModel, MatchFinderPanel and MainWindow

The state of the panel is its path boxes (`edit`, and `typing`, the one being
edited), the paths in the settings (`saved`), those being validated, the
searcher's `isRunning`, the run (`LinkRun`'s variables and `m_jobRows`), the box
that is open with the rows picked for it, the table (`rows`, `m_checkedCount`,
`m_locked`), and *what the controls show*. Buttons, form and header are
variables of their own: they are changed by `updateControls` and the handler of
`checkedCountChanged` alone, as in the code, and the user's actions have a
button's state as their guard wherever the code has no check of its own.

* `Connected` builds the panel and runs `beginPathValidation`, in which any of the
  listings may fail on the spot. `Listed` and `ListFailed` deliver an answer,
  asked for by the panel, a view or the searcher; the panel cannot tell which.
* `StartSearch`, `CancelSearch`, `OnSearchFinished`, `OnSearchFailed` are the
  life of a search as the panel sees it.
* `OnLinkSelectedClicked` is the function up to its box. The box runs an event
  loop of its own, so `Dismissed` and `Confirmed` are what follows its return,
  after anything else that may happen: answers, the end of the connection.
* `JobFinished` is `jobFinished` with the `jobStatusChanged` of the next job, or
  with `allFinished`; a row is found through `m_jobRows`. `said` is a history of
  what the runner said of each match.
* `Disconnected`, by the user or by a failure, leaves the panel *doomed*:
  `deleteLater` was called, but edits can still be finished, boxes closed and
  queued results of
  jobs arrive, until `PanelDeleted`. When a box is open at that time, its
  function returns into a deleted panel; that is undefined behaviour, and the
  model lets the process end there.
* Crashes end the process at any time; `saved` is what is left.

Assumptions: the old panel is deleted before a new connection is established
(its deletion is an event posted before the attempt begins, which takes at
least one pass of the event loop). Texts of the status bar and the status label
are not modelled, and those of a job under way are one value.

What the reading of this code brought up without being a run:

* `onDirectoryListFailed` clears what the path box holds *now*
  (`MatchFinderPanel.cpp:306`). When the user has typed another path while the
  saved one was being validated, the new text is lost with it, and its setting.
  ADR 0002 (line 82) only speaks of saved paths that are absent.
* Any failure of that listing counts as "not found", a transient one too.
* A path cleared inside `beginPathValidation` is announced in the status bar and
  overwritten by "Connected ..." in the same handler (`MainWindow.cpp:258-259`).

### MatchPairing

A step is a turn of one of the two loops: `NextFile` (the inner loop is over or
left), `GiveUp` (one pair more than allowed), `Skip` (a `continue`), `Report` (a
match, perhaps the last allowed), `Return` (the final sort). `std::sort` leaves
files of the same size in any order, so `Init` picks one; `std::stable_sort`
leaves one order, which `StablySorted` describes. A match is the two indices of
its files. `Candidate` is the reference definition: it knows of no loops, no
order and no orientation. Sizes are natural numbers; the code's unsigned
difference never wraps, since the files are sorted (`InWindow` is only asked of
`i < j`).

## 3. Runs

| Run | States | Bounds | Shows |
|---|---|---|---|
| `link_batch` | 78,309 | 3 files, 2 jobs, 1 run | `IInv`, `ReplacedIsLinked`, `VictimRecoverable`, `ImplementsLinkRun`, `RunEnds`, `RunAdvances` |
| `link_repeat` | 508,475 | 2 files, 1 job each, 2 runs | `ReplacedIsLinked`, `RestoredIsOriginal`, `RenameRefusedIsUntouched`, `ReportInv`, `VictimDataKept` |
| `session` | 7,216 | 2 listings, 1 stat, 2 operations, any number of connections | `IInv` and all of the session's properties |
| `search` | 46,598 | 4 directories in a tree of depth 2, 5 option sets, 2 slots, 2 searches, 1 foreign path at a time | `IInv`, `ResultCoversTrees`, `NeverStuck`, `EndedSearchIsSilent`, `SearchEnds` |
| `view` | 58,720 | 2 directories, 3 files, a filter that hides two of them or none, 1 slot and 1 stat in excess of it, 2 navigations, 1 foreign stat at a time | `IInv`, `RevealIsWanted`, `LinkCountsFill`, `NavigationSettles` |
| `window` | 283,824 | 2 paths, 3 files, tables of up to 3 rows, 2 results of a job; any number of connections, searches and runs | `IInv`, `OneActivity`, `StatusIsOfItsMatch`, `RunIsAsConfirmed`, `ControlsCurrent`, `WrittenThrough`, `SavedPathsKept`, `ControlsComeBack` |
| `pairing` | 152,714 | 3 files with ties, links and a path listed twice, 4 without links; all sides; limits 2 and 9 | `IInv`, `ResultIsExact`, `LimitsReported` |

Why the bounds are enough to be interesting:

* Two jobs are what a conflict takes, on three files: shared victim, primary
  that is a victim, shared primary. Two runs are what it takes for an abandoned
  operation to meet a later job, a second abandoned operation, and a reused
  aside name. One initial share has a leftover aside name, one a file that is
  gone, one two names that are already linked. The other client has one inode
  more than the files.
* The session needs two requests of a kind for one to be answered and its
  handler to disconnect while the other is pending, and connections without
  bound for flags and lookups to meet a later connection.
* The tree allows roots that are equal, disjoint, nested in both directions and
  nested below a root that is not recursive. With two slots and four
  directories the queue is used; two searches let a late answer meet its
  successor.
* With one slot every stat frees the slot for the next. Two navigations let the
  second overtake the first, or list the same directory again; requests of
  others add answers to the same paths.
* In the window, two paths let the sides hold the same path or different ones, so
  that one failed listing hits one side, both or none. Of the tables, one is
  empty, one has two rows that may be linked together, one three rows of which the
  second is in conflict with the others;
  checking only the second row makes jobs and rows differ in number. Nothing
  counts runs, searches or connections, so later ones meet what earlier ones
  left.
* Three files have three pairs and four have six, so a limit of two is below,
  at or above what is found; sizes 0 to 2 with a difference of 0 or 1 put files
  inside, at the edge of and outside the window.

Runs that TLC refutes, as the code differs from what the repository says:

| Run | Statement | What happens |
|---|---|---|
| `link_lost` | test: "If even the first step (rename) fails, the victim is untouched." | the answer is lost, the server renames, the row says "failed", the file is at its aside name |
| `session_dropped` | header: a listing is "Answered by directoryListed() or directoryListFailed()" | a teardown frees it in silence; harmless today as every consumer is deleted with the connection |
| `search_slots` | comment: "Upper bound on listings in flight" | cancel, start again: both searches' listings are in flight |
| `view_stale` | comment: replies for the old directory "miss m_statInFlight and are dropped" | on a refresh the path is the same and they hit |
| `view_window` | comment: "bounded by 2 * kMaxStatsInFlight" | each of three listings leaves a window behind |

### Fairness

* `LinkRunner`: some open call is delivered or times out, again and again. The
  tick timer (250 ms) makes libsmb2 notice timeouts (15 s), and the event loop
  delivers queued failures. Nothing is assumed of the server, the user or
  abandoned requests.
* `SmbSession`: weak fairness of the service loop (tick timer while there is a
  context) and of the lookup's result; strong fairness of each callback and of
  each queued event, since they are enabled only between or inside the passes of
  the loop, and libsmb2 ends each request by answer or timeout in some pass; weak
  fairness of `ErrorOccurred`, which is the next statement of the code. The TCP
  phase of a connect ends by the operating system's timeout.
* `MatchSearcher`, `FileBrowserView`: for each path, listings and stats asked for
  are answered, as `SmbSession!ReadsSettle` shows, as long as the connection
  lasts; when it ends the searcher and the views go too.
* `MainWindow`: weak fairness of each path's listing, of a search's end and of a
  job's end while the panel is live. These are `SmbSession!ReadsSettle`,
  `MatchSearcher!SearchEnds` and `LinkRunner!RunEnds`, shown below it. Nothing is
  assumed of the user, who may leave a box open for ever; the controls are ready
  behind it.

## 4. Proofs

TLAPS checks these for all values of the constants.

`LinkRunnerProofs` (assumptions: those the modules name, none else)

* `TypeCorrect`: `Spec => []TypeOK`.
* `NoVictimDataLost`: `Spec => VictimDataKept`, for any files, jobs, runs and
  any number of abandoned requests. A file leaves its name only for its aside
  name, and leaves the aside name only back to its name or while its name is
  occupied. This is not inductive: what could take the only copy away is an
  operation that nobody waits for any more. `KeepInvariance` proves the invariant
  `KeepInv` that speaks of *every* operation whose fate at the server is open:
  ids are fresh and unique (`IdInv`); every such operation is one of a job's
  four steps (`OpInv`); one that leaves an aside name is alone in that, finds
  the copy there, and if it is a removal, the name is occupied (`AsideInv`); the
  runner is about to issue one only when none is open (`StepInv`). The proof has
  a lemma per action: the server applying an open request is the interesting
  case (`ServerAppliesKeeps`, `OrphanAppliesKeeps`), the rest keeps the set of
  open operations or shrinks it.
* `Invariance`: `Spec => []IInv`, where `IInv` adds `AnswerOwed`: a runner that
  runs has an open call with the id it waits for. Calls of others, late or
  lost answers and disconnects never take the last one away (`IssueIsOwed`, a
  lemma about the request each continuation ends with).
* `RunsAdvance`: `Spec => RunAdvances`. No step makes a run longer: it leaves the
  runner waiting for the same answer, or with fewer operations to go.
* `Refinement`: `Spec => ImplementsLinkRun`. `FinishJob` is `Finish`, `Start` is
  `Begin`, the deletion of the panel and a crash are `Gone`, and every other
  step, a completion of somebody else's operation included, stutters.

`LinkReportsProofs`

* `ReplacedTrue`, `RestoredTrue`, `RenameRefusedTrue`, `OriginalRecoverable`:
  `Spec => []P` for `ReplacedIsLinked`, `RestoredIsOriginal`,
  `RenameRefusedIsUntouched` and `VictimRecoverable`. A report is made once and
  must stay true while later jobs run and late operations are applied, so none
  of these is inductive. `ReportsTrue` proves `ReportInv`, inductive together
  with `KeepInv`. It puts each victim that no older operation can reach in one of
  four phases: untouched, moved aside, linked, restored. Each phase says what is
  at the two names *and* which operations may still be open (`PhaseInv`):
  a restored victim may still have its link open, which is then inapplicable,
  while a linked one may only have its clean-up open. `RunnerInv` relates the
  runner's step and the stage of its call to the phase, `ToldInv` a report to
  it. `OpenInv` confines open operations to victims of jobs that have begun; with
  freedom from conflicts (`CallInv`), primaries and victims to come are safe
  from them. `JobApplied` shows which phase follows when an open operation is
  applied, in time or late; every other action either leaves the phase alone
  (`CalmJobs`) or issues the operation the phase allows (`NextStepReports`,
  `FinishReports`, `StartReports`).

`SmbSessionProofs`

* `Invariance`: `Spec => []IInv`, where `IInv` adds to the two safety invariants
  what holds in the middle of `smb2_service()`: a context without use has its
  teardown pending, a teardown is pending only inside, a lookup runs only before
  there is a context, nothing is pending without a context.
* `ContextCorrect`, `NothingStale`, `DestroyedOutsideService` follow from it.
* `EndsExplained`: `Spec => []EndIsExplained`, also from `IInv`, whose conjunct
  `SignalInv` says what the signals are in the middle of an event: inside
  `smb2_service()` there is a failure exactly if an error is noted, and the last
  signal is the state; elsewhere a failure means that the session is disconnected
  (`SignalStep`).
* `Refinement`: `Spec => ImplementsSessionOps`. Each step calls, completes or
  stutters; a teardown moves operations from pending to queued, both owed.

`MatchPairingProofs`, for any files and limits

* `Invariance`: `Spec => []IInv`. `ResultIsExact` speaks of the end only; `IInv`
  adds the loop invariant `FoundInv`: as long as no limit is hit, the matches
  are those of the pairs `Scanned` so far. The interesting step is `NextFile`,
  which skips the rest of the files: they are no candidates as the files are
  sorted (`RestTooBig`).
* `Exact`: `Spec => []ResultIsExact`. What is returned is the matches in another
  order (`ReturnedAll`), and at the end every pair is scanned.
* `Limits`: `Spec => []LimitsReported`.

`MatchSearcherProofs`, for any finite share, options and number of slots

* `QueueInvariance`: `Spec => []QueueInv`. `EachDirOnce` says that a directory
  enqueued is in exactly one of four places: queue, in flight, files, failed. It
  is what keeps a directory from being listed twice, and with it a pair of files
  from being found twice. `PumpKeeps` is the lemma about `pumpListings`: whatever
  prefix of the queue it takes and whichever listings fail inside, each
  directory taken moves to one place, and unless the search ends something is in
  flight. The lemmas about sequences without repetitions (`AppendOnce`,
  `ConcatOnce`, `RestOnce`) are what a queue needs.
* `SearchNeverStuck` is a part of it; `EndedIsSilent`:
  `Spec => EndedSearchIsSilent`.
* `SlotsKept`: `Spec => [](SlotsInv /\ RequestInv)`, what is true in place of the
  comment that `search_slots` refutes. A search keeps to its own slots, leaves
  none idle while a directory is queued, and for each path at most one request
  per search started is outstanding. The slots do not bound the requests even of
  a single search: an answer meant for another consumer frees the slot while the
  search's own request goes on.
* `AnswersAdvance`: `Spec => SearchAdvances`.

`MatchCoverProofs`, for any finite share that is a forest

* `Invariance`: `Spec => []IInv`, where `IInv` is `QueueInv`, `SlotsInv`,
  `RequestInv` and `CoverInv`: what is seen is in scope with the way to it read,
  and the subfolders of what is read are seen.
* `TreesCovered`: `Spec => []ResultCoversTrees`. When the queue is empty and
  nothing is in flight, what is seen is read or failed. That every folder in
  scope with no failure on its way has been seen needs an argument along the
  way. Its form is that of a least counterexample (`LeastPath`: inclusion of
  finite sets is well-founded): of the folders that were missed take one with
  nothing missed above it; its parent was not missed, was read, and so has shown
  it.
  The assumption on the constants is `TreeAssumption`: what is above a folder is
  its parent and what is above that. The code justifies it since a folder is its
  path, and `sideMaskOf` and `enqueueDirs` go by prefixes of paths.

`FileBrowserViewProofs`, for any directories, filters and amount of traffic by
others

* `ViewInvariance`: `Spec => []ViewInv`: `RowsAccounted` (a row is unasked, in
  flight or has its count, and a slot is idle only when no row waits) and
  `AnswersOwed` need each other.
* `Invariance`: `Spec => []IInv`, where `IInv` adds `StatsOnce`, what is true in
  place of the comment that `view_window` refutes: of each file at most one stat
  of the current listing is outstanding, and in all no more than there were
  navigations. It is inductive only with what is still to come, the stat of a row
  not asked for yet and that of a listing under way (`ToCome`).
* `AnswersAdvance`: `Spec => CountsAdvance`.
* `OnlyWantedRevealed`: `Spec => RevealIsWanted`, from `RevealInv`.

`MainWindowProofs`, for any files, paths and results

* `Invariance`: `Spec => []Inductive`, where `Inductive` is `IInv` with all
  the state invariants of the run `window`. They have to be proved together,
  since the code relies on the controls: that a search does not start during a
  run (`OneActivity`) follows from the button being disabled
  (`ControlsCurrent`), whose `updateControls` has to have run at every change of
  what it shows; that a row's status is of its match needs that no search has
  replaced the rows, which is `OneActivity` again; that the header is right
  needs the count of check marks (`TableInv`). The proof has three parts,
  `TableProps`, `ControlProps` and `WindowProps`, and a lemma for each kind of
  step and part.
* `TypeCorrect`, `ActivitiesExclude`, `StatusCorrect`, `ConfirmedRuns`,
  `ControlsCorrect`, `SettingsCorrect` follow from it, and
  `PathsStay` (`Spec => SavedPathsKept`) by one more look at each step.
* `NeverLockedOut`: `Spec => []ReadyOwed`. Whenever a live panel withholds its
  controls, an answer that is owed, a search or a job is under way.

The safety halves of the liveness properties are proved, for every value of the
constants: what is waited for is owed, and each answer brings the end nearer.

| Liveness (TLC) | What is waited for is owed | Answers bring the end nearer |
|---|---|---|
| `LinkRunner!RunEnds` | `AnswerOwed` | `RunAdvances` |
| `MatchSearcher!SearchEnds` | `NeverStuck` | `SearchAdvances` |
| `FileBrowserView!LinkCountsFill` | `AnswersOwed`, `RowsAccounted` | `CountsAdvance` |
| `MainWindow!ControlsComeBack` | `ReadyOwed` | (the three above, by its fairness) |

`SearchAdvances`, `CountsAdvance` and `ReadyOwed` are in no configuration.

Only model-checked is liveness (`RunEnds`, `OpsCompleted`, `ReadsSettle`,
`AttemptEnds`, `SearchEnds`, `LinkCountsFill`, `NavigationSettles`,
`ControlsComeBack`): it depends on fairness and ENABLED, beyond the prover. Every
other property of a passing run is a theorem.

## 5. Not modelled

* `FileFilterProxyModel`, `PathUtil`, `VersionCompare`: pure functions on strings
  and rows; paths in the models are normalised ones.
* Of the panel: the options other than the paths, the texts of the status label.
  Of the view: sorting, icons, context menus, the counters of the status bar.
  Of the window: the texts of the status bar, spinner, icon mode, geometry, the about box.
* The log, `CheckBoxHeader`, `IconUtil`, `AboutDialog`, `main.cpp`, `spikes/`:
  I/O, layout, experiments.
* libsmb2 and the server: outside the repository; modelled by what the session
  asks of them.
* What Qt's layout does inside `indexAt` (beyond the pumps it may cause), stack
  depth, memory.

## 6. Plan

1. *(done)* `Share`, `LinkRunner` with its proofs: the part that can lose data.
2. *(done)* `SessionOps`, `SmbSession` with its proofs: what all else rests on.
3. *(done)* `MatchSearcher`, `FileBrowserView`, checked.
4. *(done)* `MatchPairing` with its proofs, against a reference definition.
5. *(done)* `LinkRun`, `MatchResultsModel`, `MatchFinderPanel`, `MainWindow`: the
   window on top of the components, with its proofs.
6. *(done)* Proofs about `MatchSearcher` and `FileBrowserView`; `LinkRunner`
   implements `LinkRun`.
7. *(done)* Proofs that the runner's reports are true and stay so.
8. *(done)* Proofs that a search covers its trees, of the bounds on outstanding
   requests, and of the safety halves of liveness.
9. A composition of the session with two views and the searcher was considered
   and left out: the environments of 3 let answers come in any order and to
   anyone, which is more than the session does, so it would show nothing new
   about their safety; what they need for liveness is `ReadsSettle`.
