---------------------------- MODULE MatchSearcher ----------------------------
(***************************************************************************)
(* MatchSearcher (src/src/core/MatchSearcher.cpp): enumerates the primary  *)
(* and the secondary folder, with a bounded number of listings at a time,  *)
(* and hands the files it gathered to the pairing.                         *)
(*                                                                         *)
(* The session broadcasts the answer to a listing to all its consumers and *)
(* says of it only which path it is for.  So an answer may be to a request *)
(* of a search that was cancelled, or of another consumer: a file browser  *)
(* view, or the validation of the saved paths.  Requests are counted per   *)
(* path, the searcher's own and those of others.                           *)
(*                                                                         *)
(* The files of a directory are gathered all at once or not at all, so the *)
(* list of files (m_files) is represented by the sequence of directories   *)
(* whose files it holds, and m_foldersListed by its length.                *)
(***************************************************************************)
EXTENDS Naturals, Sequences, FiniteSets

CONSTANTS Dirs,         \* the directories of the share
          Above,        \* for each directory, those on the path to it
          OptionSet,    \* the options a search may be started with
          MaxInFlight,  \* kMaxListsInFlight
          MaxSearches,  \* bound on the searches started
          MaxForeign    \* bound on the paths other consumers ask for at a time

Options == [primary : Dirs, secondary : Dirs,
            primaryRecursive : BOOLEAN, secondaryRecursive : BOOLEAN]

ASSUME MatchSearcherAssumption ==
  /\ IsFiniteSet(Dirs) /\ Above \in [Dirs -> SUBSET Dirs]
  /\ OptionSet \subseteq Options
  /\ MaxInFlight \in Nat \ {0} /\ MaxSearches \in Nat /\ MaxForeign \in Nat

\* Directories form trees: the path to one that is no root is the path to its
\* parent, and the parent.
ASSUME TreeAssumption ==
  \A d \in Dirs :
    /\ d \notin Above[d]
    /\ Above[d] # {} => \E p \in Above[d] : Above[d] = Above[p] \cup {p}

VARIABLES
  options, running, visited, queue, inFlight, files, folderErrors, \* members
  asked, foreign,   \* requests the session will answer, the searcher's and
                    \* those of others: how many for each path
  outcome,          \* the signal that ended the last search, "none" before
  result,           \* what finished() reported: directories and errors
  failedDirs,       \* history: directories whose listing failed this search
  alive,            \* whether the panel that owns the searcher exists
  searches          \* history: searches started

members == <<options, running, visited, queue, inFlight, files, folderErrors>>
signals == <<outcome, result>>
vars == <<members, asked, foreign, signals, failedDirs, alive, searches>>

Sides    == {"primary", "secondary"}
Outcomes == {"none", "matches", "cancelled", "failed"}
NoRequests == [d \in Dirs |-> 0]
NoResult   == [files |-> <<>>, errors |-> 0]

SeqSet(s)   == {s[i] : i \in DOMAIN s}
Children(d) == {e \in Dirs : Above[e] = Above[d] \cup {d} /\ e # d}

-----------------------------------------------------------------------------
\* sideMaskOf: the trees a directory belongs to.
SideMask(o, d) ==
  {s \in Sides :
     \/ s = "primary"   /\ (d = o.primary \/ (o.primaryRecursive /\ o.primary \in Above[d]))
     \/ s = "secondary" /\ (d = o.secondary \/ (o.secondaryRecursive /\ o.secondary \in Above[d]))}

\* The sequences that list a set once.
Orders(S) == {s \in [1..Cardinality(S) -> S] : SeqSet(s) = S}

Roots(o) == {o.primary, o.secondary}

\* Mutant of RootQueue: a secondary folder below the primary one is taken to
\* be covered by it.
RootQueueSkipsNested(o) ==
  IF o.primary \in Above[o.secondary] \cup {o.secondary}
    THEN <<o.primary>> ELSE <<o.primary, o.secondary>>

\* The two enqueueDir calls of start.
RootQueue(o) ==
  IF o.primary = o.secondary THEN <<o.primary>> ELSE <<o.primary, o.secondary>>

\* resetState.
Reset == /\ visited' = {} /\ queue' = <<>> /\ inFlight' = {}
         /\ files' = <<>> /\ folderErrors' = 0

(***************************************************************************)
(* pumpListings, for options o and a search whose members are w when it is *)
(* called.  The loop takes the first n directories of the queue; libsmb2   *)
(* declines some of them, bad, on the spot, and their                      *)
(* onDirectoryListFailed runs inside listDirectory.  The loop ends when    *)
(* the queue or the slots are used up, or a root is declined; maybeFinish  *)
(* follows and may end the search.                                         *)
(***************************************************************************)
Pending(w, n, bad) == w.inFlight \cup {w.queue[i] : i \in (1..n) \ bad}

RootDeclined(o, w, bad) == \E i \in bad : w.queue[i] \in Roots(o)

LoopEndsAt(o, w, n, bad) ==
  /\ \A i \in bad : w.queue[i] \in Roots(o) => i = n
  /\ n > 0 => Cardinality(Pending(w, n - 1, bad)) < MaxInFlight
  /\ \/ n = Len(w.queue)
     \/ Cardinality(Pending(w, n, bad)) >= MaxInFlight
     \/ RootDeclined(o, w, bad)

\* A root that cannot be listed ends the search.
SearchFails == /\ running' = FALSE /\ Reset
               /\ outcome' = "failed" /\ result' = NoResult

\* computeMatches hands over the files and leaves the searcher idle.
SearchFinishes(gathered, errors) ==
  /\ running' = FALSE /\ Reset
  /\ outcome' = "matches" /\ result' = [files |-> gathered, errors |-> errors]

SearchGoesOn(w, rest, pending, errors) ==
  /\ running' = TRUE /\ visited' = w.visited /\ queue' = rest
  /\ inFlight' = pending /\ files' = w.files /\ folderErrors' = errors
  /\ outcome' = "none" /\ result' = NoResult

PumpListings(o, w) ==
  \E n \in 0..Len(w.queue) : \E bad \in SUBSET (1..n) :
    LET pending == Pending(w, n, bad)
        rest    == SubSeq(w.queue, n + 1, Len(w.queue))
        errors  == w.errors + Cardinality(bad)
    IN
    /\ LoopEndsAt(o, w, n, bad)
    /\ asked' = [d \in Dirs |-> IF d \in pending \ w.inFlight THEN w.asked[d] + 1
                                                             ELSE w.asked[d]]
    /\ failedDirs' = w.failed \cup {w.queue[i] : i \in bad}
    /\ \/ RootDeclined(o, w, bad) /\ SearchFails
       \/ /\ ~RootDeclined(o, w, bad) /\ rest = <<>> /\ pending = {}
          /\ SearchFinishes(w.files, errors)
       \/ /\ ~RootDeclined(o, w, bad) /\ ~(rest = <<>> /\ pending = {})
          /\ SearchGoesOn(w, rest, pending, errors)

-----------------------------------------------------------------------------
Init ==
  /\ options \in OptionSet
  /\ running = FALSE /\ visited = {} /\ queue = <<>> /\ inFlight = {}
  /\ files = <<>> /\ folderErrors = 0
  /\ asked = NoRequests /\ foreign = NoRequests
  /\ outcome = "none" /\ result = NoResult
  /\ failedDirs = {} /\ alive = TRUE /\ searches = 0

\* start.
Start(o) ==
  /\ alive /\ ~running /\ searches < MaxSearches
  /\ options' = o /\ searches' = searches + 1
  /\ PumpListings(o, [visited |-> Roots(o), queue |-> RootQueue(o),
                      inFlight |-> {}, files |-> <<>>, errors |-> 0, failed |-> {},
                      asked |-> asked])
  /\ UNCHANGED <<foreign, alive>>

\* Mutant of Cancel: the late replies still find their directories in flight.
CancelKeepsState ==
  /\ running /\ running' = FALSE
  /\ outcome' = "cancelled" /\ result' = NoResult
  /\ UNCHANGED <<options, visited, queue, inFlight, files, folderErrors, asked,
                 foreign, failedDirs, alive, searches>>

\* cancel.
Cancel ==
  /\ running
  /\ running' = FALSE /\ Reset
  /\ outcome' = "cancelled" /\ result' = NoResult
  /\ UNCHANGED <<options, asked, foreign, failedDirs, alive, searches>>

\* An answer the searcher is not waiting for; left are the requests that
\* remain to be answered.
Ignored(left) == asked' = left /\ UNCHANGED <<members, signals, failedDirs>>

\* Mutant of OnDirectoryListed: a folder without subfolders frees its slot, but
\* the pump is not called.
PumpOnlyForNew(d, left) ==
  LET subs == {e \in Children(d) : SideMask(options, e) # {}} \ visited IN
  IF ~running \/ d \notin inFlight THEN Ignored(left)
  ELSE \/ /\ subs = {}
          /\ inFlight' = inFlight \ {d} /\ files' = Append(files, d)
          /\ asked' = left
          /\ UNCHANGED <<options, running, visited, queue, folderErrors, signals,
                         failedDirs>>
       \/ /\ subs # {}
          /\ \E new \in Orders(subs) : PumpListings(options,
               [visited |-> visited \cup SeqSet(new), queue |-> queue \o new,
                inFlight |-> inFlight \ {d}, files |-> Append(files, d),
                errors |-> folderErrors, failed |-> failedDirs, asked |-> left])
          /\ UNCHANGED options

\* onDirectoryListed.  The server lists a directory's entries in any order.
OnDirectoryListed(d, left) ==
  IF ~running \/ d \notin inFlight THEN Ignored(left)
  ELSE \E new \in Orders({e \in Children(d) : SideMask(options, e) # {}} \ visited) :
         /\ PumpListings(options,
              [visited |-> visited \cup SeqSet(new), queue |-> queue \o new,
               inFlight |-> inFlight \ {d}, files |-> Append(files, d),
               errors |-> folderErrors, failed |-> failedDirs, asked |-> left])
         /\ UNCHANGED options

\* Mutants of OnDirectoryListFailed: an unlistable subfolder is only counted;
\* the failure of a root counts whoever asked, and whenever.
FailureOnlyCounted(d, left) ==
  IF ~running \/ d \notin inFlight THEN Ignored(left)
  ELSE \/ /\ d \in Roots(options) /\ SearchFails
          /\ failedDirs' = failedDirs \cup {d} /\ asked' = left /\ UNCHANGED options
       \/ /\ d \notin Roots(options)
          /\ inFlight' = inFlight \ {d} /\ folderErrors' = folderErrors + 1
          /\ failedDirs' = failedDirs \cup {d} /\ asked' = left
          /\ UNCHANGED <<options, running, visited, queue, files, signals>>

RootFailureAlwaysEnds(d, left) ==
  IF d \in Roots(options)
    THEN SearchFails /\ failedDirs' = failedDirs \cup {d} /\ asked' = left
         /\ UNCHANGED options
    ELSE FailureOnlyCounted(d, left)

\* onDirectoryListFailed, with the server's answer.
OnDirectoryListFailed(d, left) ==
  IF ~running \/ d \notin inFlight THEN Ignored(left)
  ELSE /\ IF d \in Roots(options)
            THEN SearchFails /\ failedDirs' = failedDirs \cup {d} /\ asked' = left
            ELSE PumpListings(options,
                   [visited |-> visited, queue |-> queue, inFlight |-> inFlight \ {d},
                    files |-> files, errors |-> folderErrors + 1,
                    failed |-> failedDirs \cup {d}, asked |-> left])
       /\ UNCHANGED options

\* The session answers a request for d, one of the searcher's or another's.
OneLess(requests, d) == [requests EXCEPT ![d] = @ - 1]

Answer(d, Handler(_, _)) ==
  /\ \/ asked[d] > 0 /\ Handler(d, OneLess(asked, d)) /\ UNCHANGED foreign
     \/ foreign[d] > 0 /\ Handler(d, asked) /\ foreign' = OneLess(foreign, d)
  /\ UNCHANGED <<alive, searches>>

Listed(d) == Answer(d, OnDirectoryListed)
Failed(d) == Answer(d, OnDirectoryListFailed)

\* A view or the panel asks for a listing of d.
OthersAsk(d) ==
  /\ alive /\ foreign[d] = 0
  /\ Cardinality({e \in Dirs : foreign[e] > 0}) < MaxForeign
  /\ foreign' = [foreign EXCEPT ![d] = 1]
  /\ UNCHANGED <<members, asked, signals, failedDirs, alive, searches>>

\* The connection ends: pending listings are dropped without an answer, and
\* MainWindow deletes the panel with its searcher.
Disconnect ==
  /\ alive /\ alive' = FALSE
  /\ running' = FALSE /\ Reset
  /\ asked' = NoRequests /\ foreign' = NoRequests
  /\ UNCHANGED <<options, signals, failedDirs, searches>>

\* A new connection, panel and searcher.
Reconnect ==
  /\ ~alive /\ alive' = TRUE
  /\ UNCHANGED <<members, asked, foreign, signals, failedDirs, searches>>

Next ==
  \/ \E o \in OptionSet : Start(o)
  \/ Cancel
  \/ \E d \in Dirs : Listed(d)
  \/ \E d \in Dirs : Failed(d)
  \/ \E d \in Dirs : OthersAsk(d)
  \/ Disconnect
  \/ Reconnect

Spec == Init /\ [][Next]_vars

\* Every listing asked for is answered, unless the connection ends first.
Fairness == \A d \in Dirs : WF_vars(Listed(d) \/ Failed(d))

FairSpec == Spec /\ Fairness
-----------------------------------------------------------------------------
TypeOK ==
  /\ options \in Options /\ running \in BOOLEAN
  /\ visited \subseteq Dirs /\ queue \in Seq(Dirs) /\ inFlight \subseteq Dirs
  /\ files \in Seq(Dirs) /\ folderErrors \in Nat
  /\ asked \in [Dirs -> Nat] /\ foreign \in [Dirs -> Nat]
  /\ outcome \in Outcomes /\ result \in [files : Seq(Dirs), errors : Nat]
  /\ failedDirs \subseteq Dirs /\ alive \in BOOLEAN /\ searches \in Nat

NoRepeats(s) == \A i, k \in DOMAIN s : s[i] = s[k] => i = k

\* Every directory enqueued is in exactly one place: waiting, in flight,
\* listed or failed; an idle searcher holds none.
EachDirOnce ==
  /\ NoRepeats(queue) /\ NoRepeats(files)
  /\ ~running => visited = {}
  /\ LET places == <<SeqSet(queue), inFlight, SeqSet(files), IF running THEN failedDirs ELSE {}>>
     IN /\ visited = UNION {places[i] : i \in 1..4}
        /\ \A i, k \in 1..4 : i # k => places[i] \cap places[k] = {}

\* The directories a search has to cover.
Scope(o) == {d \in Dirs : SideMask(o, d) # {}}

\* Directory d belongs to the tree of r, and those on the way from r to it.
Under(r, d) == d = r \/ r \in Above[d]
Way(r, d)   == {x \in Above[d] : Under(r, x)}

\* Those it can reach: from a root, through directories in its scope whose
\* listings did not fail.
Reachable(o, failed) ==
  {d \in Scope(o) \ failed :
     \E r \in Roots(o) : Under(r, d) /\ Way(r, d) \subseteq Scope(o) \ failed}

\* finished() covers both trees: the files come from every directory that
\* belongs to a side, each listed once though the trees overlap and answers
\* are told apart by path alone, except those under directories counted as
\* errors; so without errors nothing is missing.
ResultCoversTrees ==
  outcome = "matches" =>
    /\ NoRepeats(result.files)
    /\ SeqSet(result.files) = Reachable(options, failedDirs)
    /\ result.errors = Cardinality(failedDirs)
    /\ failedDirs = {} => Reachable(options, failedDirs) = Scope(options)

\* A running search waits for an answer that the session still owes it: none
\* of the ways a listing ends, inside the pump or out of it, leaves it stuck.
NeverStuck ==
  running => inFlight # {} /\ \A d \in inFlight : asked[d] > 0

\* A search that is over stays silent: late answers, also those that come
\* during the next search, neither end a search twice nor change a result.
EndedSearchIsSilent ==
  [][(outcome' # outcome \/ result' # result) => running \/ searches' # searches]_vars

\* Every search ends with a signal, or with its panel.
SearchEnds == running ~> ~running

\* "Upper bound on listings in flight" (kMaxListsInFlight): a cancelled
\* search leaves its listings behind, and the next one counts from zero.
ListingsBounded ==
  \A S \in SUBSET Dirs : (\A d \in S : asked[d] > 0) => Cardinality(S) <= MaxInFlight
-----------------------------------------------------------------------------
(***************************************************************************)
(* The inductive invariant behind ResultCoversTrees: the directories seen  *)
(* are in scope and have the way to them listed, and the subfolders of a   *)
(* listed one are seen.                                                    *)
(***************************************************************************)
Covered(o, seen, listed) ==
  /\ Roots(o) \subseteq seen /\ seen \subseteq Scope(o)
  /\ \A d \in seen : \E r \in Roots(o) : Under(r, d) /\ Way(r, d) \subseteq listed
  /\ \A d \in listed : Children(d) \cap Scope(o) \subseteq seen

CoverInv ==
  running => /\ Covered(options, visited, SeqSet(files))
             /\ folderErrors = Cardinality(failedDirs)

QueueInv == TypeOK /\ EachDirOnce /\ NeverStuck

\* The directories of the search that have been answered.
Settled == SeqSet(files) \cup failedDirs

\* What does hold in place of ListingsBounded: a search keeps to its slots, and
\* leaves none idle while a directory waits (pumpListings) ...
SlotsInv ==
  running => /\ Cardinality(inFlight) <= MaxInFlight
             /\ queue # <<>> => Cardinality(inFlight) = MaxInFlight

\* ... and asks for each path once, so that at most one request for a path is
\* outstanding for each search that was started.
RequestInv ==
  \A d \in Dirs :
    /\ asked[d] <= searches
    /\ running /\ d \notin inFlight \cup Settled => asked[d] < searches

IInv == QueueInv /\ SlotsInv /\ RequestInv /\ CoverInv

\* The safety half of SearchEnds, with NeverStuck: a slot changes hands only as
\* another directory is settled, for good; so a search takes at most as many
\* answers as there are directories.
SearchAdvances ==
  [][running /\ running' => /\ Settled \subseteq Settled'
                            /\ inFlight' # inFlight => Settled' # Settled]_vars
=============================================================================
