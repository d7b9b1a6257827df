------------------------ MODULE FileBrowserViewProofs ------------------------
(***************************************************************************)
(* Proofs about FileBrowserView, for any directories, contents, filters    *)
(* and any number of navigations and answers to others:                    *)
(*   - the invariant ViewInv is inductive;                                 *)
(*   - only what the last navigation asked for is revealed;                *)
(*   - a listing asks for each of its files once (IInv), and each answer   *)
(*     gives another row its count.                                        *)
(***************************************************************************)
EXTENDS FileBrowserView, FiniteSetTheorems, TLAPS

USE FileBrowserViewAssumption

-----------------------------------------------------------------------------
(***************************************************************************)
(* The pump.  It leaves every row of the listing accounted for and owes    *)
(* nothing it has not asked for, given that this was so before, but for    *)
(* the slots that are free.                                                *)
(***************************************************************************)
Accounted(rows, seen, flying, counts) ==
  \A f \in rows : counts[f] = "unknown" <=> f \notin seen \/ f \in flying

LEMMA PumpKeeps ==
  ASSUME NEW rows \in SUBSET Files, NEW seen \in SUBSET rows,
         NEW flying \in SUBSET seen, NEW counts \in [Files -> Counts],
         NEW owed \in [Files -> [Ages -> Nat]],
         Accounted(rows, seen, flying, counts),
         \A f \in flying : owed[f]["fresh"] > 0,
         PumpStats(rows, seen, flying, counts, owed)
  PROVE  /\ requested' \subseteq rows /\ inFlight' \subseteq requested'
         /\ nlink' \in [Files -> Counts] /\ stats' \in [Files -> [Ages -> Nat]]
         /\ Accounted(rows, requested', inFlight', nlink')
         /\ Cardinality(inFlight') <= MaxInFlight + Overshoot
         /\ requested' # rows => Cardinality(inFlight') >= MaxInFlight
         /\ \A f \in inFlight' : stats'[f]["fresh"] > 0
<1> DEFINE More(f) == [owed[f] EXCEPT !["fresh"] = @ + 1]
           Pump(next, bad) ==
             /\ Cardinality(flying \cup (next \ bad)) <= MaxInFlight + Overshoot
             /\ \/ Cardinality(flying \cup (next \ bad)) >= MaxInFlight
                \/ next = rows \ seen
             /\ requested' = seen \cup next
             /\ inFlight' = flying \cup (next \ bad)
             /\ nlink' = [f \in Files |-> IF f \in bad THEN "unavailable" ELSE counts[f]]
             /\ stats' = [f \in Files |-> IF f \in next \ bad THEN More(f) ELSE owed[f]]
<1>1. \E next \in SUBSET (rows \ seen) : \E bad \in SUBSET next : Pump(next, bad)
  <2>1. PICK next \in SUBSET (rows \ seen) : \E bad \in SUBSET next :
          LET flight == flying \cup (next \ bad) IN
          /\ Cardinality(flight) <= MaxInFlight + Overshoot
          /\ Cardinality(flying) >= MaxInFlight => next = {}
          /\ Cardinality(flight) >= MaxInFlight \/ next = rows \ seen
          /\ requested' = seen \cup next
          /\ inFlight' = flight
          /\ nlink' = [f \in Files |-> IF f \in bad THEN "unavailable" ELSE counts[f]]
          /\ stats' = [f \in Files |-> IF f \in next \ bad
                                         THEN [owed[f] EXCEPT !["fresh"] = @ + 1]
                                         ELSE owed[f]]
    BY Zenon DEF PumpStats
  <2>2. \E bad \in SUBSET next : Pump(next, bad)
    BY <2>1
  <2> QED
    BY <2>2
<1>2. PICK next \in SUBSET (rows \ seen) : \E bad \in SUBSET next : Pump(next, bad)
  BY <1>1
<1>3. PICK bad \in SUBSET next : Pump(next, bad)
  BY <1>2
<1>4. \A f \in Files : /\ owed[f] \in [Ages -> Nat] /\ owed[f]["fresh"] \in Nat
                       /\ More(f) \in [Ages -> Nat] /\ More(f)["fresh"] > 0
  BY DEF Ages
<1> HIDE DEF More
<1>5. nlink' \in [Files -> Counts] /\ stats' \in [Files -> [Ages -> Nat]]
  BY <1>3, <1>4 DEF Counts
<1>6. \A f \in inFlight' : stats'[f]["fresh"] > 0
  BY <1>3, <1>4
<1>7. \A f \in rows : nlink'[f] = "unknown" <=> f \notin requested' \/ f \in inFlight'
  BY <1>3 DEF Accounted
<1> QED
  BY <1>3, <1>5, <1>6, <1>7 DEF Accounted

\* One request more, or an answered one less.
LEMMA ListingsType ==
  ASSUME TypeOK, NEW d \in Dirs
  PROVE  /\ [listings EXCEPT ![d] = @ + 1] \in [Dirs -> Nat]
         /\ ([listings EXCEPT ![d] = @ + 1])[d] > 0
         /\ listings[d] > 0 => [listings EXCEPT ![d] = @ - 1] \in [Dirs -> Nat]
BY DEF TypeOK

\* No stat is in flight to begin with.
LEMMA EmptyWindow == Cardinality({}) <= MaxInFlight + Overshoot
BY FS_EmptySet

\* The stats of earlier listings are still owed, all of them stale now.
LEMMA AgedType ==
  ASSUME TypeOK
  PROVE  AgedStats \in [Files -> [Ages -> Nat]]
BY DEF TypeOK, AgedStats, Ages

-----------------------------------------------------------------------------
(***************************************************************************)
(* A navigation leaves the model and the stats alone.                      *)
(***************************************************************************)
LEMMA NavigateKeeps ==
  ASSUME ViewInv, NEW d \in Dirs, NavigateTo(d),
         UNCHANGED <<currentPath, model, queue, stats, others>>,
         {pendingReveal', revealed', wanted'} \subseteq Files \cup {Nothing},
         hidden' \subseteq Files, navigations' \in Nat,
         pendingReveal' \in {Nothing, wanted'}
  PROVE  ViewInv'
<1>1. /\ pendingPath' \in {d, Nothing}
      /\ listings' \in [Dirs -> Nat]
      /\ pendingPath' # Nothing => listings'[pendingPath'] > 0
  BY ListingsType DEF NavigateTo, ViewInv, TypeOK
<1>2. TypeOK'
  BY <1>1 DEF ViewInv, TypeOK, model, queue
<1>3. RowsAccounted'
  BY DEF ViewInv, RowsAccounted, model, queue
<1>4. AnswersOwed'
  BY <1>1 DEF ViewInv, AnswersOwed, queue
<1> QED
  BY <1>2, <1>3, <1>4 DEF ViewInv, RevealInv

\* The listing the view waits for, or one it does not.
LEMMA ListedKeeps ==
  ASSUME ViewInv, NEW d \in Dirs, NEW rows \in SUBSET Content[d], Listed(d, rows)
  PROVE  ViewInv'
<1>1. /\ listings[d] > 0 /\ listings' = [listings EXCEPT ![d] = @ - 1]
      /\ listings' \in [Dirs -> Nat] /\ UNCHANGED <<wanted, navigations>>
  BY ListingsType DEF Listed, OneLess, ViewInv
<1>2. CASE d # pendingPath
  <2>1. UNCHANGED <<place, model, queue, stats, others, shown>>
    BY <1>2 DEF Listed, OnDirectoryListed
  <2>2. pendingPath # Nothing => listings'[pendingPath] = listings[pendingPath]
    BY <1>1, <1>2 DEF ViewInv, TypeOK
  <2> QED
    BY <1>1, <2>1, <2>2 DEF ViewInv, TypeOK, RowsAccounted, AnswersOwed, RevealInv, place,
                            model, queue, shown
<1>3. CASE d = pendingPath
  <2>1. /\ currentPath' = d /\ pendingPath' = Nothing /\ pendingReveal' = Nothing
        /\ entries' = rows /\ Aged /\ Reveal(pendingReveal, rows)
        /\ PumpStats(rows, {}, {}, [f \in Files |-> "unknown"], AgedStats)
    BY <1>3 DEF Listed, OnDirectoryListed
  <2>2. rows \subseteq Files
    OBVIOUS
  <2>3. Accounted(rows, {}, {}, [f \in Files |-> "unknown"])
    BY <2>2 DEF Accounted
  <2>4. [f \in Files |-> "unknown"] \in [Files -> Counts]
    BY DEF Counts
  <2>5. /\ requested' \subseteq rows /\ inFlight' \subseteq requested'
        /\ nlink' \in [Files -> Counts] /\ stats' \in [Files -> [Ages -> Nat]]
        /\ Accounted(rows, requested', inFlight', nlink')
        /\ Cardinality(inFlight') <= MaxInFlight + Overshoot
        /\ requested' # rows => Cardinality(inFlight') >= MaxInFlight
        /\ \A f \in inFlight' : stats'[f]["fresh"] > 0
    <3> DEFINE none == {}
               counts == [f \in Files |-> "unknown"]
    <3>1. AgedStats \in [Files -> [Ages -> Nat]]
      BY AgedType DEF ViewInv
    <3>2. PumpStats(rows, none, none, counts, AgedStats)
      BY <2>1
    <3>3. Accounted(rows, none, none, counts) /\ counts \in [Files -> Counts]
      BY <2>3, <2>4
    <3>4. rows \in SUBSET Files /\ none \in SUBSET rows /\ none \in SUBSET none
          /\ \A f \in none : AgedStats[f]["fresh"] > 0
      BY <2>2
    <3> HIDE DEF AgedStats, none, counts
    <3> QED
      BY <3>1, <3>2, <3>3, <3>4, PumpKeeps
  <2>6. others' \in [Files -> SUBSET Ages]
    BY <2>1 DEF Aged, Ages
  <2>7. revealed' \in Files \cup {Nothing} /\ hidden' \subseteq Files
    BY <2>1, <2>2 DEF Reveal, ViewInv, TypeOK
  <2>8. TypeOK'
    BY <1>1, <2>1, <2>2, <2>5, <2>6, <2>7 DEF ViewInv, TypeOK
  <2>9. RowsAccounted'
    BY <2>1, <2>5 DEF RowsAccounted, Accounted
  <2>10. AnswersOwed' /\ RevealInv'
    BY <2>1, <2>5 DEF AnswersOwed, RevealInv
  <2> QED
    BY <2>8, <2>9, <2>10 DEF ViewInv
<1> QED
  BY <1>2, <1>3

\* A failed listing, the view's or another's.
LEMMA ListFailedKeeps ==
  ASSUME ViewInv, NEW d \in Dirs, ListFailed(d)
  PROVE  ViewInv'
<1>1. /\ listings[d] > 0 /\ listings' = [listings EXCEPT ![d] = @ - 1]
      /\ listings' \in [Dirs -> Nat]
      /\ UNCHANGED <<model, queue, stats, others, shown, wanted, navigations>>
  BY ListingsType DEF ListFailed, OneLess, ViewInv
<1>2. RowsAccounted'
  BY <1>1 DEF ViewInv, RowsAccounted, model, queue
<1>3. CASE d # pendingPath
  <2>1. UNCHANGED place
    BY <1>3 DEF ListFailed, OnDirectoryListFailed
  <2>2. pendingPath # Nothing => listings'[pendingPath] = listings[pendingPath]
    BY <1>1, <1>3 DEF ViewInv, TypeOK
  <2> QED
    BY <1>1, <1>2, <2>1, <2>2 DEF ViewInv, TypeOK, AnswersOwed, RevealInv, place, model, queue,
                                  shown
<1>4. CASE d = pendingPath
  <2>1. pendingPath' = Nothing /\ pendingReveal' = Nothing /\ UNCHANGED currentPath
    BY <1>4 DEF ListFailed, OnDirectoryListFailed
  <2> QED
    BY <1>1, <1>2, <2>1 DEF ViewInv, TypeOK, AnswersOwed, RevealInv, model, queue, shown
<1> QED
  BY <1>3, <1>4

\* The answer to a stat, the view's or another's: an answer frees the slot of
\* its file only while the file is in flight, and that stat or a younger one
\* is still owed for all others.
LEMMA AnswerKeeps ==
  ASSUME ViewInv, NEW f \in Files, NEW count \in Counts \ {"unknown"},
         NEW left \in [Files -> [Ages -> Nat]],
         \A g \in Files \ {f} : left[g] = stats[g],
         OnStatAnswer(f, count, left), others' \in [Files -> SUBSET Ages],
         UNCHANGED <<place, entries, listings, shown, wanted, navigations>>
  PROVE  ViewInv'
<1>1. /\ RevealInv'
      /\ pendingPath' # Nothing => listings'[pendingPath'] > 0
  BY DEF ViewInv, RevealInv, AnswersOwed, place
<1>2. CASE f \notin inFlight
  <2>1. stats' = left /\ UNCHANGED <<nlink, queue>>
    BY <1>2 DEF OnStatAnswer
  <2>2. \A g \in inFlight : stats'[g]["fresh"] > 0
    BY <1>2, <2>1 DEF ViewInv, TypeOK, AnswersOwed
  <2> QED
    BY <1>1, <2>1, <2>2 DEF ViewInv, TypeOK, RowsAccounted, AnswersOwed, place, queue, shown
<1>3. CASE f \in inFlight
  <2>1. PumpStats(entries, requested, inFlight \ {f}, [nlink EXCEPT ![f] = count], left)
    BY <1>3 DEF OnStatAnswer
  <2>2. /\ entries \in SUBSET Files /\ requested \in SUBSET entries
        /\ inFlight \ {f} \in SUBSET requested
        /\ [nlink EXCEPT ![f] = count] \in [Files -> Counts]
    BY DEF ViewInv, TypeOK
  <2>3. Accounted(entries, requested, inFlight \ {f}, [nlink EXCEPT ![f] = count])
    BY <1>3 DEF ViewInv, TypeOK, RowsAccounted, Accounted
  <2>4. \A g \in inFlight \ {f} : left[g]["fresh"] > 0
    BY DEF ViewInv, TypeOK, AnswersOwed
  <2>5. /\ requested' \subseteq entries /\ inFlight' \subseteq requested'
        /\ nlink' \in [Files -> Counts] /\ stats' \in [Files -> [Ages -> Nat]]
        /\ Accounted(entries, requested', inFlight', nlink')
        /\ Cardinality(inFlight') <= MaxInFlight + Overshoot
        /\ requested' # entries => Cardinality(inFlight') >= MaxInFlight
        /\ \A g \in inFlight' : stats'[g]["fresh"] > 0
    <3> DEFINE counts == [nlink EXCEPT ![f] = count]
               flying == inFlight \ {f}
    <3>1. PumpStats(entries, requested, flying, counts, left)
      BY <2>1
    <3>2. /\ entries \in SUBSET Files /\ requested \in SUBSET entries
          /\ flying \in SUBSET requested /\ counts \in [Files -> Counts]
          /\ Accounted(entries, requested, flying, counts)
          /\ \A g \in flying : left[g]["fresh"] > 0
      BY <2>2, <2>3, <2>4
    <3> HIDE DEF counts, flying
    <3> QED
      BY <3>1, <3>2, PumpKeeps
  <2> QED
    BY <1>1, <2>5 DEF ViewInv, TypeOK, RowsAccounted, Accounted, AnswersOwed, place, shown
<1> QED
  BY <1>2, <1>3

-----------------------------------------------------------------------------
\* ViewInv is inductive.
LEMMA ViewInvStep == ViewInv /\ [Next]_vars => ViewInv'
<1> SUFFICES ASSUME ViewInv, [Next]_vars PROVE ViewInv'
  OBVIOUS
<1>1. ASSUME NEW d \in Dirs, Navigate(d) PROVE ViewInv'
  BY <1>1, NavigateKeeps DEF Navigate, ViewInv, TypeOK, shown
<1>2. ASSUME NEW d \in Dirs, NEW f \in Content[d], NavigateToAndReveal(d, f) PROVE ViewInv'
  <2>1. /\ f \in Files /\ wanted' = f /\ navigations' \in Nat
        /\ UNCHANGED <<model, queue, stats, others>>
    BY <1>2 DEF NavigateToAndReveal, ViewInv, TypeOK
  <2>2. CASE d = currentPath /\ pendingPath = Nothing
    <3>1. Reveal(f, entries) /\ UNCHANGED <<place, listings>>
      BY <1>2, <2>2 DEF NavigateToAndReveal
    <3> QED
      BY <2>1, <2>2, <3>1 DEF ViewInv, TypeOK, RowsAccounted, AnswersOwed, RevealInv, Reveal,
                              place, model, queue
  <2>3. CASE ~(d = currentPath /\ pendingPath = Nothing)
    <3>1. /\ NavigateTo(d) /\ pendingReveal' = f /\ revealed' = Nothing
          /\ UNCHANGED <<currentPath, hidden>>
      BY <1>2, <2>3 DEF NavigateToAndReveal
    <3> QED
      BY <2>1, <3>1, NavigateKeeps DEF ViewInv, TypeOK
  <2> QED
    BY <2>2, <2>3
<1>3. ASSUME NEW d \in Dirs, NEW rows \in SUBSET Content[d], Listed(d, rows) PROVE ViewInv'
  BY <1>3, ListedKeeps
<1>4. ASSUME NEW d \in Dirs, ListFailed(d) PROVE ViewInv'
  BY <1>4, ListFailedKeeps
<1>5. ASSUME NEW f \in Files, NEW age \in Ages, StatAnswered(f, age) PROVE ViewInv'
  <2>1. UNCHANGED <<place, entries, listings, shown, wanted, navigations>>
    BY <1>5 DEF StatAnswered
  <2>2. PICK count \in {age, "unavailable"} :
          \/ /\ stats[f][age] > 0
             /\ OnStatAnswer(f, count, [stats EXCEPT ![f][age] = @ - 1])
             /\ UNCHANGED others
          \/ /\ age \in others[f]
             /\ OnStatAnswer(f, count, stats)
             /\ others' = [others EXCEPT ![f] = @ \ {age}]
    BY <1>5 DEF StatAnswered
  <2>3. count \in Counts \ {"unknown"}
    BY DEF Counts, Ages
  <2>4. /\ stats \in [Files -> [Ages -> Nat]] /\ others \in [Files -> SUBSET Ages]
    BY DEF ViewInv, TypeOK
  <2>5. CASE stats[f][age] > 0 /\ UNCHANGED others
             /\ OnStatAnswer(f, count, [stats EXCEPT ![f][age] = @ - 1])
    <3> DEFINE left == [stats EXCEPT ![f][age] = @ - 1]
    <3>1. stats[f] \in [Ages -> Nat] /\ stats[f][age] \in Nat
      BY <2>4
    <3>2. [stats[f] EXCEPT ![age] = @ - 1] \in [Ages -> Nat]
      BY <2>5, <3>1
    <3>3. left \in [Files -> [Ages -> Nat]] /\ \A g \in Files \ {f} : left[g] = stats[g]
      BY <2>4, <3>2
    <3>4. OnStatAnswer(f, count, left)
      BY <2>5
    <3> HIDE DEF left
    <3> QED
      BY <2>1, <2>3, <2>4, <2>5, <3>3, <3>4, AnswerKeeps
  <2>6. CASE OnStatAnswer(f, count, stats) /\ others' = [others EXCEPT ![f] = @ \ {age}]
    <3>1. others' \in [Files -> SUBSET Ages]
      BY <2>4, <2>6
    <3> QED
      BY <2>1, <2>3, <2>4, <2>6, <3>1, AnswerKeeps
  <2> QED
    BY <2>2, <2>5, <2>6
<1>6. ASSUME NEW f \in Files, OthersStat(f) PROVE ViewInv'
  BY <1>6 DEF OthersStat, ViewInv, TypeOK, RowsAccounted, AnswersOwed, RevealInv, place, model,
              queue, shown, Ages
<1>7. ASSUME NEW d \in Dirs, OthersList(d) PROVE ViewInv'
  <2>1. listings' \in [Dirs -> Nat]
        /\ \A e \in Dirs : listings[e] > 0 => listings'[e] > 0
    BY <1>7 DEF OthersList, ViewInv, TypeOK
  <2> QED
    BY <1>7, <2>1 DEF OthersList, ViewInv, TypeOK, RowsAccounted, AnswersOwed, RevealInv, place,
                      model, queue, shown
<1>8. ASSUME NEW files \in Filters, Filter(files) PROVE ViewInv'
  <2>1. hidden' \subseteq Files
    BY <1>8 DEF Filter
  <2> QED
    BY <1>8, <2>1 DEF Filter, ViewInv, TypeOK, RowsAccounted, AnswersOwed, RevealInv, place,
                      model, queue, asked
<1>9. CASE Reconnect
  BY <1>9, EmptyWindow DEF Reconnect, ViewInv, TypeOK, RowsAccounted, AnswersOwed, RevealInv,
                           Counts, Ages
<1>10. CASE UNCHANGED vars
  BY <1>10 DEF vars, place, model, queue, asked, shown, ViewInv, TypeOK, RowsAccounted,
               AnswersOwed, RevealInv
<1> QED
  BY <1>1, <1>2, <1>3, <1>4, <1>5, <1>6, <1>7, <1>8, <1>9, <1>10 DEF Next

\* Every row of the listing is accounted for, no slot idles while a row waits,
\* and what the view waits for is owed to it, in every reachable state.
THEOREM ViewInvariance == Spec => []ViewInv
<1>1. Init => ViewInv
  BY EmptyWindow DEF Init, ViewInv, TypeOK, RowsAccounted, AnswersOwed, RevealInv, Counts, Ages
<1> QED
  BY <1>1, ViewInvStep, PTL DEF Spec

\* What is selected in the view is what the last navigation asked for, and it
\* is not behind the filter: no leftover of an earlier navigation gets there.
THEOREM OnlyWantedRevealed == Spec => RevealIsWanted
<1> DEFINE Wanted == revealed' # revealed /\ revealed' # Nothing
                       => revealed' = wanted' /\ revealed' \in entries' \ hidden'
<1>1. ASSUME ViewInv, [Next]_vars PROVE Wanted
  <2>1. ASSUME NEW d \in Dirs, NEW f \in Content[d], NavigateToAndReveal(d, f) PROVE Wanted
    BY <2>1 DEF NavigateToAndReveal, Reveal, shown, model
  <2>2. ASSUME NEW d \in Dirs, NEW rows \in SUBSET Content[d], Listed(d, rows) PROVE Wanted
    <3>1. CASE d # pendingPath
      BY <2>2, <3>1 DEF Listed, OnDirectoryListed, shown
    <3>2. CASE d = pendingPath
      <4>1. pendingReveal \in {Nothing, wanted}
        BY <1>1, <3>2 DEF ViewInv, RevealInv
      <4> QED
        BY <2>2, <3>2, <4>1 DEF Listed, OnDirectoryListed, Reveal
    <3> QED
      BY <3>1, <3>2
  <2>3. CASE Reconnect
    BY <2>3 DEF Reconnect
  <2>4. CASE revealed' \in {revealed, Nothing}
    BY <2>4
  <2>5. \/ \E d \in Dirs : \E f \in Content[d] : NavigateToAndReveal(d, f)
        \/ \E d \in Dirs : \E rows \in SUBSET Content[d] : Listed(d, rows)
        \/ Reconnect \/ revealed' \in {revealed, Nothing}
    BY <1>1 DEF Next, vars, shown, Navigate, ListFailed, StatAnswered, OthersStat, OthersList,
                Filter
  <2> QED
    BY <2>1, <2>2, <2>3, <2>4, <2>5
<1>2. ViewInv /\ [Next]_vars => [Wanted]_vars
  BY <1>1
<1> QED
  BY <1>2, ViewInvariance, PTL DEF Spec, RevealIsWanted
-----------------------------------------------------------------------------
(***************************************************************************)
(* Stats that are outstanding, and rows without a count.                   *)
(***************************************************************************)
\* The pump asks only for rows it has not asked for, and gives none its blank
\* back.
LEMMA PumpAsksOnce ==
  ASSUME NEW rows \in SUBSET Files, NEW seen \in SUBSET rows,
         NEW flying \in SUBSET seen, NEW counts \in [Files -> Counts],
         NEW owed \in [Files -> [Ages -> Nat]],
         PumpStats(rows, seen, flying, counts, owed)
  PROVE  /\ seen \subseteq requested' /\ requested' \subseteq rows
         /\ \A f \in Files : nlink'[f] = "unknown" => counts[f] = "unknown"
         /\ \A f \in Files :
              /\ stats'[f]["stale"] = owed[f]["stale"]
              /\ \/ stats'[f]["fresh"] = owed[f]["fresh"]
                 \/ /\ f \in requested' \ seen
                    /\ stats'[f]["fresh"] = owed[f]["fresh"] + 1
<1>1. PICK next \in SUBSET (rows \ seen) : \E bad \in SUBSET next :
        LET flight == flying \cup (next \ bad) IN
        /\ Cardinality(flight) <= MaxInFlight + Overshoot
        /\ Cardinality(flying) >= MaxInFlight => next = {}
        /\ Cardinality(flight) >= MaxInFlight \/ next = rows \ seen
        /\ requested' = seen \cup next
        /\ inFlight' = flight
        /\ nlink' = [f \in Files |-> IF f \in bad THEN "unavailable" ELSE counts[f]]
        /\ stats' = [f \in Files |-> IF f \in next \ bad
                                       THEN [owed[f] EXCEPT !["fresh"] = @ + 1]
                                       ELSE owed[f]]
  BY Zenon DEF PumpStats
<1>2. PICK bad \in SUBSET next :
        /\ requested' = seen \cup next
        /\ nlink' = [f \in Files |-> IF f \in bad THEN "unavailable" ELSE counts[f]]
        /\ stats' = [f \in Files |-> IF f \in next \ bad
                                       THEN [owed[f] EXCEPT !["fresh"] = @ + 1]
                                       ELSE owed[f]]
  BY <1>1
<1>3. ASSUME NEW f \in Files
      PROVE  /\ stats'[f]["stale"] = owed[f]["stale"]
             /\ \/ stats'[f]["fresh"] = owed[f]["fresh"]
                \/ /\ f \in requested' \ seen
                   /\ stats'[f]["fresh"] = owed[f]["fresh"] + 1
  <2>1. owed[f] \in [Ages -> Nat] /\ "fresh" \in Ages /\ "stale" \in Ages
    BY DEF Ages
  <2>2. [owed[f] EXCEPT !["fresh"] = @ + 1]["fresh"] = owed[f]["fresh"] + 1
        /\ [owed[f] EXCEPT !["fresh"] = @ + 1]["stale"] = owed[f]["stale"]
    BY <2>1
  <2>3. stats'[f] = IF f \in next \ bad THEN [owed[f] EXCEPT !["fresh"] = @ + 1] ELSE owed[f]
    BY <1>2
  <2> QED
    BY <1>2, <2>2, <2>3
<1>4. \A f \in Files : nlink'[f] = "unknown" => counts[f] = "unknown"
  BY <1>2
<1> QED
  BY <1>2, <1>3, <1>4

\* The listings that were accepted and the stats they led to keep to the
\* number of navigations, when the pump runs on what is left of the stats.
LEMMA PumpOnce ==
  ASSUME NEW rows \in SUBSET Files, NEW seen \in SUBSET rows,
         NEW flying \in SUBSET seen, NEW counts \in [Files -> Counts],
         NEW owed \in [Files -> [Ages -> Nat]],
         PumpStats(rows, seen, flying, counts, owed), entries' = rows,
         NEW p \in {0, 1}, p = IF pendingPath' # Nothing THEN 1 ELSE 0,
         navigations' \in Nat,
         \A f \in Files :
           /\ owed[f]["fresh"] <= IF f \in seen THEN 1 ELSE 0
           /\ owed[f]["fresh"] + owed[f]["stale"] + (IF f \in rows \ seen THEN 1 ELSE 0) + p
                <= navigations'
  PROVE  StatsOnce'
<1> SUFFICES ASSUME NEW f \in Files
             PROVE  /\ stats'[f]["fresh"] <= IF f \in requested' THEN 1 ELSE 0
                    /\ stats'[f]["fresh"] + stats'[f]["stale"]
                         + ((IF f \in entries' \ requested' THEN 1 ELSE 0)
                              + (IF pendingPath' # Nothing THEN 1 ELSE 0)) <= navigations'
  BY DEF StatsOnce, ToCome
<1>1. /\ seen \subseteq requested' /\ requested' \subseteq rows
      /\ stats'[f]["stale"] = owed[f]["stale"]
      /\ \/ stats'[f]["fresh"] = owed[f]["fresh"]
         \/ f \in requested' \ seen /\ stats'[f]["fresh"] = owed[f]["fresh"] + 1
  BY PumpAsksOnce
<1>2. owed[f]["fresh"] \in Nat /\ owed[f]["stale"] \in Nat
  BY DEF Ages
<1>3. /\ owed[f]["fresh"] <= IF f \in seen THEN 1 ELSE 0
      /\ owed[f]["fresh"] + owed[f]["stale"] + (IF f \in rows \ seen THEN 1 ELSE 0) + p
           <= navigations'
  OBVIOUS
<1>4. CASE f \in requested' \ seen
  <2>1. owed[f]["fresh"] <= 0 /\ owed[f]["fresh"] + owed[f]["stale"] + 1 + p <= navigations'
    BY <1>1, <1>3, <1>4
  <2> QED
    BY <1>1, <1>2, <1>4, <2>1
<1>5. CASE f \notin requested' \ seen
  <2>1. stats'[f]["fresh"] = owed[f]["fresh"] /\ (f \in requested' <=> f \in seen)
    BY <1>1, <1>5
  <2>2. f \in entries' \ requested' <=> f \in rows \ seen
    BY <1>1, <2>1
  <2> QED
    BY <1>1, <1>2, <1>3, <2>1, <2>2
<1> QED
  BY <1>4, <1>5

\* Where no row and no stat is added, and no navigation taken back.
LEMMA OnceKept ==
  ASSUME ViewInv, StatsOnce, UNCHANGED <<entries, requested, stats>>,
         \/ navigations' = navigations
              /\ (pendingPath' # Nothing => pendingPath # Nothing)
         \/ navigations' = navigations + 1
  PROVE  StatsOnce'
<1>1. \A f \in Files : stats[f]["fresh"] \in Nat /\ stats[f]["stale"] \in Nat
  BY DEF ViewInv, TypeOK, Ages
<1>2. navigations \in Nat
  BY DEF ViewInv, TypeOK
<1>3. ASSUME NEW f \in Files
      PROVE  /\ stats'[f]["fresh"] <= IF f \in requested' THEN 1 ELSE 0
             /\ stats'[f]["fresh"] + stats'[f]["stale"] + ToCome(f)' <= navigations'
  <2>1. /\ stats[f]["fresh"] <= IF f \in requested THEN 1 ELSE 0
        /\ stats[f]["fresh"] + stats[f]["stale"] + ToCome(f) <= navigations
    BY DEF StatsOnce
  <2>2. /\ ToCome(f) \in Nat /\ ToCome(f)' \in Nat
        /\ ToCome(f)' <= ToCome(f) + (navigations' - navigations)
    BY <1>2 DEF ToCome
  <2> QED
    BY <1>1, <1>2, <2>1, <2>2
<1> QED
  BY <1>3 DEF StatsOnce

\* A listing that is accepted makes the stats of the last one stale.
LEMMA ListedOnce ==
  ASSUME ViewInv, StatsOnce, NEW d \in Dirs, NEW rows \in SUBSET Content[d], Listed(d, rows)
  PROVE  StatsOnce'
<1>1. CASE d # pendingPath
  BY <1>1, OnceKept DEF Listed, OnDirectoryListed, place, model, queue
<1>2. CASE d = pendingPath
  <2> DEFINE blank == [f \in Files |-> "unknown"]
  <2>1. /\ PumpStats(rows, {}, {}, blank, AgedStats) /\ entries' = rows
        /\ pendingPath' = Nothing /\ navigations' = navigations
    BY <1>2 DEF Listed, OnDirectoryListed
  <2>2. /\ rows \in SUBSET Files /\ {} \in SUBSET rows /\ {} \in SUBSET {}
        /\ AgedStats \in [Files -> [Ages -> Nat]] /\ navigations \in Nat
        /\ blank \in [Files -> Counts]
    BY AgedType DEF ViewInv, TypeOK, Counts
  <2>3. pendingPath # Nothing
    BY <1>2
  <2>4. ASSUME NEW f \in Files
        PROVE  /\ AgedStats[f]["fresh"] <= 0
               /\ AgedStats[f]["fresh"] + AgedStats[f]["stale"]
                    + (IF f \in rows \ {} THEN 1 ELSE 0) + 0 <= navigations'
    <3>1. AgedStats[f]["fresh"] = 0
          /\ AgedStats[f]["stale"] = stats[f]["fresh"] + stats[f]["stale"]
      BY DEF AgedStats, Ages
    <3>2. stats[f]["fresh"] \in Nat /\ stats[f]["stale"] \in Nat
      BY DEF ViewInv, TypeOK, Ages
    <3>3. stats[f]["fresh"] + stats[f]["stale"] + 1 <= navigations
      <4>1. ToCome(f) \in Nat /\ ToCome(f) >= 1
        BY <2>3 DEF ToCome
      <4>2. stats[f]["fresh"] + stats[f]["stale"] + ToCome(f) <= navigations
        BY DEF StatsOnce
      <4> QED
        BY <2>2, <3>2, <4>1, <4>2
    <3> HIDE DEF AgedStats
    <3> QED
      BY <2>1, <2>2, <3>1, <3>2, <3>3
  <2> HIDE DEF blank
  <2> QED
    BY <2>1, <2>2, <2>4, PumpOnce
<1> QED
  BY <1>1, <1>2

\* An answer takes a stat away, and may have the pump send others.
LEMMA AnswerOnce ==
  ASSUME ViewInv, StatsOnce, NEW f \in Files, NEW count \in Counts \ {"unknown"},
         NEW left \in [Files -> [Ages -> Nat]],
         \A g \in Files, age \in Ages : left[g][age] <= stats[g][age],
         OnStatAnswer(f, count, left), UNCHANGED <<place, entries, navigations>>
  PROVE  /\ StatsOnce' /\ Blank' \subseteq Blank
         /\ inFlight' # inFlight => Blank' # Blank
<1>1. ASSUME NEW g \in Files
      PROVE  /\ left[g]["fresh"] <= IF g \in requested THEN 1 ELSE 0
             /\ left[g]["fresh"] + left[g]["stale"] + ToCome(g) <= navigations
  <2>1. left[g]["fresh"] <= stats[g]["fresh"] /\ left[g]["stale"] <= stats[g]["stale"]
    BY DEF Ages
  <2>2. /\ stats[g]["fresh"] <= IF g \in requested THEN 1 ELSE 0
        /\ stats[g]["fresh"] + stats[g]["stale"] + ToCome(g) <= navigations
    BY DEF StatsOnce
  <2>3. /\ left[g]["fresh"] \in Nat /\ left[g]["stale"] \in Nat
        /\ stats[g]["fresh"] \in Nat /\ stats[g]["stale"] \in Nat
        /\ navigations \in Nat /\ ToCome(g) \in Nat
    BY DEF ViewInv, TypeOK, Ages, ToCome
  <2> QED
    BY <2>1, <2>2, <2>3
<1>2. CASE f \notin inFlight
  <2>1. stats' = left /\ UNCHANGED <<nlink, requested, inFlight>>
    BY <1>2 DEF OnStatAnswer, queue
  <2>2. Blank' = Blank
    BY <2>1 DEF Blank
  <2>3. \A g \in Files : ToCome(g)' = ToCome(g)
    BY <2>1 DEF ToCome, place
  <2> QED
    BY <1>1, <2>1, <2>2, <2>3 DEF StatsOnce
<1>3. CASE f \in inFlight
  <2> DEFINE counts == [nlink EXCEPT ![f] = count]
             flying == inFlight \ {f}
             p      == IF pendingPath' # Nothing THEN 1 ELSE 0
  <2>1. PumpStats(entries, requested, flying, counts, left)
    BY <1>3 DEF OnStatAnswer
  <2>2. /\ entries \in SUBSET Files /\ requested \in SUBSET entries
        /\ flying \in SUBSET requested /\ counts \in [Files -> Counts]
        /\ nlink \in [Files -> Counts] /\ navigations \in Nat
    BY DEF ViewInv, TypeOK
  <2>3. f \in Blank /\ counts[f] = count /\ \A g \in Files \ {f} : counts[g] = nlink[g]
    BY <1>3, <2>2 DEF Blank, ViewInv, TypeOK, RowsAccounted
  <2>4. entries' = entries /\ p \in {0, 1} /\ navigations' \in Nat
    BY <2>2
  <2>5. \A g \in Files :
          /\ left[g]["fresh"] <= IF g \in requested THEN 1 ELSE 0
          /\ left[g]["fresh"] + left[g]["stale"]
               + (IF g \in entries \ requested THEN 1 ELSE 0) + p <= navigations'
    <3>1. ASSUME NEW g \in Files
          PROVE  left[g]["fresh"] + left[g]["stale"]
                   + (IF g \in entries \ requested THEN 1 ELSE 0) + p <= navigations'
      <4>1. ToCome(g) = (IF g \in entries \ requested THEN 1 ELSE 0) + p
        BY DEF ToCome, place
      <4>2. left[g]["fresh"] \in Nat /\ left[g]["stale"] \in Nat
        BY DEF Ages
      <4>3. left[g]["fresh"] + left[g]["stale"] + ToCome(g) <= navigations'
        BY <1>1
      <4> HIDE DEF p
      <4> QED
        BY <2>4, <4>1, <4>2, <4>3
    <3> QED
      BY <1>1, <3>1
  <2> HIDE DEF counts, flying
  <2>6. StatsOnce'
    BY <2>1, <2>2, <2>4, <2>5, PumpOnce
  <2>7. \A g \in Files : nlink'[g] = "unknown" => counts[g] = "unknown"
    BY <2>1, <2>2, PumpAsksOnce
  <2>8. Blank' \subseteq Blank /\ f \notin Blank'
    BY <2>2, <2>3, <2>4, <2>7 DEF Blank
  <2> QED
    BY <2>3, <2>6, <2>8
<1> QED
  BY <1>2, <1>3

\* The answer to a stat, the view's or another's.
LEMMA StatOnce ==
  ASSUME ViewInv, StatsOnce, NEW f \in Files, NEW age \in Ages, StatAnswered(f, age)
  PROVE  /\ StatsOnce' /\ Blank' \subseteq Blank
         /\ inFlight' # inFlight => Blank' # Blank
<1>1. UNCHANGED <<place, entries, navigations>>
  BY DEF StatAnswered
<1>2. PICK count \in {age, "unavailable"} :
        \/ /\ stats[f][age] > 0
           /\ OnStatAnswer(f, count, [stats EXCEPT ![f][age] = @ - 1])
        \/ OnStatAnswer(f, count, stats)
  BY DEF StatAnswered
<1>3. count \in Counts \ {"unknown"}
  BY DEF Counts, Ages
<1>4. stats \in [Files -> [Ages -> Nat]]
  BY DEF ViewInv, TypeOK
<1>5. CASE stats[f][age] > 0 /\ OnStatAnswer(f, count, [stats EXCEPT ![f][age] = @ - 1])
  <2> DEFINE left == [stats EXCEPT ![f][age] = @ - 1]
  <2>1. stats[f] \in [Ages -> Nat] /\ stats[f][age] \in Nat
    BY <1>4
  <2>2. [stats[f] EXCEPT ![age] = @ - 1] \in [Ages -> Nat]
    BY <1>5, <2>1
  <2>3. left \in [Files -> [Ages -> Nat]]
    BY <1>4, <2>2
  <2>4. \A g \in Files, a \in Ages : left[g][a] <= stats[g][a]
    <3>1. \A g \in Files, a \in Ages : stats[g][a] \in Nat
      BY <1>4
    <3>2. \A g \in Files, a \in Ages : left[g][a] = stats[g][a] \/ left[g][a] = stats[g][a] - 1
      BY <1>4
    <3> HIDE DEF left
    <3> QED
      BY <3>1, <3>2
  <2>5. OnStatAnswer(f, count, left)
    BY <1>5
  <2> HIDE DEF left
  <2> QED
    BY <1>1, <1>3, <2>3, <2>4, <2>5, AnswerOnce
<1>6. CASE OnStatAnswer(f, count, stats)
  <2>1. \A g \in Files, a \in Ages : stats[g][a] <= stats[g][a]
    BY <1>4
  <2> QED
    BY <1>1, <1>3, <1>4, <1>6, <2>1, AnswerOnce
<1> QED
  BY <1>2, <1>5, <1>6

\* Every step keeps to one stat per row and listing.
LEMMA OnceStep == ViewInv /\ StatsOnce /\ [Next]_vars => StatsOnce'
<1> SUFFICES ASSUME ViewInv, StatsOnce, [Next]_vars PROVE StatsOnce'
  OBVIOUS
<1> USE DEF place, model, queue, asked, shown
<1>1. ASSUME NEW d \in Dirs, Navigate(d) PROVE StatsOnce'
  BY <1>1, OnceKept DEF Navigate
<1>2. ASSUME NEW d \in Dirs, NEW f \in Content[d], NavigateToAndReveal(d, f) PROVE StatsOnce'
  BY <1>2, OnceKept DEF NavigateToAndReveal
<1>3. ASSUME NEW d \in Dirs, NEW rows \in SUBSET Content[d], Listed(d, rows) PROVE StatsOnce'
  BY <1>3, ListedOnce
<1>4. ASSUME NEW d \in Dirs, ListFailed(d) PROVE StatsOnce'
  BY <1>4, OnceKept DEF ListFailed, OnDirectoryListFailed
<1>5. ASSUME NEW f \in Files, NEW age \in Ages, StatAnswered(f, age) PROVE StatsOnce'
  BY <1>5, StatOnce
<1>6. CASE Reconnect
  <2>1. /\ entries' = {} /\ pendingPath' = Nothing /\ navigations' = navigations
        /\ stats' = [f \in Files |-> [age \in Ages |-> 0]] /\ requested' = {}
    BY <1>6 DEF Reconnect
  <2>2. navigations \in Nat /\ \A f \in Files : stats'[f]["fresh"] = 0 /\ stats'[f]["stale"] = 0
    BY <2>1 DEF ViewInv, TypeOK, Ages
  <2> QED
    BY <2>1, <2>2 DEF StatsOnce, ToCome
<1>7. CASE \/ \E f \in Files : OthersStat(f)
           \/ \E d \in Dirs : OthersList(d)
           \/ \E files \in Filters : Filter(files)
           \/ UNCHANGED vars
  BY <1>7, OnceKept DEF OthersStat, OthersList, Filter, vars
<1> QED
  BY <1>1, <1>2, <1>3, <1>4, <1>5, <1>6, <1>7 DEF Next

\* The inductive invariant holds in every reachable state; in particular no
\* file is asked about twice for the same listing, whoever's answers come.
THEOREM Invariance == Spec => []IInv
<1>1. Init => StatsOnce
  <2> SUFFICES ASSUME Init PROVE StatsOnce
    OBVIOUS
  <2>1. /\ entries = {} /\ pendingPath = Nothing /\ navigations = 0 /\ requested = {}
        /\ \A f \in Files : stats[f]["fresh"] = 0 /\ stats[f]["stale"] = 0
    BY DEF Init, Ages
  <2> QED
    BY <2>1 DEF StatsOnce, ToCome
<1> QED
  BY <1>1, OnceStep, ViewInvariance, PTL DEF Spec, IInv

\* Until a listing replaces the rows, nothing takes a count away again, and a
\* slot is freed only by a row that gets one: with AnswersOwed, a listing of n
\* files has its counts after n answers, unless one that is owed never comes.
THEOREM AnswersAdvance == Spec => CountsAdvance
<1> DEFINE Advance ==
      ~(pendingPath # Nothing /\ pendingPath' = Nothing)
        => Blank' \subseteq Blank /\ (inFlight' # inFlight => Blank' # Blank)
<1>1. ASSUME IInv, Next PROVE Advance
  <2> USE DEF place, model, queue, asked, shown
  <2>1. ViewInv /\ StatsOnce
    BY <1>1 DEF IInv
  <2>2. ASSUME UNCHANGED <<entries, nlink, inFlight>> PROVE Advance
    BY <2>2 DEF Blank
  <2>3. ASSUME NEW d \in Dirs, NEW rows \in SUBSET Content[d], Listed(d, rows) PROVE Advance
    <3>1. CASE d # pendingPath
      BY <2>2, <2>3, <3>1 DEF Listed, OnDirectoryListed
    <3>2. CASE d = pendingPath
      BY <2>3, <3>2 DEF Listed, OnDirectoryListed
    <3> QED
      BY <3>1, <3>2
  <2>4. ASSUME NEW f \in Files, NEW age \in Ages, StatAnswered(f, age) PROVE Advance
    BY <2>1, <2>4, StatOnce
  <2>5. CASE Reconnect
    <3>1. Blank' = {} /\ inFlight' = {}
      BY <2>5 DEF Reconnect, Blank
    <3>2. inFlight \subseteq Blank
      BY <2>1 DEF Blank, ViewInv, TypeOK, RowsAccounted
    <3> QED
      BY <3>1, <3>2
  <2>6. CASE \/ \E d \in Dirs : Navigate(d)
             \/ \E d \in Dirs : \E f \in Content[d] : NavigateToAndReveal(d, f)
             \/ \E d \in Dirs : ListFailed(d)
             \/ \E f \in Files : OthersStat(f)
             \/ \E d \in Dirs : OthersList(d)
             \/ \E files \in Filters : Filter(files)
    BY <2>2, <2>6 DEF Navigate, NavigateToAndReveal, ListFailed, OthersStat, OthersList, Filter
  <2> QED
    BY <1>1, <2>3, <2>4, <2>5, <2>6 DEF Next
<1>2. IInv /\ [Next]_vars => [Advance]_vars
  BY <1>1
<1> QED
  BY <1>2, Invariance, PTL DEF Spec, CountsAdvance
=============================================================================
