-------------------------- MODULE MatchCoverProofs --------------------------
(***************************************************************************)
(* Proofs about MatchSearcher, continued: a search that finishes has the   *)
(* files of both trees, for any finite tree of directories, any options,   *)
(* slots, number of searches and failures.                                 *)
(*                                                                         *)
(* What holds of all directories below a root is shown by looking at one   *)
(* for which it does not hold and whose path is least: its parent, on      *)
(* that path, has a smaller one.                                           *)
(***************************************************************************)
EXTENDS MatchSearcherProofs, WellFoundedInduction

USE MatchSearcherAssumption

-----------------------------------------------------------------------------
(***************************************************************************)
(* The tree.                                                               *)
(***************************************************************************)

\* Among some directories there is one whose path is least.
LEMMA LeastPath ==
  ASSUME NEW T \in SUBSET Dirs, T # {}
  PROVE  \E d \in T : \A e \in T : Above[e] \subseteq Above[d] => Above[e] = Above[d]
<1> DEFINE P == {Above[d] : d \in T}
           R == StrictSubsetOrdering(Dirs)
<1>1. IsWellFoundedOn(R, FiniteSubsetsOf(Dirs)) /\ FiniteSubsetsOf(Dirs) = SUBSET Dirs
  BY FS_StrictSubsetOrderingWellFounded, FS_FiniteSubsetsOfFinite
<1>2. P \subseteq SUBSET Dirs /\ P # {}
  OBVIOUS
<1> HIDE DEF P, R
<1>3. \E p \in P : \A q \in P : ~(<<q, p>> \in R)
  <2>1. IsWellFoundedOn(R, SUBSET Dirs)
    BY <1>1
  <2> QED
    BY <1>2, <2>1, WFMin
<1>4. PICK p \in P : \A q \in P : ~(<<q, p>> \in R)
  BY <1>3
<1>5. PICK d \in T : p = Above[d]
  BY <1>4 DEF P
<1>6. ASSUME NEW e \in T, Above[e] \subseteq Above[d] PROVE Above[e] = Above[d]
  <2>1. Above[e] \in P /\ Above[e] \in SUBSET Dirs /\ Above[d] \in SUBSET Dirs
    BY DEF P
  <2>2. ~(<<Above[e], Above[d]>> \in R)
    BY <1>4, <1>5, <2>1
  <2> QED
    BY <1>6, <2>1, <2>2 DEF R, StrictSubsetOrdering
<1> QED
  BY <1>6

\* The parent of a directory that is no root.
LEMMA Parent ==
  ASSUME NEW d \in Dirs, Above[d] # {}
  PROVE  \E p \in Above[d] :
           /\ p \in Dirs /\ d \in Children(p)
           /\ Above[d] = Above[p] \cup {p}
           /\ Above[p] \subseteq Above[d] /\ Above[p] # Above[d]
<1>1. PICK p \in Above[d] : Above[d] = Above[p] \cup {p}
  BY TreeAssumption
<1>2. p \in Dirs /\ p \notin Above[p]
  BY TreeAssumption
<1>3. d # p
  BY <1>1, <1>2
<1> QED
  BY <1>1, <1>2, <1>3 DEF Children

\* The path to a directory on a path is part of it.
LEMMA AboveTransitive ==
  ASSUME NEW d \in Dirs, NEW x \in Above[d]
  PROVE  /\ x \in Dirs /\ Above[x] \subseteq Above[d]
         /\ d \notin Above[x] /\ x # d
<1> DEFINE Bad == {e \in Dirs : \E y \in Above[e] : ~(Above[y] \subseteq Above[e])}
<1>1. Bad = {}
  <2> SUFFICES ASSUME Bad # {} PROVE FALSE
    OBVIOUS
  <2>1. PICK e \in Bad : \A c \in Bad : Above[c] \subseteq Above[e] => Above[c] = Above[e]
    <3>1. Bad \in SUBSET Dirs
      OBVIOUS
    <3> HIDE DEF Bad
    <3> QED
      BY <3>1, LeastPath
  <2>2. PICK y \in Above[e] : ~(Above[y] \subseteq Above[e])
    BY <2>1
  <2>3. e \in Dirs /\ Above[e] # {}
    BY <2>2
  <2>4. PICK p \in Above[e] : /\ p \in Dirs /\ Above[e] = Above[p] \cup {p}
                              /\ Above[p] \subseteq Above[e] /\ Above[p] # Above[e]
    BY <2>3, Parent
  <2>5. p \notin Bad
    BY <2>1, <2>4
  <2>6. CASE y = p
    BY <2>2, <2>4, <2>6
  <2>7. CASE y \in Above[p]
    <3>1. Above[y] \subseteq Above[p]
      BY <2>4, <2>5, <2>7
    <3> QED
      BY <2>2, <2>4, <3>1
  <2> QED
    BY <2>2, <2>4, <2>6, <2>7
<1>2. Above[x] \subseteq Above[d]
  BY <1>1
<1> QED
  BY <1>2, TreeAssumption

-----------------------------------------------------------------------------
(***************************************************************************)
(* What a search has seen and listed.                                      *)
(***************************************************************************)

\* A search that has seen its roots only has them to list.
LEMMA RootsCovered ==
  ASSUME NEW o \in Options
  PROVE  Covered(o, Roots(o), {})
<1>1. Roots(o) \subseteq Dirs
  BY DEF Roots, Options
<1>2. Roots(o) \subseteq Scope(o)
  BY <1>1 DEF Roots, Scope, SideMask, Sides
<1>3. ASSUME NEW r \in Roots(o) PROVE Under(r, r) /\ Way(r, r) = {}
  <2>1. r \in Dirs /\ r \notin Above[r]
    BY <1>1, TreeAssumption
  <2>2. \A x \in Above[r] : r \notin Above[x] /\ x # r
    BY <2>1, AboveTransitive
  <2> QED
    BY <2>2 DEF Under, Way
<1> QED
  BY <1>2, <1>3 DEF Covered

\* Listing a directory and enqueueing its subfolders in scope.
LEMMA ListingCovers ==
  ASSUME NEW o \in Options, NEW seen \in SUBSET Dirs, NEW listed \in SUBSET Dirs,
         Covered(o, seen, listed), NEW d \in seen,
         NEW new, new = (Children(d) \cap Scope(o)) \ seen
  PROVE  Covered(o, seen \cup new, listed \cup {d})
<1>1. /\ Roots(o) \subseteq seen /\ seen \subseteq Scope(o)
      /\ \A e \in seen : \E r \in Roots(o) : Under(r, e) /\ Way(r, e) \subseteq listed
      /\ \A e \in listed : Children(e) \cap Scope(o) \subseteq seen
  BY DEF Covered
<1>2. /\ Roots(o) \subseteq seen \cup new /\ seen \cup new \subseteq Scope(o)
      /\ \A e \in listed \cup {d} : Children(e) \cap Scope(o) \subseteq seen \cup new
  BY <1>1
<1>3. ASSUME NEW e \in new
      PROVE  \E r \in Roots(o) : Under(r, e) /\ Way(r, e) \subseteq listed \cup {d}
  <2>1. PICK r \in Roots(o) : Under(r, d) /\ Way(r, d) \subseteq listed
    BY <1>1
  <2>2. Above[e] = Above[d] \cup {d}
    BY DEF Children
  <2>3. Under(r, e)
    BY <2>1, <2>2 DEF Under
  <2>4. Way(r, e) \subseteq Way(r, d) \cup {d}
    BY <2>2 DEF Way
  <2> QED
    BY <2>1, <2>3, <2>4
<1>4. ASSUME NEW e \in seen
      PROVE  \E r \in Roots(o) : Under(r, e) /\ Way(r, e) \subseteq listed \cup {d}
  BY <1>1
<1> QED
  BY <1>2, <1>3, <1>4 DEF Covered

\* When every directory seen is listed or failed, those listed are the ones
\* that can be reached.
LEMMA CoveredAll ==
  ASSUME NEW o \in Options, NEW listed \in SUBSET Dirs, NEW failed \in SUBSET Dirs,
         listed \cap failed = {}, Covered(o, listed \cup failed, listed)
  PROVE  listed = Reachable(o, failed)
<1>1. /\ Roots(o) \subseteq listed \cup failed /\ listed \cup failed \subseteq Scope(o)
      /\ \A d \in listed \cup failed :
           \E r \in Roots(o) : Under(r, d) /\ Way(r, d) \subseteq listed
      /\ \A d \in listed : Children(d) \cap Scope(o) \subseteq listed \cup failed
  BY DEF Covered
<1>2. listed \subseteq Reachable(o, failed)
  <2>1. listed \subseteq Scope(o) \ failed
    BY <1>1
  <2> QED
    BY <1>1, <2>1 DEF Reachable
<1>3. Reachable(o, failed) \subseteq listed
  <2> DEFINE Bad == Reachable(o, failed) \ listed
  <2> SUFFICES ASSUME Bad # {} PROVE FALSE
    OBVIOUS
  <2>1. Bad \subseteq Dirs
    BY DEF Reachable, Scope
  <2>2. PICK d \in Bad : \A c \in Bad : Above[c] \subseteq Above[d] => Above[c] = Above[d]
    BY <2>1, LeastPath
  <2>3. d \in Dirs /\ d \in Scope(o) \ failed /\ d \notin listed
    BY <2>1, <2>2 DEF Reachable
  <2>4. PICK r \in Roots(o) : Under(r, d) /\ Way(r, d) \subseteq Scope(o) \ failed
    BY <2>2 DEF Reachable
  <2>5. CASE d = r
    BY <1>1, <2>3, <2>5
  <2>6. CASE r \in Above[d]
    <3>1. PICK p \in Above[d] : /\ p \in Dirs /\ d \in Children(p)
                                /\ Above[d] = Above[p] \cup {p}
                                /\ Above[p] \subseteq Above[d] /\ Above[p] # Above[d]
      BY <2>3, <2>6, Parent
    <3>2. Under(r, p) /\ p \in Way(r, d)
      BY <2>6, <3>1 DEF Under, Way
    <3>3. Way(r, p) \subseteq Way(r, d)
      BY <3>1 DEF Way
    <3>4. p \in Reachable(o, failed)
      BY <2>4, <3>2, <3>3 DEF Reachable
    <3>5. p \in listed
      BY <2>2, <3>1, <3>4
    <3> QED
      BY <1>1, <2>3, <3>1, <3>5
  <2> QED
    BY <2>4, <2>5, <2>6 DEF Under
<1> QED
  BY <1>2, <1>3

\* Without failures everything in scope can be reached.
LEMMA NothingMissing ==
  ASSUME NEW o \in Options
  PROVE  Reachable(o, {}) = Scope(o)
<1> SUFFICES ASSUME NEW d \in Scope(o)
             PROVE  \E r \in Roots(o) : Under(r, d) /\ Way(r, d) \subseteq Scope(o)
  BY DEF Reachable
<1>1. d \in Dirs
  BY DEF Scope
<1>2. ASSUME NEW r \in Roots(o), r \in Dirs, Under(r, d),
             \A x \in Dirs : r \in Above[x] /\ r \in Above[d] => x \in Scope(o),
             r \in Scope(o)
      PROVE  Way(r, d) \subseteq Scope(o)
  <2> SUFFICES ASSUME NEW x \in Above[d], Under(r, x) PROVE x \in Scope(o)
    BY DEF Way
  <2>1. x \in Dirs /\ d \notin Above[x] /\ x # d /\ Above[x] \subseteq Above[d]
    BY <1>1, AboveTransitive
  <2>2. CASE x = r
    BY <1>2, <2>2
  <2>3. CASE r \in Above[x]
    <3>1. r \in Above[d]
      BY <2>1, <2>3
    <3> QED
      BY <1>2, <2>1, <2>3, <3>1
  <2> QED
    BY <2>2, <2>3 DEF Under
<1>3. o.primary \in Roots(o) /\ o.secondary \in Roots(o) /\ Roots(o) \subseteq Scope(o)
  BY RootsCovered DEF Roots, Covered
<1>4. CASE d = o.primary \/ (o.primaryRecursive /\ o.primary \in Above[d])
  <2>1. Under(o.primary, d) /\ o.primary \in Dirs
    BY <1>4 DEF Under, Options
  <2>2. \A x \in Dirs : o.primary \in Above[x] /\ o.primary \in Above[d] => x \in Scope(o)
    BY <1>4, <1>1, TreeAssumption DEF Scope, SideMask, Sides
  <2> QED
    BY <1>2, <1>3, <2>1, <2>2
<1>5. CASE d = o.secondary \/ (o.secondaryRecursive /\ o.secondary \in Above[d])
  <2>1. Under(o.secondary, d) /\ o.secondary \in Dirs
    BY <1>5 DEF Under, Options
  <2>2. \A x \in Dirs : o.secondary \in Above[x] /\ o.secondary \in Above[d] => x \in Scope(o)
    BY <1>5, <1>1, TreeAssumption DEF Scope, SideMask, Sides
  <2> QED
    BY <1>2, <1>3, <2>1, <2>2
<1> QED
  BY <1>4, <1>5 DEF Scope, SideMask

\* Each directory that fails adds one to the errors.
LEMMA FailuresCounted ==
  ASSUME NEW s \in Seq(Dirs), NoRepeats(s), NEW bad \in SUBSET DOMAIN s,
         NEW failed \in SUBSET Dirs, failed \cap SeqSet(s) = {}
  PROVE  /\ Cardinality(bad) \in Nat
         /\ Cardinality(failed \cup {s[i] : i \in bad})
              = Cardinality(failed) + Cardinality(bad)
<1> DEFINE lost == {s[i] : i \in bad}
           f == [i \in bad |-> s[i]]
<1>1. DOMAIN s = 1..Len(s) /\ Len(s) \in Nat /\ \A i \in DOMAIN s : s[i] \in Dirs
  BY LenProperties, ElementOfSeq
<1>2. IsFiniteSet(bad) /\ Cardinality(bad) \in Nat
  <2>1. IsFiniteSet(1..Len(s))
    BY <1>1, FS_Interval
  <2> QED
    BY <1>1, <2>1, FS_Subset, FS_CardinalityType
<1>3. f \in Bijection(bad, lost)
  BY DEF Bijection, Injection, Surjection, IsInjective, NoRepeats
<1> HIDE DEF f
<1>4. IsFiniteSet(lost) /\ Cardinality(lost) = Cardinality(bad)
  <2>1. ExistsBijection(bad, lost)
    BY <1>3 DEF ExistsBijection
  <2> HIDE DEF lost
  <2> QED
    BY <1>2, <2>1, FS_Bijection
<1>5. IsFiniteSet(failed) /\ Cardinality(failed) \in Nat
  BY FS_Subset, FS_CardinalityType
<1>6. failed \cap lost = {}
  BY DEF SeqSet
<1> HIDE DEF lost
<1>7. Cardinality(failed \cup lost)
        = Cardinality(failed) + Cardinality(lost) - Cardinality(failed \cap lost)
  BY <1>4, <1>5, FS_Union
<1>8. Cardinality(failed \cap lost) = 0
  BY <1>6, FS_EmptySet
<1>9. Cardinality(failed \cup lost) = Cardinality(failed) + Cardinality(bad)
  BY <1>2, <1>4, <1>5, <1>7, <1>8
<1> QED
  BY <1>2, <1>9 DEF lost

-----------------------------------------------------------------------------
(***************************************************************************)
(* The steps.                                                              *)
(***************************************************************************)

\* A search w as the pump finds it, its cover included.
CoveredBy(o, w) ==
  /\ Covered(o, w.visited, SeqSet(w.files))
  /\ w.errors = Cardinality(w.failed)

\* A search that is over without a result.
LEMMA EndCovers ==
  ASSUME running' = FALSE, outcome' # "matches"
  PROVE  CoverInv' /\ ResultCoversTrees'
BY DEF CoverInv, ResultCoversTrees

\* The pump takes nothing from what was seen and listed, and when it ends the
\* search all that was seen is listed or counted as an error.
LEMMA PumpCovers ==
  ASSUME NEW o \in Options, NEW w, Sound(w), CoveredBy(o, w), PumpListings(o, w),
         options' = o
  PROVE  CoverInv' /\ ResultCoversTrees'
<1> DEFINE L == Len(w.queue)
<1>1. PICK n \in 0..L : \E bad \in SUBSET (1..n) :
        LET pending == Pending(w, n, bad)
            rest    == SubSeq(w.queue, n + 1, Len(w.queue))
            errors  == w.errors + Cardinality(bad)
        IN
        /\ LoopEndsAt(o, w, n, bad)
        /\ asked' = [d \in Dirs |-> IF d \in pending \ w.inFlight THEN w.asked[d] + 1
                                                                 ELSE w.asked[d]]
        /\ failedDirs' = w.failed \cup {w.queue[i] : i \in bad}
        /\ \/ RootDeclined(o, w, bad) /\ SearchFails
           \/ /\ ~RootDeclined(o, w, bad) /\ rest = <<>> /\ pending = {}
              /\ SearchFinishes(w.files, errors)
           \/ /\ ~RootDeclined(o, w, bad) /\ ~(rest = <<>> /\ pending = {})
              /\ SearchGoesOn(w, rest, pending, errors)
  BY Zenon DEF PumpListings
<1>2. PICK bad \in SUBSET (1..n) :
        LET pending == Pending(w, n, bad)
            rest    == SubSeq(w.queue, n + 1, Len(w.queue))
            errors  == w.errors + Cardinality(bad)
        IN
        /\ failedDirs' = w.failed \cup {w.queue[i] : i \in bad}
        /\ \/ RootDeclined(o, w, bad) /\ SearchFails
           \/ /\ ~RootDeclined(o, w, bad) /\ rest = <<>> /\ pending = {}
              /\ SearchFinishes(w.files, errors)
           \/ /\ ~RootDeclined(o, w, bad) /\ ~(rest = <<>> /\ pending = {})
              /\ SearchGoesOn(w, rest, pending, errors)
  BY <1>1
<1> DEFINE pending == Pending(w, n, bad)
           rest    == SubSeq(w.queue, n + 1, Len(w.queue))
           errors  == w.errors + Cardinality(bad)
           lost    == {w.queue[i] : i \in bad}
           failed  == w.failed \cup lost
<1>3. /\ w.queue \in Seq(Dirs) /\ NoRepeats(w.queue) /\ L \in Nat
      /\ DOMAIN w.queue = 1..L /\ 1..n \subseteq 1..L /\ bad \in SUBSET DOMAIN w.queue
      /\ w.failed \in SUBSET Dirs /\ w.failed \cap SeqSet(w.queue) = {}
  <2>1. w.queue \in Seq(Dirs) /\ NoRepeats(w.queue) /\ w.failed \in SUBSET Dirs
    BY DEF Sound
  <2>2. L \in Nat /\ DOMAIN w.queue = 1..L
    BY <2>1, LenProperties
  <2>3. 1..n \subseteq 1..L
    BY <2>2
  <2>4. w.failed \cap SeqSet(w.queue) = {}
    BY DEF Sound, Places
  <2> QED
    BY <2>1, <2>2, <2>3, <2>4
<1>4. failedDirs' = failed /\ errors = Cardinality(failed)
  <2>1. Cardinality(failed) = Cardinality(w.failed) + Cardinality(bad)
    BY <1>3, FailuresCounted
  <2> QED
    BY <1>2, <2>1 DEF CoveredBy
<1>5. CASE RootDeclined(o, w, bad) /\ SearchFails
  BY <1>5, EndCovers DEF SearchFails
<1>6. CASE /\ ~RootDeclined(o, w, bad) /\ rest = <<>> /\ pending = {}
           /\ SearchFinishes(w.files, errors)
  <2> DEFINE F == SeqSet(w.files)
  <2>1. /\ running' = FALSE /\ outcome' = "matches"
        /\ result' = [files |-> w.files, errors |-> errors]
    BY <1>6 DEF SearchFinishes
  <2>2. /\ Places(w.visited, SeqSet(w.queue), w.inFlight, F, w.failed)
        /\ NoRepeats(w.files) /\ F \in SUBSET Dirs
    <3>1. w.files \in Seq(Dirs)
      BY DEF Sound
    <3>2. SeqSet(w.files) \subseteq Dirs
      BY <3>1, LenProperties, ElementOfSeq DEF SeqSet
    <3> QED
      BY <3>2 DEF Sound
  <2>3. w.inFlight = {} /\ \A i \in (1..n) \ bad : FALSE
    BY <1>6 DEF Pending
  <2>4. SeqSet(w.queue) = lost
    <3>1. SeqSet(rest) = {w.queue[i] : i \in (n + 1)..L} /\ SeqSet(rest) = {}
      BY <1>3, <1>6, RestOnce, EmptyOnce
    <3>2. \A i \in 1..L : i \in bad \/ i \in (n + 1)..L
      BY <1>3, <2>3
    <3>3. \A i \in 1..L : i \in bad
      BY <3>1, <3>2
    <3> QED
      BY <1>3, <3>3 DEF SeqSet
  <2>5. w.visited = F \cup failed /\ F \cap failed = {} /\ failed \in SUBSET Dirs
    <3>1. lost \subseteq Dirs
      <4>1. \A i \in 1..L : w.queue[i] \in Dirs
        BY <1>3, ElementOfSeq
      <4> QED
        BY <1>3, <4>1
    <3> HIDE DEF F, lost
    <3> QED
      BY <1>3, <2>2, <2>3, <2>4, <3>1 DEF Places
  <2>6. Covered(o, F \cup failed, F)
    BY <2>5 DEF CoveredBy
  <2> HIDE DEF F, failed, errors
  <2>7. F = Reachable(o, failed)
    BY <2>2, <2>5, <2>6, CoveredAll
  <2>8. failed = {} => Reachable(o, failed) = Scope(o)
    BY NothingMissing
  <2>9. /\ NoRepeats(result'.files) /\ SeqSet(result'.files) = Reachable(options', failedDirs')
        /\ result'.errors = Cardinality(failedDirs')
        /\ failedDirs' = {} => Reachable(options', failedDirs') = Scope(options')
    BY <1>4, <2>1, <2>2, <2>7, <2>8 DEF F
  <2>10. CoverInv'
    BY <2>1 DEF CoverInv
  <2> QED
    BY <2>9, <2>10 DEF ResultCoversTrees
<1>7. CASE SearchGoesOn(w, rest, pending, errors)
  <2>1. /\ outcome' = "none" /\ visited' = w.visited /\ files' = w.files
        /\ folderErrors' = errors
    BY <1>7 DEF SearchGoesOn
  <2> HIDE DEF failed, errors
  <2>2. Covered(options', visited', SeqSet(files')) /\ folderErrors' = Cardinality(failedDirs')
    BY <1>4, <2>1 DEF CoveredBy
  <2> QED
    BY <2>1, <2>2 DEF CoverInv, ResultCoversTrees
<1> QED
  BY <1>2, <1>5, <1>6, <1>7

\* A search that starts.
LEMMA StartCovers ==
  ASSUME QueueInv, NEW o \in OptionSet, Start(o)
  PROVE  CoverInv' /\ ResultCoversTrees'
<1> DEFINE w == [visited |-> Roots(o), queue |-> RootQueue(o), inFlight |-> {},
                 files |-> <<>>, errors |-> 0, failed |-> {}, asked |-> asked]
<1>1. PumpListings(o, w) /\ options' = o /\ o \in Options
  BY DEF Start
<1>2. Sound(w)
  BY RootsSound DEF QueueInv
<1>3. CoveredBy(o, w)
  <2>1. Covered(o, Roots(o), SeqSet(<<>>))
    BY <1>1, RootsCovered, EmptyOnce
  <2>2. Cardinality({}) = 0
    BY FS_EmptySet
  <2> QED
    BY <2>1, <2>2 DEF CoveredBy
<1> HIDE DEF w
<1> QED
  BY <1>1, <1>2, <1>3, PumpCovers

\* A folder is listed.
LEMMA ListedCovers ==
  ASSUME QueueInv, CoverInv, NEW d \in Dirs, NEW left \in [Dirs -> Nat],
         \A e \in Dirs \ {d} : left[e] = asked[e],
         running, d \in inFlight, OnDirectoryListed(d, left)
  PROVE  CoverInv' /\ ResultCoversTrees'
<1> DEFINE subs == {e \in Children(d) : SideMask(options, e) # {}} \ visited
<1>1. PICK new \in Orders(subs) :
        /\ PumpListings(options,
             [visited |-> visited \cup SeqSet(new), queue |-> queue \o new,
              inFlight |-> inFlight \ {d}, files |-> Append(files, d),
              errors |-> folderErrors, failed |-> failedDirs, asked |-> left])
        /\ UNCHANGED options
  BY DEF OnDirectoryListed
<1> DEFINE w == [visited |-> visited \cup SeqSet(new), queue |-> queue \o new,
                 inFlight |-> inFlight \ {d}, files |-> Append(files, d),
                 errors |-> folderErrors, failed |-> failedDirs, asked |-> left]
<1>2. Sound(w)
  BY <1>1, ListedSound
<1>3. /\ visited \in SUBSET Dirs /\ d \in visited /\ files \in Seq(Dirs)
      /\ options \in Options
  <2>1. /\ visited \subseteq Dirs /\ files \in Seq(Dirs)
        /\ Places(visited, SeqSet(queue), inFlight, SeqSet(files), failedDirs)
    BY RunningParts
  <2> QED
    BY <2>1 DEF Places, QueueInv, TypeOK
<1>4. subs \in SUBSET Dirs /\ subs = (Children(d) \cap Scope(options)) \ visited
  BY DEF Children, Scope
<1> HIDE DEF subs
<1>5. SeqSet(new) = subs /\ SeqSet(Append(files, d)) = SeqSet(files) \cup {d}
  BY <1>3, <1>4, OrdersOnce, AppendOnce
<1>6. SeqSet(files) \in SUBSET Dirs
  BY <1>3, LenProperties, ElementOfSeq DEF SeqSet
<1>7. Covered(options, visited \cup subs, SeqSet(files) \cup {d})
  <2>1. Covered(options, visited, SeqSet(files))
    BY DEF CoverInv
  <2> QED
    BY <1>3, <1>4, <1>6, <2>1, ListingCovers
<1>8. CoveredBy(options, w)
  BY <1>5, <1>7 DEF CoveredBy, CoverInv
<1>9. PumpListings(options, w) /\ options' = options
  BY <1>1
<1> HIDE DEF w
<1> QED
  BY <1>2, <1>3, <1>8, <1>9, PumpCovers

\* A folder cannot be listed.
LEMMA FailedCovers ==
  ASSUME QueueInv, CoverInv, NEW d \in Dirs, NEW left \in [Dirs -> Nat],
         \A e \in Dirs \ {d} : left[e] = asked[e],
         running, d \in inFlight, OnDirectoryListFailed(d, left)
  PROVE  CoverInv' /\ ResultCoversTrees'
<1>1. CASE d \in Roots(options)
  <2>1. SearchFails
    BY <1>1 DEF OnDirectoryListFailed
  <2> QED
    BY <2>1, EndCovers DEF SearchFails
<1>2. CASE d \notin Roots(options)
  <2> DEFINE w == [visited |-> visited, queue |-> queue, inFlight |-> inFlight \ {d},
                   files |-> files, errors |-> folderErrors + 1,
                   failed |-> failedDirs \cup {d}, asked |-> left]
  <2>1. PumpListings(options, w) /\ options' = options
    BY <1>2 DEF OnDirectoryListFailed
  <2>2. Sound(w)
    BY <1>2, FailedSound
  <2>3. d \notin failedDirs /\ failedDirs \subseteq Dirs /\ options \in Options
    <3>1. /\ failedDirs \subseteq Dirs
          /\ Places(visited, SeqSet(queue), inFlight, SeqSet(files), failedDirs)
      BY RunningParts
    <3> QED
      BY <3>1 DEF Places, QueueInv, TypeOK
  <2>4. Cardinality(failedDirs \cup {d}) = Cardinality(failedDirs) + 1
    <3>1. IsFiniteSet(failedDirs)
      BY <2>3, FS_Subset
    <3> QED
      BY <2>3, <3>1, FS_AddElement
  <2>5. CoveredBy(options, w)
    BY <2>4 DEF CoveredBy, CoverInv
  <2> HIDE DEF w
  <2> QED
    BY <2>1, <2>2, <2>3, <2>5, PumpCovers
<1> QED
  BY <1>1, <1>2

\* A step that is none of the search's business.
LEMMA UntouchedCovers ==
  ASSUME CoverInv, ResultCoversTrees,
         UNCHANGED <<options, running, visited, files, folderErrors, outcome, result,
                     failedDirs>>
  PROVE  CoverInv' /\ ResultCoversTrees'
BY DEF CoverInv, ResultCoversTrees

\* Whoever asked, the answer to a listing keeps the cover.
LEMMA AnswerCovers ==
  ASSUME QueueInv, CoverInv, ResultCoversTrees, NEW d \in Dirs, Listed(d) \/ Failed(d)
  PROVE  CoverInv' /\ ResultCoversTrees'
<1>1. PICK left \in [Dirs -> Nat] :
        /\ OnDirectoryListed(d, left) \/ OnDirectoryListFailed(d, left)
        /\ \A e \in Dirs \ {d} : left[e] = asked[e]
  BY AnswerLeaves
<1>2. CASE ~running \/ d \notin inFlight
  <2>1. Ignored(left)
    BY <1>1, <1>2 DEF OnDirectoryListed, OnDirectoryListFailed
  <2> QED
    BY <2>1, UntouchedCovers DEF Ignored, members, signals
<1>3. CASE running /\ d \in inFlight
  BY <1>1, <1>3, ListedCovers, FailedCovers
<1> QED
  BY <1>2, <1>3

\* What was seen and listed covers what is left to do, in every step of a
\* search, and the result covers the trees.
LEMMA CoverStep ==
  QueueInv /\ CoverInv /\ ResultCoversTrees /\ [Next]_vars
    => CoverInv' /\ ResultCoversTrees'
<1> SUFFICES ASSUME QueueInv, CoverInv, ResultCoversTrees, [Next]_vars
             PROVE  CoverInv' /\ ResultCoversTrees'
  OBVIOUS
<1>1. ASSUME NEW o \in OptionSet, Start(o) PROVE CoverInv' /\ ResultCoversTrees'
  BY <1>1, StartCovers
<1>2. CASE Cancel
  BY <1>2, EndCovers DEF Cancel
<1>3. ASSUME NEW d \in Dirs, Listed(d) \/ Failed(d) PROVE CoverInv' /\ ResultCoversTrees'
  BY <1>3, AnswerCovers
<1>4. CASE Disconnect
  <2>1. CoverInv'
    BY <1>4 DEF Disconnect, CoverInv
  <2>2. ResultCoversTrees'
    BY <1>4 DEF Disconnect, signals, ResultCoversTrees
  <2> QED
    BY <2>1, <2>2
<1>5. CASE \/ \E d \in Dirs : OthersAsk(d)
           \/ Reconnect
           \/ UNCHANGED vars
  BY <1>5, UntouchedCovers DEF OthersAsk, Reconnect, vars, members, signals
<1> QED
  BY <1>1, <1>2, <1>3, <1>4, <1>5 DEF Next

\* Both at once.
LEMMA CoverAlways == Spec => [](CoverInv /\ ResultCoversTrees)
<1>1. Init => CoverInv /\ ResultCoversTrees
  BY DEF Init, CoverInv, ResultCoversTrees
<1> QED
  BY <1>1, CoverStep, QueueInvariance, PTL DEF Spec

\* Each directory of a search is in one place, no search waits for what nobody
\* owes it, it keeps to its slots and asks for no path twice, and what it has
\* seen and listed covers what is left to do.
THEOREM Invariance == Spec => []IInv
BY QueueInvariance, SlotsKept, CoverAlways, PTL DEF IInv

\* ResultCoversTrees for any share, options and slots: the files a search
\* reports come from each directory of the two trees once, save those below a
\* directory that could not be listed, each of which is counted.
THEOREM TreesCovered == Spec => []ResultCoversTrees
BY CoverAlways, PTL
=============================================================================
