------------------------- MODULE MatchSearcherProofs -------------------------
(***************************************************************************)
(* Proofs about MatchSearcher, for any finite tree of directories, any     *)
(* options, slots and number of searches:                                  *)
(*   - the invariant QueueInv is inductive: each directory is in one       *)
(*     place;                                                              *)
(*   - a search never waits for what nobody owes it;                       *)
(*   - a search that is over changes nothing any more;                     *)
(*   - a search keeps to its slots, asks for no path twice, and settles    *)
(*     another directory with each answer.                                 *)
(***************************************************************************)
EXTENDS MatchSearcher, SequenceTheorems, FiniteSetTheorems, TLAPS

USE MatchSearcherAssumption

-----------------------------------------------------------------------------
(***************************************************************************)
(* Sequences without repeats.                                              *)
(***************************************************************************)
LEMMA EmptyOnce == NoRepeats(<<>>) /\ SeqSet(<<>>) = {}
BY DEF NoRepeats, SeqSet

LEMMA AppendOnce ==
  ASSUME NEW s \in Seq(Dirs), NEW d \in Dirs
  PROVE  /\ Append(s, d) \in Seq(Dirs)
         /\ SeqSet(Append(s, d)) = SeqSet(s) \cup {d}
         /\ NoRepeats(s) /\ d \notin SeqSet(s) => NoRepeats(Append(s, d))
<1> DEFINE t == Append(s, d)
<1>1. /\ t \in Seq(Dirs) /\ Len(t) = Len(s) + 1
      /\ \A i \in 1..Len(s) : t[i] = s[i]
      /\ t[Len(s) + 1] = d
  BY AppendProperties
<1>2. Len(s) \in Nat /\ DOMAIN s = 1..Len(s) /\ DOMAIN t = 1..(Len(s) + 1)
  BY <1>1, LenProperties
<1> HIDE DEF t
<1>3. SeqSet(t) = SeqSet(s) \cup {d}
  <2>1. ASSUME NEW x \in SeqSet(t) PROVE x \in SeqSet(s) \cup {d}
    <3>1. PICK i \in 1..(Len(s) + 1) : x = t[i]
      BY <1>2, <2>1 DEF SeqSet
    <3>2. i \in 1..Len(s) \/ i = Len(s) + 1
      BY <1>2
    <3> QED
      BY <1>1, <1>2, <3>1, <3>2 DEF SeqSet
  <2>2. ASSUME NEW x \in SeqSet(s) PROVE x \in SeqSet(t)
    <3>1. PICK i \in 1..Len(s) : x = s[i]
      BY <1>2, <2>2 DEF SeqSet
    <3>2. i \in 1..(Len(s) + 1)
      BY <1>2
    <3> QED
      BY <1>1, <1>2, <3>1, <3>2 DEF SeqSet
  <2>3. d \in SeqSet(t)
    <3>1. Len(s) + 1 \in 1..(Len(s) + 1)
      BY <1>2
    <3> QED
      BY <1>1, <1>2, <3>1 DEF SeqSet
  <2> QED
    BY <2>1, <2>2, <2>3
<1>4. NoRepeats(s) /\ d \notin SeqSet(s) => NoRepeats(t)
  BY <1>1, <1>2 DEF NoRepeats, SeqSet
<1> QED
  BY <1>1, <1>3, <1>4 DEF t

LEMMA ConcatOnce ==
  ASSUME NEW s \in Seq(Dirs), NEW t \in Seq(Dirs)
  PROVE  /\ s \o t \in Seq(Dirs)
         /\ SeqSet(s \o t) = SeqSet(s) \cup SeqSet(t)
         /\ NoRepeats(s) /\ NoRepeats(t) /\ SeqSet(s) \cap SeqSet(t) = {}
              => NoRepeats(s \o t)
<1> DEFINE u == s \o t
<1>1. /\ u \in Seq(Dirs) /\ Len(u) = Len(s) + Len(t)
      /\ \A i \in 1..(Len(s) + Len(t)) : u[i] = IF i <= Len(s) THEN s[i] ELSE t[i - Len(s)]
  BY ConcatProperties
<1>2. /\ Len(s) \in Nat /\ Len(t) \in Nat
      /\ DOMAIN s = 1..Len(s) /\ DOMAIN t = 1..Len(t) /\ DOMAIN u = 1..(Len(s) + Len(t))
  BY <1>1, LenProperties
<1> HIDE DEF u
<1>3. /\ \A i \in 1..Len(s) : i \in 1..(Len(s) + Len(t)) /\ u[i] = s[i]
      /\ \A i \in 1..Len(t) : Len(s) + i \in 1..(Len(s) + Len(t)) /\ u[Len(s) + i] = t[i]
  <2>1. \A i \in 1..Len(s) : i \in 1..(Len(s) + Len(t)) /\ i <= Len(s)
    BY <1>2
  <2>2. \A i \in 1..Len(t) : /\ Len(s) + i \in 1..(Len(s) + Len(t))
                             /\ ~(Len(s) + i <= Len(s)) /\ (Len(s) + i) - Len(s) = i
    BY <1>2
  <2> QED
    BY <1>1, <2>1, <2>2
<1>4. SeqSet(u) = SeqSet(s) \cup SeqSet(t)
  <2>1. ASSUME NEW x \in SeqSet(u) PROVE x \in SeqSet(s) \cup SeqSet(t)
    <3>1. PICK i \in 1..(Len(s) + Len(t)) : x = u[i]
      BY <1>2, <2>1 DEF SeqSet
    <3>2. CASE i <= Len(s)
      <4>1. i \in 1..Len(s) /\ u[i] = s[i]
        BY <1>1, <1>2, <3>2
      <4> QED
        BY <1>2, <3>1, <4>1 DEF SeqSet
    <3>3. CASE ~(i <= Len(s))
      <4>1. i - Len(s) \in 1..Len(t) /\ u[i] = t[i - Len(s)]
        BY <1>1, <1>2, <3>3
      <4> QED
        BY <1>2, <3>1, <4>1 DEF SeqSet
    <3> QED
      BY <3>2, <3>3
  <2>2. ASSUME NEW x \in SeqSet(s) PROVE x \in SeqSet(u)
    BY <1>2, <1>3, <2>2 DEF SeqSet
  <2>3. ASSUME NEW x \in SeqSet(t) PROVE x \in SeqSet(u)
    BY <1>2, <1>3, <2>3 DEF SeqSet
  <2> QED
    BY <2>1, <2>2, <2>3
<1>5. ASSUME NoRepeats(s), NoRepeats(t), SeqSet(s) \cap SeqSet(t) = {}
      PROVE  NoRepeats(u)
  <2> SUFFICES ASSUME NEW i \in 1..(Len(s) + Len(t)), NEW k \in 1..(Len(s) + Len(t)),
                      u[i] = u[k]
               PROVE  i = k
    BY <1>2 DEF NoRepeats
  <2>1. \A j \in 1..(Len(s) + Len(t)) :
          \/ j \in DOMAIN s /\ u[j] = s[j]
          \/ j - Len(s) \in DOMAIN t /\ u[j] = t[j - Len(s)]
    BY <1>1, <1>2
  <2>2. \A a \in DOMAIN s, b \in DOMAIN t : s[a] # t[b]
    BY <1>5 DEF SeqSet
  <2>3. CASE i \in DOMAIN s /\ u[i] = s[i] /\ k \in DOMAIN s /\ u[k] = s[k]
    BY <1>5, <2>3 DEF NoRepeats
  <2>4. CASE /\ i - Len(s) \in DOMAIN t /\ u[i] = t[i - Len(s)]
             /\ k - Len(s) \in DOMAIN t /\ u[k] = t[k - Len(s)]
    <3>1. i - Len(s) = k - Len(s)
      BY <1>5, <2>4 DEF NoRepeats
    <3> QED
      BY <1>2, <3>1
  <2> QED
    BY <2>1, <2>2, <2>3, <2>4
<1> QED
  BY <1>1, <1>4, <1>5 DEF u

\* The rest of a sequence after its first n.
LEMMA RestOnce ==
  ASSUME NEW s \in Seq(Dirs), NoRepeats(s), NEW n \in 0..Len(s)
  PROVE  /\ SubSeq(s, n + 1, Len(s)) \in Seq(Dirs)
         /\ NoRepeats(SubSeq(s, n + 1, Len(s)))
         /\ SeqSet(SubSeq(s, n + 1, Len(s))) = {s[i] : i \in (n + 1)..Len(s)}
         /\ n = Len(s) => SubSeq(s, n + 1, Len(s)) = <<>>
<1> DEFINE t == SubSeq(s, n + 1, Len(s))
<1>1. Len(s) \in Nat /\ DOMAIN s = 1..Len(s) /\ \A i \in 1..Len(s) : s[i] \in Dirs
  BY LenProperties, ElementOfSeq
<1>2. /\ t \in Seq(Dirs) /\ Len(t) = Len(s) - n
      /\ \A i \in 1..(Len(s) - n) : t[i] = s[n + i]
  <2>1. n + 1 \in Int /\ Len(s) \in Int /\ \A i \in (n + 1)..Len(s) : s[i] \in Dirs
    BY <1>1
  <2>2. /\ t \in Seq(Dirs)
        /\ Len(t) = IF n + 1 <= Len(s) THEN Len(s) - (n + 1) + 1 ELSE 0
        /\ \A i \in 1..(Len(s) - (n + 1) + 1) : t[i] = s[(n + 1) + i - 1]
    BY <2>1, SubSeqProperties
  <2> HIDE DEF t
  <2>3. Len(t) = Len(s) - n /\ Len(s) - (n + 1) + 1 = Len(s) - n
    <3>1. ASSUME NEW m \in Nat, n \in 0..m
          PROVE  /\ m - (n + 1) + 1 = m - n
                 /\ (IF n + 1 <= m THEN m - (n + 1) + 1 ELSE 0) = m - n
      BY <3>1
    <3> QED
      BY <1>1, <2>2, <3>1
  <2>4. ASSUME NEW i \in 1..(Len(s) - n) PROVE t[i] = s[n + i]
    <3>1. t[i] = s[(n + 1) + i - 1]
      BY <2>2, <2>3
    <3>2. (n + 1) + i - 1 = n + i
      BY <1>1
    <3> QED
      BY <3>1, <3>2
  <2> QED
    BY <2>2, <2>3, <2>4
<1>3. DOMAIN t = 1..(Len(s) - n)
  BY <1>2, LenProperties
<1> HIDE DEF t
<1>4. NoRepeats(t)
  <2> SUFFICES ASSUME NEW i \in 1..(Len(s) - n), NEW k \in 1..(Len(s) - n), t[i] = t[k]
               PROVE  i = k
    BY <1>3 DEF NoRepeats
  <2>1. n + i \in DOMAIN s /\ n + k \in DOMAIN s /\ s[n + i] = s[n + k]
    BY <1>1, <1>2
  <2>2. n + i = n + k
    BY <2>1 DEF NoRepeats
  <2> QED
    BY <1>1, <2>2
<1>5. SeqSet(t) = {s[i] : i \in (n + 1)..Len(s)}
  <2>1. ASSUME NEW i \in (n + 1)..Len(s) PROVE s[i] \in SeqSet(t)
    <3>1. i - n \in 1..(Len(s) - n) /\ n + (i - n) = i
      BY <1>1
    <3> QED
      BY <1>2, <1>3, <3>1 DEF SeqSet
  <2>2. ASSUME NEW i \in 1..(Len(s) - n) PROVE t[i] \in {s[j] : j \in (n + 1)..Len(s)}
    <3>1. n + i \in (n + 1)..Len(s)
      BY <1>1
    <3> QED
      BY <1>2, <3>1
  <2> QED
    BY <1>3, <2>1, <2>2 DEF SeqSet
<1>6. n = Len(s) => t = <<>>
  <2> SUFFICES ASSUME n = Len(s) PROVE t = <<>>
    OBVIOUS
  <2>1. Len(t) = 0
    BY <1>1, <1>2
  <2> QED
    BY <1>2, <2>1, EmptySeq
<1> QED
  BY <1>2, <1>4, <1>5, <1>6 DEF t

\* The server's order of the subfolders names each once.
LEMMA OrdersOnce ==
  ASSUME NEW S \in SUBSET Dirs, NEW s \in Orders(S)
  PROVE  s \in Seq(Dirs) /\ SeqSet(s) = S /\ NoRepeats(s)
<1> DEFINE n == Cardinality(S)
<1>1. IsFiniteSet(S) /\ n \in Nat
  BY FS_Subset, FS_CardinalityType
<1>2. s \in [1..n -> S] /\ SeqSet(s) = S
  BY DEF Orders
<1>3. IsFiniteSet(1..n) /\ Cardinality(1..n) = n
  <2> SUFFICES ASSUME NEW m \in Nat PROVE IsFiniteSet(1..m) /\ Cardinality(1..m) = m
    BY <1>1
  <2>1. IsFiniteSet(1..m) /\ Cardinality(1..m) = IF 1 > m THEN 0 ELSE m - 1 + 1
    BY FS_Interval
  <2> QED
    BY <2>1
<1>4. s \in Surjection(1..n, S)
  BY <1>2 DEF Surjection, SeqSet
<1>5. s \in Injection(1..n, S)
  BY <1>3, <1>4, FS_SurjSameCardinalityImpliesInj
<1>6. NoRepeats(s)
  BY <1>2, <1>5 DEF Injection, IsInjective, NoRepeats
<1>7. s \in Seq(Dirs)
  <2>1. s \in [1..n -> Dirs]
    BY <1>2
  <2> QED
    BY <1>1, <2>1, SeqDef
<1> QED
  BY <1>2, <1>6, <1>7

-----------------------------------------------------------------------------
(***************************************************************************)
(* The four places of a directory, without tuples and unions.              *)
(***************************************************************************)
Places(v, a, b, c, d) ==
  /\ v = a \cup b \cup c \cup d
  /\ a \cap b = {} /\ a \cap c = {} /\ a \cap d = {}
  /\ b \cap c = {} /\ b \cap d = {} /\ c \cap d = {}

LEMMA OnceIsPlaces ==
  EachDirOnce <=>
    /\ NoRepeats(queue) /\ NoRepeats(files)
    /\ ~running => visited = {}
    /\ Places(visited, SeqSet(queue), inFlight, SeqSet(files),
              IF running THEN failedDirs ELSE {})
<1> DEFINE a == SeqSet(queue)
           c == SeqSet(files)
           d == IF running THEN failedDirs ELSE {}
           p == <<a, inFlight, c, d>>
<1>1. 1..4 = {1, 2, 3, 4}
  OBVIOUS
<1>2. p[1] = a /\ p[2] = inFlight /\ p[3] = c /\ p[4] = d
  OBVIOUS
<1>3. EachDirOnce <=>
        /\ NoRepeats(queue) /\ NoRepeats(files)
        /\ ~running => visited = {}
        /\ visited = UNION {p[i] : i \in {1, 2, 3, 4}}
        /\ \A i, k \in {1, 2, 3, 4} : i # k => p[i] \cap p[k] = {}
  BY <1>1 DEF EachDirOnce
<1> HIDE DEF a, c, d, p
<1>4. UNION {p[i] : i \in {1, 2, 3, 4}} = a \cup inFlight \cup c \cup d
  BY <1>2
<1>5. (\A i, k \in {1, 2, 3, 4} : i # k => p[i] \cap p[k] = {})
        <=> /\ a \cap inFlight = {} /\ a \cap c = {} /\ a \cap d = {}
            /\ inFlight \cap c = {} /\ inFlight \cap d = {} /\ c \cap d = {}
  BY <1>2
<1> QED
  BY <1>3, <1>4, <1>5 DEF Places, a, c, d

\* An idle searcher holds nothing.
LEMMA IdleHoldsNothing ==
  ASSUME running' = FALSE, Reset
  PROVE  /\ visited' = {} /\ queue' \in Seq(Dirs) /\ inFlight' = {} /\ files' \in Seq(Dirs)
         /\ folderErrors' = 0 /\ EachDirOnce' /\ NeverStuck'
<1>1. /\ visited' = {} /\ queue' = <<>> /\ inFlight' = {} /\ files' = <<>>
      /\ folderErrors' = 0
  BY DEF Reset
<1>2. (\/ EachDirOnce' \/ ~(/\ NoRepeats(queue) /\ NoRepeats(files)
                            /\ ~running => visited = {}
                            /\ Places(visited, SeqSet(queue), inFlight, SeqSet(files),
                                      IF running THEN failedDirs ELSE {}))')
  BY OnceIsPlaces, PTL
<1>3. EachDirOnce'
  BY <1>1, <1>2, EmptyOnce DEF Places
<1> QED
  BY <1>1, <1>3, EmptySeq DEF NeverStuck

-----------------------------------------------------------------------------
(***************************************************************************)
(* A search w, as the pump finds it.                                       *)
(***************************************************************************)
Sound(w) ==
  /\ w.visited \subseteq Dirs /\ w.queue \in Seq(Dirs) /\ w.inFlight \subseteq Dirs
  /\ w.files \in Seq(Dirs) /\ w.errors \in Nat /\ w.failed \subseteq Dirs
  /\ w.asked \in [Dirs -> Nat]
  /\ NoRepeats(w.queue) /\ NoRepeats(w.files)
  /\ Places(w.visited, SeqSet(w.queue), w.inFlight, SeqSet(w.files), w.failed)
  /\ \A d \in w.inFlight : w.asked[d] > 0

\* What the pump assigns.
PumpedOK ==
  /\ running \in BOOLEAN /\ visited \subseteq Dirs /\ queue \in Seq(Dirs)
  /\ inFlight \subseteq Dirs /\ files \in Seq(Dirs) /\ folderErrors \in Nat
  /\ asked \in [Dirs -> Nat] /\ failedDirs \subseteq Dirs
  /\ outcome \in Outcomes /\ result \in [files : Seq(Dirs), errors : Nat]
  /\ EachDirOnce /\ NeverStuck

\* The end of a search, with or without a result.
LEMMA EndKeeps ==
  ASSUME running' = FALSE, Reset, asked' \in [Dirs -> Nat], failedDirs' \subseteq Dirs,
         outcome' \in Outcomes, result' \in [files : Seq(Dirs), errors : Nat]
  PROVE  PumpedOK'
<1>1. /\ visited' = {} /\ queue' \in Seq(Dirs) /\ inFlight' = {} /\ files' \in Seq(Dirs)
      /\ folderErrors' = 0 /\ EachDirOnce' /\ NeverStuck'
  BY IdleHoldsNothing
<1>2. running' \in BOOLEAN /\ visited' \subseteq Dirs /\ inFlight' \subseteq Dirs
      /\ folderErrors' \in Nat
  BY <1>1
<1> QED
  BY <1>1, <1>2 DEF PumpedOK

LEMMA NoResultType == NoResult \in [files : Seq(Dirs), errors : Nat]
BY EmptySeq DEF NoResult

\* The loop moves directories from the queue to the slots or to the failures
\* and stops only when a listing is in flight or the search is over.
LEMMA PumpKeeps ==
  ASSUME NEW o, NEW w, Sound(w), PumpListings(o, w)
  PROVE  PumpedOK'
<1> DEFINE q == w.queue
           L == Len(w.queue)
<1>1. PICK n \in 0..L : \E bad \in SUBSET (1..n) :
        LET pending == Pending(w, n, bad)
            rest    == SubSeq(w.queue, n + 1, Len(w.queue))
            errors  == w.errors + Cardinality(bad)
        IN
        /\ LoopEndsAt(o, w, n, bad)
        /\ asked' = [d \in Dirs |-> IF d \in pending \ w.inFlight THEN w.asked[d] + 1
                                                                 ELSE w.asked[d]]
        /\ failedDirs' = w.failed \cup {w.queue[i] : i \in bad}
        /\ \/ RootDeclined(o, w, bad) /\ SearchFails
           \/ /\ ~RootDeclined(o, w, bad) /\ rest = <<>> /\ pending = {}
              /\ SearchFinishes(w.files, errors)
           \/ /\ ~RootDeclined(o, w, bad) /\ ~(rest = <<>> /\ pending = {})
              /\ SearchGoesOn(w, rest, pending, errors)
  BY Zenon DEF PumpListings
<1>2. PICK bad \in SUBSET (1..n) :
        LET pending == Pending(w, n, bad)
            rest    == SubSeq(w.queue, n + 1, Len(w.queue))
            errors  == w.errors + Cardinality(bad)
        IN
        /\ LoopEndsAt(o, w, n, bad)
        /\ asked' = [d \in Dirs |-> IF d \in pending \ w.inFlight THEN w.asked[d] + 1
                                                                 ELSE w.asked[d]]
        /\ failedDirs' = w.failed \cup {w.queue[i] : i \in bad}
        /\ \/ RootDeclined(o, w, bad) /\ SearchFails
           \/ /\ ~RootDeclined(o, w, bad) /\ rest = <<>> /\ pending = {}
              /\ SearchFinishes(w.files, errors)
           \/ /\ ~RootDeclined(o, w, bad) /\ ~(rest = <<>> /\ pending = {})
              /\ SearchGoesOn(w, rest, pending, errors)
  BY <1>1
<1> DEFINE pending == Pending(w, n, bad)
           rest    == SubSeq(w.queue, n + 1, Len(w.queue))
           errors  == w.errors + Cardinality(bad)
           taken   == {w.queue[i] : i \in (1..n) \ bad}
           lost    == {w.queue[i] : i \in bad}
<1>3. /\ w.queue \in Seq(Dirs) /\ NoRepeats(w.queue) /\ L \in Nat
      /\ DOMAIN w.queue = 1..L /\ \A i \in 1..L : w.queue[i] \in Dirs
  BY LenProperties, ElementOfSeq DEF Sound
<1>4. /\ rest \in Seq(Dirs) /\ NoRepeats(rest)
      /\ SeqSet(rest) = {w.queue[i] : i \in (n + 1)..L}
      /\ n = L => rest = <<>>
  BY <1>3, RestOnce
<1>5. /\ pending = w.inFlight \cup taken
      /\ 1..n \subseteq 1..L /\ (n + 1)..L \subseteq 1..L
      /\ taken \subseteq Dirs /\ lost \subseteq Dirs
  BY <1>3 DEF Pending
<1>6. /\ SeqSet(w.queue) = taken \cup lost \cup SeqSet(rest)
      /\ taken \cap lost = {} /\ taken \cap SeqSet(rest) = {} /\ lost \cap SeqSet(rest) = {}
  <2>1. \A i, k \in 1..L : w.queue[i] = w.queue[k] => i = k
    BY <1>3 DEF NoRepeats
  <2>2. SeqSet(w.queue) = {w.queue[i] : i \in 1..L}
    BY <1>3 DEF SeqSet
  <2>3. \A i \in 1..L : i \in 1..n \/ i \in (n + 1)..L
    BY <1>3
  <2>4. \A i \in 1..n, k \in (n + 1)..L : i # k
    BY <1>3
  <2> HIDE DEF L
  <2> QED
    BY <1>4, <1>5, <2>1, <2>2, <2>3, <2>4
<1>7. errors \in Nat
  <2>1. IsFiniteSet(1..n)
    BY <1>3, FS_Interval
  <2>2. Cardinality(bad) \in Nat
    BY <2>1, FS_Subset, FS_CardinalityType
  <2> QED
    BY <2>2 DEF Sound
<1>8. failedDirs' = w.failed \cup lost /\ failedDirs' \subseteq Dirs
  BY <1>2, <1>5 DEF Sound
<1>9. asked' \in [Dirs -> Nat] /\ \A d \in pending : asked'[d] > 0
  <2>1. asked' = [d \in Dirs |-> IF d \in pending \ w.inFlight THEN w.asked[d] + 1
                                                               ELSE w.asked[d]]
    BY <1>2
  <2>2. \A d \in Dirs : w.asked[d] \in Nat
    BY DEF Sound
  <2>3. \A d \in pending : d \in Dirs /\ (d \in w.inFlight => w.asked[d] > 0)
    BY <1>5 DEF Sound
  <2> HIDE DEF pending
  <2> QED
    BY <2>1, <2>2, <2>3
<1>10. CASE RootDeclined(o, w, bad) /\ SearchFails
  <2>1. outcome' \in Outcomes /\ result' \in [files : Seq(Dirs), errors : Nat]
    BY <1>10, NoResultType DEF SearchFails, Outcomes
  <2> QED
    BY <1>8, <1>9, <1>10, <2>1, EndKeeps DEF SearchFails
<1>11. CASE SearchFinishes(w.files, errors)
  <2>1. outcome' \in Outcomes /\ result' \in [files : Seq(Dirs), errors : Nat]
    BY <1>7, <1>11 DEF SearchFinishes, Outcomes, Sound
  <2> QED
    BY <1>8, <1>9, <1>11, <2>1, EndKeeps DEF SearchFinishes
<1>12. CASE /\ ~RootDeclined(o, w, bad) /\ ~(rest = <<>> /\ pending = {})
            /\ SearchGoesOn(w, rest, pending, errors)
  <2>1. /\ running' = TRUE /\ visited' = w.visited /\ queue' = rest
        /\ inFlight' = pending /\ files' = w.files /\ folderErrors' = errors
        /\ outcome' = "none" /\ result' = NoResult
    BY <1>12 DEF SearchGoesOn
  <2>2. pending # {}
    <3>1. \/ n = L \/ Cardinality(pending) >= MaxInFlight
      BY <1>2, <1>12 DEF LoopEndsAt
    <3>2. CASE n = L
      BY <1>4, <1>12, <3>2
    <3>3. CASE Cardinality(pending) >= MaxInFlight
      <4> HIDE DEF pending
      <4>1. pending = {} => Cardinality(pending) = 0
        BY FS_EmptySet
      <4> QED
        BY <3>3, <4>1
    <3> QED
      BY <3>1, <3>2, <3>3
  <2>3. Places(visited', SeqSet(queue'), inFlight', SeqSet(files'), failedDirs')
    <3>1. Places(w.visited, SeqSet(w.queue), w.inFlight, SeqSet(w.files), w.failed)
      BY DEF Sound
    <3> DEFINE all  == SeqSet(w.queue)
               tail == SeqSet(rest)
               done == SeqSet(w.files)
    <3>2. Places(w.visited, tail, w.inFlight \cup taken, done, w.failed \cup lost)
      <4>1. Places(w.visited, all, w.inFlight, done, w.failed)
        BY <3>1
      <4>2. /\ all = taken \cup lost \cup tail
            /\ taken \cap lost = {} /\ taken \cap tail = {} /\ lost \cap tail = {}
        BY <1>6
      <4> HIDE DEF all, tail, done, taken, lost
      <4> QED
        BY <4>1, <4>2 DEF Places
    <3> QED
      BY <1>5, <1>8, <2>1, <3>2
  <2>4. (\/ EachDirOnce' \/ ~(/\ NoRepeats(queue) /\ NoRepeats(files)
                              /\ ~running => visited = {}
                              /\ Places(visited, SeqSet(queue), inFlight, SeqSet(files),
                                        IF running THEN failedDirs ELSE {}))')
    BY OnceIsPlaces, PTL
  <2>5. NoRepeats(queue') /\ NoRepeats(files')
    BY <1>4, <2>1 DEF Sound
  <2>6. EachDirOnce'
    BY <2>1, <2>3, <2>4, <2>5
  <2>7. NeverStuck'
    BY <1>9, <2>1, <2>2 DEF NeverStuck
  <2>8. /\ visited' \subseteq Dirs /\ queue' \in Seq(Dirs) /\ inFlight' \subseteq Dirs
        /\ files' \in Seq(Dirs) /\ folderErrors' \in Nat
    BY <1>4, <1>5, <1>7, <2>1 DEF Sound
  <2>9. outcome' \in Outcomes /\ result' \in [files : Seq(Dirs), errors : Nat]
    BY <2>1, NoResultType DEF Outcomes
  <2> QED
    BY <1>8, <1>9, <2>1, <2>6, <2>7, <2>8, <2>9 DEF PumpedOK
<1> QED
  BY <1>2, <1>10, <1>11, <1>12

-----------------------------------------------------------------------------
\* A search begins with its roots in the queue, each once.
LEMMA RootsSound ==
  ASSUME TypeOK, NEW o \in OptionSet
  PROVE  Sound([visited |-> Roots(o), queue |-> RootQueue(o), inFlight |-> {},
                files |-> <<>>, errors |-> 0, failed |-> {}, asked |-> asked])
<1>1. o.primary \in Dirs /\ o.secondary \in Dirs
  BY DEF Options
<1>2. RootQueue(o) \in Seq(Dirs) /\ NoRepeats(RootQueue(o)) /\ SeqSet(RootQueue(o)) = Roots(o)
  <2>1. /\ <<o.primary>> \in Seq(Dirs) /\ NoRepeats(<<o.primary>>)
        /\ SeqSet(<<o.primary>>) = {o.primary}
    <3> SUFFICES ASSUME NEW p \in Dirs
                 PROVE  <<p>> \in Seq(Dirs) /\ NoRepeats(<<p>>) /\ SeqSet(<<p>>) = {p}
      BY <1>1
    <3>1. DOMAIN <<p>> = {1} /\ <<p>>[1] = p
      OBVIOUS
    <3> QED
      BY <3>1 DEF NoRepeats, SeqSet
  <2>2. CASE o.primary = o.secondary
    BY <2>1, <2>2 DEF RootQueue, Roots
  <2>3. CASE o.primary # o.secondary
    <3>1. RootQueue(o) = Append(<<o.primary>>, o.secondary)
      BY <2>3 DEF RootQueue
    <3>2. Roots(o) = {o.primary} \cup {o.secondary} /\ o.secondary \notin {o.primary}
      BY <2>3 DEF Roots
    <3> QED
      BY <1>1, <2>1, <3>1, <3>2, AppendOnce
  <2> QED
    BY <2>2, <2>3
<1> DEFINE r == Roots(o)
           q == RootQueue(o)
<1>3. /\ r \subseteq Dirs /\ q \in Seq(Dirs) /\ NoRepeats(q) /\ SeqSet(q) = r
      /\ asked \in [Dirs -> Nat]
  BY <1>1, <1>2 DEF Roots, TypeOK
<1> HIDE DEF r, q
<1>4. Places(r, r, {}, {}, {})
  BY DEF Places
<1>5. Sound([visited |-> r, queue |-> q, inFlight |-> {}, files |-> <<>>, errors |-> 0,
             failed |-> {}, asked |-> asked])
  BY <1>3, <1>4, EmptySeq, EmptyOnce DEF Sound
<1> QED
  BY <1>5 DEF r, q

\* The parts of a search that is running, when d's answer arrives and left
\* are the requests that remain.
LEMMA RunningParts ==
  ASSUME QueueInv, running, NEW d \in inFlight, NEW left \in [Dirs -> Nat],
         \A e \in Dirs \ {d} : left[e] = asked[e]
  PROVE  /\ visited \subseteq Dirs /\ queue \in Seq(Dirs) /\ inFlight \subseteq Dirs
         /\ files \in Seq(Dirs) /\ folderErrors \in Nat /\ failedDirs \subseteq Dirs
         /\ NoRepeats(queue) /\ NoRepeats(files)
         /\ Places(visited, SeqSet(queue), inFlight, SeqSet(files), failedDirs)
         /\ \A e \in inFlight \ {d} : left[e] > 0
<1>1. /\ NoRepeats(queue) /\ NoRepeats(files)
      /\ Places(visited, SeqSet(queue), inFlight, SeqSet(files), failedDirs)
  BY OnceIsPlaces DEF QueueInv
<1>2. \A e \in inFlight \ {d} : left[e] > 0
  BY DEF QueueInv, TypeOK, NeverStuck
<1> QED
  BY <1>1, <1>2 DEF QueueInv, TypeOK

\* A folder is listed: it becomes one of the files, its new subfolders wait.
LEMMA ListedSound ==
  ASSUME QueueInv, NEW d \in Dirs, NEW left \in [Dirs -> Nat],
         \A e \in Dirs \ {d} : left[e] = asked[e], running, d \in inFlight,
         NEW new \in Orders({e \in Children(d) : SideMask(options, e) # {}} \ visited)
  PROVE  Sound([visited |-> visited \cup SeqSet(new), queue |-> queue \o new,
                inFlight |-> inFlight \ {d}, files |-> Append(files, d),
                errors |-> folderErrors, failed |-> failedDirs, asked |-> left])
<1> DEFINE subs == {e \in Children(d) : SideMask(options, e) # {}} \ visited
<1>1. new \in Orders(subs)
  OBVIOUS
<1>2. /\ visited \subseteq Dirs /\ queue \in Seq(Dirs) /\ inFlight \subseteq Dirs
      /\ files \in Seq(Dirs) /\ folderErrors \in Nat /\ failedDirs \subseteq Dirs
      /\ NoRepeats(queue) /\ NoRepeats(files)
      /\ Places(visited, SeqSet(queue), inFlight, SeqSet(files), failedDirs)
      /\ \A e \in inFlight \ {d} : left[e] > 0
  BY RunningParts
<1>3. subs \in SUBSET Dirs /\ subs \cap visited = {}
  BY DEF Children
<1> HIDE DEF subs
<1>4. new \in Seq(Dirs) /\ SeqSet(new) = subs /\ NoRepeats(new)
  BY <1>1, <1>3, OrdersOnce
<1>5. SeqSet(queue) \cap subs = {} /\ d \notin SeqSet(files)
  BY <1>2, <1>3 DEF Places
<1>6. /\ queue \o new \in Seq(Dirs) /\ NoRepeats(queue \o new)
      /\ SeqSet(queue \o new) = SeqSet(queue) \cup subs
  BY <1>2, <1>4, <1>5, ConcatOnce
<1>7. /\ Append(files, d) \in Seq(Dirs) /\ NoRepeats(Append(files, d))
      /\ SeqSet(Append(files, d)) = SeqSet(files) \cup {d}
  BY <1>2, <1>5, AppendOnce
<1>8. Places(visited \cup subs, SeqSet(queue) \cup subs, inFlight \ {d},
             SeqSet(files) \cup {d}, failedDirs)
  <2> DEFINE a == SeqSet(queue)
             c == SeqSet(files)
  <2>1. Places(visited, a, inFlight, c, failedDirs)
    BY <1>2
  <2> HIDE DEF a, c
  <2>2. Places(visited \cup subs, a \cup subs, inFlight \ {d}, c \cup {d}, failedDirs)
    BY <1>3, <2>1 DEF Places
  <2> QED
    BY <2>2 DEF a, c
<1> DEFINE v == visited \cup SeqSet(new)
           q == queue \o new
           g == Append(files, d)
           i == inFlight \ {d}
<1>9. /\ v \subseteq Dirs /\ q \in Seq(Dirs) /\ i \subseteq Dirs /\ g \in Seq(Dirs)
      /\ NoRepeats(q) /\ NoRepeats(g) /\ \A e \in i : left[e] > 0
      /\ Places(v, SeqSet(q), i, SeqSet(g), failedDirs)
  BY <1>2, <1>3, <1>4, <1>6, <1>7, <1>8
<1> HIDE DEF v, q, g, i
<1>10. Sound([visited |-> v, queue |-> q, inFlight |-> i, files |-> g,
              errors |-> folderErrors, failed |-> failedDirs, asked |-> left])
  BY <1>2, <1>9 DEF Sound
<1> QED
  BY <1>10 DEF v, q, g, i

LEMMA ListedKeeps ==
  ASSUME QueueInv, NEW d \in Dirs, NEW left \in [Dirs -> Nat],
         \A e \in Dirs \ {d} : left[e] = asked[e],
         running, d \in inFlight, OnDirectoryListed(d, left)
  PROVE  PumpedOK' /\ options' = options
<1>1. PICK new \in Orders({e \in Children(d) : SideMask(options, e) # {}} \ visited) :
        /\ PumpListings(options,
             [visited |-> visited \cup SeqSet(new), queue |-> queue \o new,
              inFlight |-> inFlight \ {d}, files |-> Append(files, d),
              errors |-> folderErrors, failed |-> failedDirs, asked |-> left])
        /\ UNCHANGED options
  BY DEF OnDirectoryListed
<1> DEFINE w == [visited |-> visited \cup SeqSet(new), queue |-> queue \o new,
                 inFlight |-> inFlight \ {d}, files |-> Append(files, d),
                 errors |-> folderErrors, failed |-> failedDirs, asked |-> left]
<1>2. Sound(w) /\ PumpListings(options, w)
  BY <1>1, ListedSound
<1> HIDE DEF w
<1> QED
  BY <1>1, <1>2, PumpKeeps

\* A folder that cannot be listed leaves its slot, for the failures.
LEMMA FailedSound ==
  ASSUME QueueInv, NEW d \in Dirs, NEW left \in [Dirs -> Nat],
         \A e \in Dirs \ {d} : left[e] = asked[e], running, d \in inFlight
  PROVE  Sound([visited |-> visited, queue |-> queue, inFlight |-> inFlight \ {d},
                files |-> files, errors |-> folderErrors + 1,
                failed |-> failedDirs \cup {d}, asked |-> left])
<1> DEFINE i == inFlight \ {d}
           b == failedDirs \cup {d}
           n == folderErrors + 1
<1>1. /\ visited \subseteq Dirs /\ queue \in Seq(Dirs) /\ inFlight \subseteq Dirs
      /\ files \in Seq(Dirs) /\ folderErrors \in Nat /\ failedDirs \subseteq Dirs
      /\ NoRepeats(queue) /\ NoRepeats(files)
      /\ Places(visited, SeqSet(queue), inFlight, SeqSet(files), failedDirs)
      /\ \A e \in inFlight \ {d} : left[e] > 0
  BY RunningParts
<1>2. Places(visited, SeqSet(queue), i, SeqSet(files), b)
  <2> DEFINE a == SeqSet(queue)
             c == SeqSet(files)
  <2>1. Places(visited, a, inFlight, c, failedDirs)
    BY <1>1
  <2> HIDE DEF a, c
  <2>2. Places(visited, a, i, c, b)
    BY <2>1 DEF Places
  <2> QED
    BY <2>2 DEF a, c
<1>3. i \subseteq Dirs /\ b \subseteq Dirs /\ n \in Nat /\ \A e \in i : left[e] > 0
  BY <1>1
<1> HIDE DEF i, b, n
<1>4. Sound([visited |-> visited, queue |-> queue, inFlight |-> i,
             files |-> files, errors |-> n, failed |-> b, asked |-> left])
  BY <1>1, <1>2, <1>3 DEF Sound
<1> QED
  BY <1>4 DEF i, b, n

\* The search fails with a root, and goes on without any other.
LEMMA FailedKeeps ==
  ASSUME QueueInv, NEW d \in Dirs, NEW left \in [Dirs -> Nat],
         \A e \in Dirs \ {d} : left[e] = asked[e],
         running, d \in inFlight, OnDirectoryListFailed(d, left)
  PROVE  PumpedOK' /\ options' = options
<1>1. options' = options
  BY DEF OnDirectoryListFailed
<1>2. CASE d \in Roots(options)
  <2>1. SearchFails /\ failedDirs' = failedDirs \cup {d} /\ asked' = left
    BY <1>2 DEF OnDirectoryListFailed
  <2>2. outcome' \in Outcomes /\ result' \in [files : Seq(Dirs), errors : Nat]
    BY <2>1, NoResultType DEF SearchFails, Outcomes
  <2>3. failedDirs' \subseteq Dirs /\ asked' \in [Dirs -> Nat]
    BY <2>1 DEF QueueInv, TypeOK
  <2> QED
    BY <1>1, <2>1, <2>2, <2>3, EndKeeps DEF SearchFails
<1>3. CASE d \notin Roots(options)
  <2> DEFINE w == [visited |-> visited, queue |-> queue, inFlight |-> inFlight \ {d},
                   files |-> files, errors |-> folderErrors + 1,
                   failed |-> failedDirs \cup {d}, asked |-> left]
  <2>1. PumpListings(options, w)
    BY <1>3 DEF OnDirectoryListFailed
  <2>2. Sound(w)
    BY FailedSound
  <2> HIDE DEF w
  <2> QED
    BY <1>1, <2>1, <2>2, PumpKeeps
<1> QED
  BY <1>2, <1>3

\* An answer nobody waits for leaves the search alone.
LEMMA IgnoredKeeps ==
  ASSUME QueueInv, NEW d \in Dirs, NEW left \in [Dirs -> Nat],
         \A e \in Dirs \ {d} : left[e] = asked[e],
         ~running \/ d \notin inFlight, Ignored(left)
  PROVE  PumpedOK' /\ options' = options
<1>1. /\ asked' = left
      /\ UNCHANGED <<options, running, visited, queue, inFlight, files, folderErrors,
                     outcome, result, failedDirs>>
  BY DEF Ignored, members, signals
<1>2. EachDirOnce'
  BY <1>1 DEF QueueInv, EachDirOnce
<1>3. NeverStuck'
  <2> SUFFICES ASSUME running' PROVE inFlight' # {} /\ \A e \in inFlight' : asked'[e] > 0
    BY DEF NeverStuck
  <2>1. running /\ d \notin inFlight
    BY <1>1
  <2> QED
    BY <1>1, <2>1 DEF QueueInv, TypeOK, NeverStuck
<1> QED
  BY <1>1, <1>2, <1>3 DEF QueueInv, TypeOK, PumpedOK

\* Whoever asked, one request fewer for the folder is left to be answered.
LEMMA AnswerLeaves ==
  ASSUME QueueInv, NEW d \in Dirs, Listed(d) \/ Failed(d)
  PROVE  /\ \E left \in [Dirs -> Nat] :
              /\ OnDirectoryListed(d, left) \/ OnDirectoryListFailed(d, left)
              /\ left[d] <= asked[d] /\ \A e \in Dirs \ {d} : left[e] = asked[e]
         /\ foreign' \in [Dirs -> Nat]
         /\ UNCHANGED <<alive, searches>>
<1>1. PICK left :
        /\ OnDirectoryListed(d, left) \/ OnDirectoryListFailed(d, left)
        /\ \/ asked[d] > 0 /\ left = OneLess(asked, d) /\ UNCHANGED foreign
           \/ left = asked /\ foreign[d] > 0 /\ foreign' = OneLess(foreign, d)
  BY DEF Listed, Failed, Answer
<1>2. UNCHANGED <<alive, searches>>
  BY DEF Listed, Failed, Answer
<1>3. /\ left \in [Dirs -> Nat] /\ left[d] <= asked[d]
      /\ \A e \in Dirs \ {d} : left[e] = asked[e]
      /\ foreign' \in [Dirs -> Nat]
  <2>1. ASSUME NEW r \in [Dirs -> Nat], r[d] > 0
        PROVE  /\ OneLess(r, d) \in [Dirs -> Nat] /\ OneLess(r, d)[d] <= r[d]
               /\ \A e \in Dirs \ {d} : OneLess(r, d)[e] = r[e]
    BY <2>1 DEF OneLess
  <2>2. asked \in [Dirs -> Nat] /\ foreign \in [Dirs -> Nat]
    BY DEF QueueInv, TypeOK
  <2> QED
    BY <1>1, <2>1, <2>2
<1> QED
  BY <1>1, <1>2, <1>3

\* Whoever asked, the answer to a listing keeps the invariant.
LEMMA AnswerKeeps ==
  ASSUME QueueInv, NEW d \in Dirs, Listed(d) \/ Failed(d)
  PROVE  QueueInv'
<1>1. PICK left \in [Dirs -> Nat] :
        /\ OnDirectoryListed(d, left) \/ OnDirectoryListFailed(d, left)
        /\ \A e \in Dirs \ {d} : left[e] = asked[e]
  BY AnswerLeaves
<1>2. foreign' \in [Dirs -> Nat] /\ UNCHANGED <<alive, searches>>
  BY AnswerLeaves
<1>3. PumpedOK' /\ options' = options
  <2>1. CASE ~running \/ d \notin inFlight
    <3>1. Ignored(left)
      BY <1>1, <2>1 DEF OnDirectoryListed, OnDirectoryListFailed
    <3> QED
      BY <1>1, <2>1, <3>1, IgnoredKeeps
  <2>2. CASE ~(~running \/ d \notin inFlight)
    BY <1>1, <2>2, ListedKeeps, FailedKeeps
  <2> QED
    BY <2>1, <2>2
<1> QED
  BY <1>2, <1>3 DEF PumpedOK, QueueInv, TypeOK

\* What is none of the search's business.
LEMMA UntouchedKeeps ==
  ASSUME QueueInv, UNCHANGED <<members, asked, signals, failedDirs>>,
         foreign' \in [Dirs -> Nat], alive' \in BOOLEAN, searches' \in Nat
  PROVE  QueueInv'
<1>1. UNCHANGED <<options, running, visited, queue, inFlight, files, folderErrors, asked,
                  outcome, result, failedDirs>>
  BY DEF members, signals
<1>2. TypeOK'
  BY <1>1 DEF QueueInv, TypeOK
<1>3. EachDirOnce'
  BY <1>1 DEF QueueInv, EachDirOnce
<1>4. NeverStuck'
  BY <1>1 DEF QueueInv, NeverStuck
<1> QED
  BY <1>2, <1>3, <1>4 DEF QueueInv

\* QueueInv is inductive.
LEMMA QueueInvStep == QueueInv /\ [Next]_vars => QueueInv'
<1> SUFFICES ASSUME QueueInv, [Next]_vars PROVE QueueInv'
  OBVIOUS
<1>1. ASSUME NEW o \in OptionSet, Start(o) PROVE QueueInv'
  <2>1. /\ PumpListings(o, [visited |-> Roots(o), queue |-> RootQueue(o),
                            inFlight |-> {}, files |-> <<>>, errors |-> 0, failed |-> {},
                            asked |-> asked])
        /\ options' = o /\ searches' = searches + 1 /\ UNCHANGED <<foreign, alive>>
    BY <1>1 DEF Start
  <2>2. PumpedOK'
    BY <2>1, RootsSound, PumpKeeps DEF QueueInv
  <2> QED
    BY <2>1, <2>2 DEF PumpedOK, QueueInv, TypeOK
<1>2. CASE Cancel
  <2>1. outcome' \in Outcomes /\ result' \in [files : Seq(Dirs), errors : Nat]
    BY <1>2, NoResultType DEF Cancel, Outcomes
  <2>2. PumpedOK'
    BY <1>2, <2>1, EndKeeps DEF Cancel, QueueInv, TypeOK
  <2> QED
    BY <1>2, <2>2 DEF Cancel, PumpedOK, QueueInv, TypeOK
<1>3. ASSUME NEW d \in Dirs, Listed(d) \/ Failed(d) PROVE QueueInv'
  BY <1>3, AnswerKeeps
<1>4. ASSUME NEW d \in Dirs, OthersAsk(d) PROVE QueueInv'
  BY <1>4, UntouchedKeeps DEF OthersAsk, QueueInv, TypeOK
<1>5. CASE Disconnect
  <2>1. NoRequests \in [Dirs -> Nat]
    BY DEF NoRequests
  <2>2. PumpedOK'
    BY <1>5, <2>1, EndKeeps DEF Disconnect, signals, QueueInv, TypeOK
  <2> QED
    <3>1. /\ foreign' \in [Dirs -> Nat] /\ alive' \in BOOLEAN
          /\ searches' \in Nat /\ options' \in Options
      BY <1>5, <2>1 DEF Disconnect, QueueInv, TypeOK
    <3> QED
      BY <2>2, <3>1 DEF PumpedOK, QueueInv, TypeOK
<1>6. CASE Reconnect
  BY <1>6, UntouchedKeeps DEF Reconnect, QueueInv, TypeOK
<1>7. CASE UNCHANGED vars
  BY <1>7, UntouchedKeeps DEF vars, QueueInv, TypeOK
<1> QED
  BY <1>1, <1>2, <1>3, <1>4, <1>5, <1>6, <1>7 DEF Next

\* Every directory of a search is in one place at a time: waiting, in flight,
\* listed or failed.
THEOREM QueueInvariance == Spec => []QueueInv
<1>1. Init => QueueInv
  <2> SUFFICES ASSUME Init PROVE QueueInv
    OBVIOUS
  <2>1. /\ running = FALSE /\ visited = {} /\ queue = <<>> /\ inFlight = {} /\ files = <<>>
        /\ folderErrors = 0 /\ options \in Options
    BY DEF Init
  <2>2. EachDirOnce
    BY <2>1, EmptyOnce, OnceIsPlaces DEF Places
  <2>3. NeverStuck
    BY <2>1 DEF NeverStuck
  <2>4. TypeOK
    <3>1. running \in BOOLEAN /\ alive \in BOOLEAN
      <4>1. running = FALSE /\ alive = TRUE
        BY DEF Init
      <4> QED
        BY <4>1
    <3>4. searches \in Nat /\ folderErrors \in Nat /\ outcome \in Outcomes
      BY DEF Init, Outcomes
    <3>2. /\ asked \in [Dirs -> Nat] /\ foreign \in [Dirs -> Nat]
          /\ result \in [files : Seq(Dirs), errors : Nat]
      BY NoResultType DEF Init, NoRequests
    <3>3. /\ visited \subseteq Dirs /\ inFlight \subseteq Dirs /\ failedDirs \subseteq Dirs
          /\ queue \in Seq(Dirs) /\ files \in Seq(Dirs)
      BY <2>1, EmptySeq DEF Init
    <3> QED
      BY <2>1, <3>1, <3>2, <3>3, <3>4 DEF TypeOK
  <2> QED
    BY <2>2, <2>3, <2>4 DEF QueueInv
<1> QED
  BY <1>1, QueueInvStep, PTL DEF Spec

\* A running search always has a listing in flight that the session owes it,
\* whatever failed inside the pump or was answered to others.
THEOREM SearchNeverStuck == Spec => []NeverStuck
BY QueueInvariance, PTL DEF QueueInv

\* After its end a search changes neither its signal nor its result, though
\* the answers to its listings still come, also during the next search.
THEOREM EndedIsSilent == Spec => EndedSearchIsSilent
<1> DEFINE Silent == (outcome' # outcome \/ result' # result)
                       => running \/ searches' # searches
<1>1. ASSUME QueueInv, [Next]_vars PROVE Silent
  <2>1. ASSUME NEW o \in OptionSet, Start(o) PROVE Silent
    BY <1>1, <2>1 DEF Start, QueueInv, TypeOK
  <2>2. ASSUME NEW d \in Dirs, Listed(d) \/ Failed(d), ~running
        PROVE  UNCHANGED <<outcome, result>>
    <3>1. \E left : Ignored(left)
      BY <2>2 DEF Listed, Failed, Answer, OnDirectoryListed, OnDirectoryListFailed
    <3> QED
      BY <3>1 DEF Ignored, signals
  <2>3. CASE ~running /\ UNCHANGED <<outcome, result>>
    BY <2>3
  <2>4. \/ \E o \in OptionSet : Start(o)
        \/ \E d \in Dirs : Listed(d) \/ Failed(d)
        \/ running
        \/ UNCHANGED <<outcome, result>>
    BY <1>1 DEF Next, vars, signals, Cancel, OthersAsk, Disconnect, Reconnect
  <2> QED
    BY <2>1, <2>2, <2>4
<1>2. QueueInv /\ [Next]_vars => [Silent]_vars
  BY <1>1
<1> QED
  BY <1>2, QueueInvariance, PTL DEF Spec, EndedSearchIsSilent

-----------------------------------------------------------------------------
(***************************************************************************)
(* Slots, requests and progress.                                           *)
(***************************************************************************)
\* A search w, the s-th one, that has asked for no path twice.
Sparing(w, s) ==
  \A d \in Dirs :
    /\ w.asked[d] <= s
    /\ d \notin w.inFlight \cup SeqSet(w.files) \cup w.failed => w.asked[d] < s

\* The loop asks only for what was waiting, fills the slots and no more, and
\* takes back nothing of what is settled.
LEMMA PumpSpares ==
  ASSUME NEW o, NEW w, Sound(w), Cardinality(w.inFlight) <= MaxInFlight,
         NEW s \in Nat, Sparing(w, s), searches' = s, PumpListings(o, w)
  PROVE  /\ SlotsInv' /\ RequestInv'
         /\ running' => files' = w.files /\ w.failed \subseteq failedDirs'
<1> DEFINE L == Len(w.queue)
<1>1. PICK n \in 0..L : \E bad \in SUBSET (1..n) :
        LET pending == Pending(w, n, bad)
            rest    == SubSeq(w.queue, n + 1, Len(w.queue))
            errors  == w.errors + Cardinality(bad)
        IN
        /\ LoopEndsAt(o, w, n, bad)
        /\ asked' = [d \in Dirs |-> IF d \in pending \ w.inFlight THEN w.asked[d] + 1
                                                                 ELSE w.asked[d]]
        /\ failedDirs' = w.failed \cup {w.queue[i] : i \in bad}
        /\ \/ RootDeclined(o, w, bad) /\ SearchFails
           \/ /\ ~RootDeclined(o, w, bad) /\ rest = <<>> /\ pending = {}
              /\ SearchFinishes(w.files, errors)
           \/ /\ ~RootDeclined(o, w, bad) /\ ~(rest = <<>> /\ pending = {})
              /\ SearchGoesOn(w, rest, pending, errors)
  BY Zenon DEF PumpListings
<1>2. PICK bad \in SUBSET (1..n) :
        LET pending == Pending(w, n, bad)
            rest    == SubSeq(w.queue, n + 1, Len(w.queue))
            errors  == w.errors + Cardinality(bad)
        IN
        /\ LoopEndsAt(o, w, n, bad)
        /\ asked' = [d \in Dirs |-> IF d \in pending \ w.inFlight THEN w.asked[d] + 1
                                                                 ELSE w.asked[d]]
        /\ failedDirs' = w.failed \cup {w.queue[i] : i \in bad}
        /\ \/ running' = FALSE
           \/ ~RootDeclined(o, w, bad) /\ SearchGoesOn(w, rest, pending, errors)
  BY <1>1 DEF SearchFails, SearchFinishes
<1> DEFINE pending == Pending(w, n, bad)
           rest    == SubSeq(w.queue, n + 1, Len(w.queue))
           done    == SeqSet(w.files)
<1>3. /\ w.queue \in Seq(Dirs) /\ NoRepeats(w.queue) /\ L \in Nat /\ n \in Nat
      /\ DOMAIN w.queue = 1..L /\ 1..n \subseteq 1..L /\ w.inFlight \subseteq Dirs
      /\ \A d \in Dirs : w.asked[d] \in Nat
      /\ \A i \in 1..L : w.queue[i] \in Dirs
  BY LenProperties, ElementOfSeq DEF Sound
<1>4. /\ \A d \in pending : d \in w.inFlight \/ \E i \in 1..L : d = w.queue[i]
      /\ w.inFlight \subseteq pending /\ pending \subseteq Dirs
  BY <1>3 DEF Pending
<1>5. \A d \in pending \ w.inFlight : d \in Dirs /\ d \notin w.inFlight \cup done \cup w.failed
  <2>1. \A i \in 1..L : w.queue[i] \in SeqSet(w.queue)
    BY <1>3 DEF SeqSet
  <2>2. Places(w.visited, SeqSet(w.queue), w.inFlight, done, w.failed)
    BY DEF Sound
  <2> HIDE DEF pending, done
  <2> QED
    BY <1>4, <2>1, <2>2 DEF Places
<1>6. asked' = [d \in Dirs |-> IF d \in pending \ w.inFlight THEN w.asked[d] + 1
                                                             ELSE w.asked[d]]
  BY <1>2
<1>7. /\ \A d \in Dirs : asked'[d] <= s
      /\ \A d \in Dirs : d \notin pending \cup done \cup w.failed => asked'[d] < s
  <2> HIDE DEF pending, done
  <2>1. \A d \in Dirs : /\ w.asked[d] <= s
                        /\ d \notin w.inFlight \cup done \cup w.failed => w.asked[d] < s
    BY DEF Sparing, done
  <2>2. \A d \in Dirs : asked'[d] = IF d \in pending \ w.inFlight THEN w.asked[d] + 1
                                                                  ELSE w.asked[d]
    BY <1>6
  <2>3. ASSUME NEW d \in pending \ w.inFlight PROVE asked'[d] <= s
    BY <1>3, <1>5, <2>1, <2>2
  <2>4. ASSUME NEW d \in Dirs, d \notin pending \ w.inFlight PROVE asked'[d] = w.asked[d]
    BY <2>2, <2>4
  <2>5. w.inFlight \subseteq pending
    BY <1>4
  <2> QED
    BY <2>1, <2>3, <2>4, <2>5
<1>8. CASE running' = FALSE
  BY <1>7, <1>8 DEF SlotsInv, RequestInv
<1>9. CASE ~RootDeclined(o, w, bad)
           /\ SearchGoesOn(w, rest, pending, w.errors + Cardinality(bad))
  <2>1. /\ running' = TRUE /\ queue' = rest /\ inFlight' = pending /\ files' = w.files
        /\ failedDirs' = w.failed \cup {w.queue[i] : i \in bad}
    BY <1>2, <1>9 DEF SearchGoesOn
  <2>2. /\ n > 0 => Cardinality(Pending(w, n - 1, bad)) < MaxInFlight
        /\ n = L \/ Cardinality(pending) >= MaxInFlight
    BY <1>2, <1>9 DEF LoopEndsAt
  <2>3. IsFiniteSet(pending) /\ Cardinality(pending) \in Nat
    BY <1>4, FS_Subset, FS_CardinalityType
  <2>4. Cardinality(pending) <= MaxInFlight
    <3>1. CASE n = 0
      <4>1. pending = w.inFlight
        BY <3>1 DEF Pending
      <4> QED
        BY <4>1
    <3>2. CASE n > 0
      <4> DEFINE p == Pending(w, n - 1, bad)
                 x == w.queue[n]
      <4>1. pending \subseteq p \cup {x}
        <5>1. \A i \in 1..n : i = n \/ i \in 1..(n - 1)
          BY <1>3
        <5> QED
          BY <5>1 DEF Pending
      <4>2. p \subseteq Dirs /\ x \in Dirs
        <5>1. 1..(n - 1) \subseteq 1..L /\ n \in 1..L
          BY <1>3, <3>2
        <5> QED
          BY <1>3, <5>1 DEF Pending
      <4>3. IsFiniteSet(p) /\ IsFiniteSet(p \cup {x})
        BY <4>2, FS_Subset, FS_AddElement
      <4>4. Cardinality(p) < MaxInFlight
        BY <2>2, <3>2
      <4> HIDE DEF pending, p, x
      <4>5. /\ Cardinality(p \cup {x}) \in {Cardinality(p), Cardinality(p) + 1}
            /\ Cardinality(p) \in Nat /\ Cardinality(p \cup {x}) \in Nat
            /\ Cardinality(pending) <= Cardinality(p \cup {x})
        <5>1. Cardinality(p \cup {x}) = IF x \in p THEN Cardinality(p) ELSE Cardinality(p) + 1
          BY <4>3, FS_AddElement
        <5>2. Cardinality(pending) <= Cardinality(p \cup {x})
          BY <4>1, <4>3, FS_Subset
        <5> QED
          BY <4>3, <5>1, <5>2, FS_CardinalityType
      <4> QED
        BY <2>3, <4>4, <4>5
    <3> QED
      BY <1>3, <3>1, <3>2
  <2>5. n = L => rest = <<>>
    BY <1>3, RestOnce
  <2> HIDE DEF pending, rest, L
  <2>6. SlotsInv'
    BY <2>1, <2>2, <2>3, <2>4, <2>5 DEF SlotsInv
  <2>7. RequestInv'
    BY <1>7, <2>1 DEF RequestInv, Settled
  <2> QED
    BY <2>1, <2>6, <2>7
<1> QED
  BY <1>2, <1>8, <1>9

\* A search that starts spares the paths its predecessors asked for.
LEMMA StartSpares ==
  ASSUME QueueInv, RequestInv, NEW o \in OptionSet, Start(o)
  PROVE  SlotsInv' /\ RequestInv'
<1> DEFINE w == [visited |-> Roots(o), queue |-> RootQueue(o), inFlight |-> {},
                 files |-> <<>>, errors |-> 0, failed |-> {}, asked |-> asked]
<1>1. PumpListings(o, w) /\ searches' = searches + 1
  BY DEF Start
<1>2. Sound(w)
  BY RootsSound DEF QueueInv
<1>3. searches + 1 \in Nat /\ Sparing(w, searches + 1)
  BY DEF Sparing, RequestInv, QueueInv, TypeOK
<1>4. Cardinality(w.inFlight) <= MaxInFlight
  BY FS_EmptySet
<1> HIDE DEF w
<1> QED
  BY <1>1, <1>2, <1>3, <1>4, PumpSpares

\* The answer to a folder in flight frees its slot.
LEMMA SlotFreed ==
  ASSUME QueueInv, SlotsInv, running, NEW d \in Dirs
  PROVE  Cardinality(inFlight \ {d}) <= MaxInFlight
<1>1. IsFiniteSet(inFlight)
  BY FS_Subset DEF QueueInv, TypeOK
<1>2. /\ Cardinality(inFlight \ {d}) <= Cardinality(inFlight)
      /\ Cardinality(inFlight \ {d}) \in Nat /\ Cardinality(inFlight) \in Nat
  BY <1>1, FS_Subset, FS_CardinalityType
<1> QED
  BY <1>2 DEF SlotsInv

\* A search settles the folder whose answer it awaited, and keeps to the rest.
LEMMA AwaitedSpares ==
  ASSUME QueueInv, SlotsInv, RequestInv, NEW d \in Dirs, NEW left \in [Dirs -> Nat],
         left[d] <= asked[d], \A e \in Dirs \ {d} : left[e] = asked[e],
         running, d \in inFlight, searches' = searches,
         OnDirectoryListed(d, left) \/ OnDirectoryListFailed(d, left)
  PROVE  /\ SlotsInv' /\ RequestInv'
         /\ running' => Settled \cup {d} \subseteq Settled'
<1>1. /\ Cardinality(inFlight \ {d}) <= MaxInFlight /\ files \in Seq(Dirs)
      /\ searches \in Nat /\ asked \in [Dirs -> Nat]
  BY SlotFreed DEF QueueInv, TypeOK
<1>2. \A e \in Dirs : /\ left[e] <= searches
                      /\ e # d /\ e \notin inFlight \cup Settled => left[e] < searches
  BY <1>1 DEF RequestInv
<1>3. ASSUME OnDirectoryListed(d, left)
      PROVE  /\ SlotsInv' /\ RequestInv'
             /\ running' => Settled \cup {d} \subseteq Settled'
  <2>1. PICK new \in Orders({e \in Children(d) : SideMask(options, e) # {}} \ visited) :
          PumpListings(options,
            [visited |-> visited \cup SeqSet(new), queue |-> queue \o new,
             inFlight |-> inFlight \ {d}, files |-> Append(files, d),
             errors |-> folderErrors, failed |-> failedDirs, asked |-> left])
    BY <1>3 DEF OnDirectoryListed
  <2> DEFINE w == [visited |-> visited \cup SeqSet(new), queue |-> queue \o new,
                   inFlight |-> inFlight \ {d}, files |-> Append(files, d),
                   errors |-> folderErrors, failed |-> failedDirs, asked |-> left]
  <2>2. Sound(w) /\ PumpListings(options, w) /\ Cardinality(w.inFlight) <= MaxInFlight
    BY <1>1, <2>1, ListedSound
  <2>3. SeqSet(w.files) = SeqSet(files) \cup {d} /\ w.failed = failedDirs
        /\ w.inFlight = inFlight \ {d} /\ w.asked = left
    BY <1>1, AppendOnce
  <2> HIDE DEF w
  <2>4. Sparing(w, searches)
    BY <1>2, <2>3 DEF Sparing, Settled
  <2>5. /\ SlotsInv' /\ RequestInv'
        /\ running' => files' = w.files /\ w.failed \subseteq failedDirs'
    BY <1>1, <2>2, <2>4, PumpSpares
  <2>6. running' => SeqSet(files') = SeqSet(files) \cup {d} /\ failedDirs \subseteq failedDirs'
    BY <2>3, <2>5
  <2>7. Settled' = SeqSet(files') \cup failedDirs'
    BY DEF Settled, SeqSet
  <2> QED
    BY <2>5, <2>6, <2>7 DEF Settled
<1>4. ASSUME OnDirectoryListFailed(d, left)
      PROVE  /\ SlotsInv' /\ RequestInv'
             /\ running' => Settled \cup {d} \subseteq Settled'
  <2>1. CASE d \in Roots(options)
    <3>1. running' = FALSE /\ asked' = left
      BY <1>4, <2>1 DEF OnDirectoryListFailed, SearchFails
    <3> QED
      BY <1>2, <3>1 DEF SlotsInv, RequestInv
  <2>2. CASE d \notin Roots(options)
    <3> DEFINE w == [visited |-> visited, queue |-> queue, inFlight |-> inFlight \ {d},
                     files |-> files, errors |-> folderErrors + 1,
                     failed |-> failedDirs \cup {d}, asked |-> left]
    <3>1. Sound(w) /\ PumpListings(options, w) /\ Cardinality(w.inFlight) <= MaxInFlight
      BY <1>1, <1>4, <2>2, FailedSound DEF OnDirectoryListFailed
    <3>2. w.files = files /\ w.failed = failedDirs \cup {d}
          /\ w.inFlight = inFlight \ {d} /\ w.asked = left
      OBVIOUS
    <3> HIDE DEF w
    <3>3. Sparing(w, searches)
      BY <1>2, <3>2 DEF Sparing, Settled
    <3>4. /\ SlotsInv' /\ RequestInv'
          /\ running' => files' = w.files /\ w.failed \subseteq failedDirs'
      BY <1>1, <3>1, <3>3, PumpSpares
    <3>5. Settled' = SeqSet(files') \cup failedDirs'
      BY DEF Settled, SeqSet
    <3> QED
      BY <3>2, <3>4, <3>5 DEF Settled
  <2> QED
    BY <2>1, <2>2
<1> QED
  BY <1>3, <1>4

\* Whoever asked, an answer changes the slots only as it settles a folder.
LEMMA AnswerSpares ==
  ASSUME QueueInv, SlotsInv, RequestInv, NEW d \in Dirs, Listed(d) \/ Failed(d)
  PROVE  /\ SlotsInv' /\ RequestInv'
         /\ running /\ running' => /\ Settled \subseteq Settled'
                                   /\ inFlight' # inFlight => Settled' # Settled
<1>1. PICK left \in [Dirs -> Nat] :
        /\ OnDirectoryListed(d, left) \/ OnDirectoryListFailed(d, left)
        /\ left[d] <= asked[d] /\ \A e \in Dirs \ {d} : left[e] = asked[e]
  BY AnswerLeaves
<1>2. searches' = searches
  BY AnswerLeaves
<1>3. CASE ~running \/ d \notin inFlight
  <2>1. asked' = left /\ UNCHANGED <<running, queue, inFlight, files, failedDirs>>
    BY <1>1, <1>3 DEF OnDirectoryListed, OnDirectoryListFailed, Ignored, members
  <2>2. Settled' = Settled
    BY <2>1 DEF Settled, SeqSet
  <2>3. SlotsInv'
    BY <2>1 DEF SlotsInv
  <2>4. RequestInv'
    <3>1. \A e \in Dirs : left[e] <= asked[e] /\ left[e] \in Nat /\ asked[e] \in Nat
      <4>1. \A e \in Dirs : left[e] \in Nat /\ asked[e] \in Nat
        BY DEF QueueInv, TypeOK
      <4>2. \A e \in Dirs : e = d \/ left[e] = asked[e]
        BY <1>1
      <4> QED
        BY <1>1, <4>1, <4>2
    <3>2. searches \in Nat
      BY DEF QueueInv, TypeOK
    <3> QED
      BY <1>2, <2>1, <2>2, <3>1, <3>2 DEF RequestInv
  <2> QED
    BY <2>1, <2>2, <2>3, <2>4
<1>4. CASE running /\ d \in inFlight
  <2>1. /\ SlotsInv' /\ RequestInv'
        /\ running' => Settled \cup {d} \subseteq Settled'
    BY <1>1, <1>2, <1>4, AwaitedSpares
  <2>2. d \notin Settled
    <3>1. Places(visited, SeqSet(queue), inFlight, SeqSet(files), failedDirs)
      BY <1>1, <1>4, RunningParts
    <3> QED
      BY <1>4, <3>1 DEF Places, Settled
  <2> QED
    BY <2>1, <2>2
<1> QED
  BY <1>3, <1>4

\* Every step keeps the slots and spares the paths, and no step but an answer
\* changes what is in flight of a search that goes on.
LEMMA SlotsStep ==
  ASSUME QueueInv, SlotsInv, RequestInv, [Next]_vars
  PROVE  /\ SlotsInv' /\ RequestInv'
         /\ running /\ running' => /\ Settled \subseteq Settled'
                                   /\ inFlight' # inFlight => Settled' # Settled
<1>1. ASSUME NEW o \in OptionSet, Start(o) PROVE SlotsInv' /\ RequestInv' /\ ~running
  BY <1>1, StartSpares DEF Start
<1>2. ASSUME running' = FALSE, searches' = searches,
             asked' = asked \/ asked' = NoRequests
      PROVE  SlotsInv' /\ RequestInv'
  <2>1. SlotsInv'
    BY <1>2 DEF SlotsInv
  <2>2. \A d \in Dirs : asked'[d] <= searches
    <3>1. \A d \in Dirs : asked[d] <= searches /\ 0 <= searches
      BY DEF RequestInv, QueueInv, TypeOK
    <3> QED
      BY <1>2, <3>1 DEF NoRequests
  <2> QED
    BY <1>2, <2>1, <2>2 DEF RequestInv
<1>3. CASE Cancel \/ Disconnect
  BY <1>2, <1>3 DEF Cancel, Disconnect
<1>4. ASSUME NEW d \in Dirs, Listed(d) \/ Failed(d)
      PROVE  /\ SlotsInv' /\ RequestInv'
             /\ running /\ running' => /\ Settled \subseteq Settled'
                                       /\ inFlight' # inFlight => Settled' # Settled
  BY <1>4, AnswerSpares
<1>5. CASE (\E d \in Dirs : OthersAsk(d)) \/ Reconnect \/ UNCHANGED vars
  <2>1. UNCHANGED <<running, queue, inFlight, files, failedDirs, asked, searches>>
    BY <1>5 DEF OthersAsk, Reconnect, vars, members
  <2>2. Settled' = Settled
    BY <2>1 DEF Settled, SeqSet
  <2> QED
    BY <2>1, <2>2 DEF SlotsInv, RequestInv
<1> QED
  BY <1>1, <1>3, <1>4, <1>5 DEF Next, Cancel, Disconnect

\* A search never has more listings in flight than it has slots, nor a slot
\* idle while a directory waits; and it asks for no path twice.
THEOREM SlotsKept == Spec => [](SlotsInv /\ RequestInv)
<1>1. Init => SlotsInv /\ RequestInv
  <2> SUFFICES ASSUME Init PROVE SlotsInv /\ RequestInv
    OBVIOUS
  <2>1. running = FALSE /\ searches = 0 /\ \A d \in Dirs : asked[d] = 0
    BY DEF Init, NoRequests
  <2> QED
    BY <2>1 DEF SlotsInv, RequestInv
<1>2. QueueInv /\ SlotsInv /\ RequestInv /\ [Next]_vars => SlotsInv' /\ RequestInv'
  BY SlotsStep
<1> QED
  BY <1>1, <1>2, QueueInvariance, PTL DEF Spec

\* Each awaited answer settles another directory for good, and nothing else
\* moves a search: with SearchNeverStuck, a search of n directories ends after
\* at most n answers, unless one that is owed never comes.
THEOREM AnswersAdvance == Spec => SearchAdvances
<1>1. QueueInv /\ SlotsInv /\ RequestInv /\ [Next]_vars
        => [running /\ running' => /\ Settled \subseteq Settled'
                                   /\ inFlight' # inFlight => Settled' # Settled]_vars
  BY SlotsStep
<1> QED
  BY <1>1, QueueInvariance, SlotsKept, PTL DEF Spec, SearchAdvances
=============================================================================
