------------------------- MODULE MatchPairingProofs -------------------------
(***************************************************************************)
(* Proofs about MatchPairing, for any files and limits: the invariant IInv *)
(* of the loops is inductive, and with it the matches returned are exactly *)
(* the candidates, each once, unless a limit was hit, which is reported.   *)
(***************************************************************************)
EXTENDS MatchPairing, TLAPS

USE MatchPairingAssumption

\* A reordering is a list of the same length that holds the same things.
LEMMA ReorderedSeq ==
  ASSUME NEW S, NEW s \in Seq(S), NEW order \in Orders(Len(s))
  PROVE  /\ Reordered(s, order) \in Seq(S)
         /\ Len(Reordered(s, order)) = Len(s)
         /\ DOMAIN Reordered(s, order) = 1..Len(s)
         /\ \A k \in 1..Len(s) : /\ order[k] \in 1..Len(s)
                                 /\ Reordered(s, order)[k] = s[order[k]]
         /\ \A k, l \in 1..Len(s) : order[k] = order[l] => k = l
         /\ \A m \in 1..Len(s) : \E k \in 1..Len(s) : order[k] = m
<1>1. /\ order \in [1..Len(s) -> 1..Len(s)]
      /\ \A k, l \in 1..Len(s) : order[k] = order[l] => k = l
      /\ \A m \in 1..Len(s) : \E k \in 1..Len(s) : order[k] = m
  BY DEF Orders, Bijection, Injection, Surjection, IsInjective
<1>2. \A k \in 1..Len(s) : s[order[k]] \in S
  BY <1>1
<1>3. Reordered(s, order) \in [1..Len(s) -> S]
  BY <1>2 DEF Reordered
<1>4. Len(s) \in Nat
  OBVIOUS
<1>5. Reordered(s, order) \in Seq(S) /\ Len(Reordered(s, order)) = Len(s)
  BY <1>3, <1>4
<1> QED
  BY <1>1, <1>3, <1>5 DEF Reordered

\* What is known of the files and the loop variables.
LEMMA FilesType ==
  ASSUME TypeOK
  PROVE  /\ files \in Seq(FileRecord) /\ Index = 1..Len(files) /\ Len(files) \in Nat
         /\ args.sizeDiffBytes \in Nat /\ args.maxMatches \in Nat \ {0}
         /\ args.maxPairsExamined \in Nat
         /\ \A a \in Index : files[a].size \in Nat
<1>1. args \in Arguments
  BY DEF TypeOK
<1>2. /\ files \in Seq(FileRecord) /\ args.sizeDiffBytes \in Nat
      /\ args.maxMatches \in Nat \ {0} /\ args.maxPairsExamined \in Nat
  BY <1>1 DEF Arguments, files
<1>3. Index = 1..Len(files) /\ Len(files) \in Nat
  BY <1>2 DEF Index
<1>4. \A a \in Index : files[a] \in FileRecord
  BY <1>2, <1>3
<1> QED
  BY <1>2, <1>3, <1>4 DEF FileRecord

\* The initial state satisfies the invariant.
LEMMA InitIInv == Init => IInv
<1> SUFFICES ASSUME Init PROVE IInv
  OBVIOUS
<1>1. PICK input \in Inputs : \E order \in Orders(Len(input.files)) :
        args = [input EXCEPT !.files = Reordered(input.files, order)]
  BY DEF Init
<1>2. PICK order \in Orders(Len(input.files)) :
        args = [input EXCEPT !.files = Reordered(input.files, order)]
  BY <1>1
<1>3. input \in Arguments
  BY DEF MatchPairingAssumption
<1>4. Reordered(input.files, order) \in Seq(FileRecord)
  BY <1>3, ReorderedSeq DEF Arguments
<1>5. args \in Arguments
  BY <1>2, <1>3, <1>4 DEF Arguments
<1>6. TypeOK
  <2>1. matches \in Seq(Match) /\ result \in Seq(Match)
    BY DEF Init
  <2>2. i \in Nat \ {0} /\ j \in Nat /\ i < j /\ pairsExamined \in Nat
    BY DEF Init
  <2>3. truncated \in BOOLEAN /\ returned \in BOOLEAN
    BY DEF Init
  <2> QED
    BY <1>5, <2>1, <2>2, <2>3 DEF TypeOK
<1>7. FoundInv
  BY <1>6, FilesType DEF Init, FoundInv, Sound, Scanned
<1>8. LimitInv
  BY <1>6, FilesType DEF Init, LimitInv
<1> QED
  BY <1>6, <1>7, <1>8 DEF IInv, Init, ReturnInv

\* Beyond the first file that is too big for file i there is no candidate.
LEMMA RestTooBig ==
  ASSUME TypeOK, SortedBySize(files), i \in Index, j \in Index, ~InWindow(i, j),
         NEW b \in Index, j <= b
  PROVE  ~Candidate(i, b) /\ ~Candidate(b, i)
<1>1. files[j].size <= files[b].size
  <2>1. CASE j = b
    BY <2>1, FilesType
  <2>2. CASE j # b
    <3>1. j < b
      BY <2>2, FilesType
    <3> QED
      BY <3>1 DEF SortedBySize, Index
  <2> QED
    BY <2>1, <2>2
<1>2. /\ files[i].size \in Nat /\ files[j].size \in Nat /\ files[b].size \in Nat
      /\ args.sizeDiffBytes \in Nat
  BY FilesType
<1> QED
  BY <1>1, <1>2 DEF Candidate, InWindow

\* A pair that gives no match is no candidate.
LEMMA NoMatchNoCandidate ==
  ASSUME NEW a \in Index, NEW b \in Index, ~Pairs(a, b)
  PROVE  ~Candidate(a, b) /\ ~Candidate(b, a)
BY DEF Candidate, Pairs, Linked, Fits

\* The match a pair gives is a candidate, and about that pair.
LEMMA MatchIsCandidate ==
  ASSUME TypeOK, SortedBySize(files), NEW a \in Index, NEW b \in Index, a < b,
         InWindow(a, b), Pairs(a, b)
  PROVE  /\ MatchOf(a, b) \in Match /\ About(MatchOf(a, b), a, b)
         /\ Candidate(MatchOf(a, b).primary, MatchOf(a, b).secondary)
<1>1. /\ files[a].size \in Nat /\ files[b].size \in Nat /\ args.sizeDiffBytes \in Nat
      /\ files[a].size <= files[b].size
  BY FilesType DEF SortedBySize, Index
<1>2. /\ files[a].size - files[b].size <= args.sizeDiffBytes
      /\ files[b].size - files[a].size <= args.sizeDiffBytes
  BY <1>1 DEF InWindow
<1>3. files[a].inode = files[b].inode => files[a].inode = 0
  BY DEF Pairs, Linked
<1>4. files[b].inode = files[a].inode => files[b].inode = 0
  BY <1>3
<1>5. CASE Fits(a, b)
  BY <1>2, <1>3, <1>5 DEF Candidate, MatchOf, Match, About, Fits, Pairs
<1>6. CASE ~Fits(a, b)
  BY <1>2, <1>4, <1>6 DEF Candidate, MatchOf, Match, About, Fits, Pairs
<1> QED
  BY <1>5, <1>6

\* While the inner loop goes on its pair is one of two files, not yet scanned.
LEMMA PairAtHand ==
  ASSUME TypeOK, InnerLoopGoesOn
  PROVE  i \in Index /\ j \in Index /\ i < j /\ InWindow(i, j) /\ ~Scanned(i, j)
         /\ ~truncated /\ ~returned
<1>1. Index = 1..Len(files) /\ Len(files) \in Nat
  BY FilesType
<1>2. /\ i \in Nat \ {0} /\ j \in Nat /\ i < j /\ i <= Len(files) /\ j <= Len(files)
      /\ InWindow(i, j) /\ ~truncated /\ ~returned
  BY DEF TypeOK, InnerLoopGoesOn, OuterLoopGoesOn
<1> QED
  BY <1>1, <1>2 DEF Scanned

\* The type of the next state, from what a step of the loops does.
LEMMA TypeKept ==
  ASSUME TypeOK, args' = args, i' \in Nat \ {0}, j' \in Nat, i' < j',
         pairsExamined' \in Nat, truncated' \in BOOLEAN, returned' \in BOOLEAN,
         matches' \in Seq(Match), result' \in Seq(Match)
  PROVE  TypeOK'
<1>1. args' \in Arguments
  BY DEF TypeOK
<1>2. Match' = Match
  BY DEF Match, Index, files
<1> QED
  BY <1>1, <1>2 DEF TypeOK

\* The next file.
LEMMA NextFileKeeps ==
  ASSUME IInv, NextFile
  PROVE  IInv'
<1> USE DEF IInv
<1>1. args' = args /\ files' = files /\ Index' = Index /\ matches' = matches
      /\ truncated' = truncated /\ ~truncated /\ ~returned'
  BY DEF NextFile, OuterLoopGoesOn, files, Index
<1>2. TypeOK'
  BY FilesType DEF TypeOK, NextFile, Match, Index, files
<1>3. SortedBySize(files)'
  BY <1>1 DEF SortedBySize
<1>4. FoundInv'
  <2>1. Sound(matches)'
    BY <1>1 DEF FoundInv, Sound, Candidate, SamePair
  <2>2. ASSUME NEW a \in Index, NEW b \in Index, a < b
        PROVE  /\ Scanned(a, b) => Scanned(a, b)'
               /\ Scanned(a, b)' /\ (Candidate(a, b) \/ Candidate(b, a))
                    => Scanned(a, b)
    <3>1. a \in Nat /\ b \in Nat /\ i \in Nat /\ j \in Nat /\ i \in Index
      <4>1. Index = 1..Len(files) /\ Len(files) \in Nat
        BY FilesType
      <4>2. i \in Nat \ {0} /\ j \in Nat /\ i <= Len(files)
        BY DEF TypeOK, NextFile, OuterLoopGoesOn
      <4> QED
        BY <4>1, <4>2
    <3>2. i' = i + 1 /\ j' = i + 2
      BY DEF NextFile
    <3>3. Scanned(a, b)' => a <= i
      BY <3>1, <3>2, <2>2 DEF Scanned
    <3>4. a = i /\ j <= b => ~Candidate(a, b) /\ ~Candidate(b, a)
      <4> HAVE a = i /\ j <= b
      <4>1. j \in Index
        BY <3>1, FilesType DEF TypeOK
      <4>2. ~InWindow(i, j)
        BY <4>1, FilesType DEF NextFile, InnerLoopGoesOn
      <4> QED
        BY <3>1, <4>1, <4>2, RestTooBig
    <3> QED
      BY <3>1, <3>2, <3>3, <3>4 DEF Scanned
  <2>3. \A a, b : (Candidate(a, b)' <=> Candidate(a, b))
    BY <1>1 DEF Candidate
  <2>4. \A k \in DOMAIN matches : \A a, b \in Index :
          a < b /\ About(matches[k], a, b) => Scanned(a, b)'
    BY <1>1, <2>2 DEF FoundInv
  <2>5. \A a, b \in Index :
          a < b /\ Scanned(a, b)' /\ (Candidate(a, b) \/ Candidate(b, a)) =>
            \E k \in DOMAIN matches : About(matches[k], a, b)
    BY <1>1, <2>2 DEF FoundInv
  <2> QED
    BY <1>1, <2>1, <2>3, <2>4, <2>5 DEF FoundInv, About
<1>5. LimitInv' /\ ReturnInv'
  BY <1>1 DEF LimitInv, ReturnInv, NextFile
<1> QED
  BY <1>2, <1>3, <1>4, <1>5

\* The limit of pairs.
LEMMA GiveUpKeeps ==
  ASSUME IInv, GiveUp
  PROVE  IInv'
<1> USE DEF IInv
<1>1. args' = args /\ files' = files /\ Index' = Index /\ matches' = matches
      /\ ~truncated /\ ~returned /\ returned' = returned /\ i' = i /\ j' = j
      /\ pairsExamined' = pairsExamined + 1
      /\ pairsExamined' > args.maxPairsExamined /\ result' = result
  BY DEF GiveUp, InnerLoopGoesOn, OuterLoopGoesOn, files, Index
<1>2. truncated' = TRUE
  BY DEF GiveUp
<1>3. TypeOK'
  <2>1. /\ i \in Nat \ {0} /\ j \in Nat /\ i < j /\ pairsExamined + 1 \in Nat
        /\ matches \in Seq(Match) /\ result \in Seq(Match)
    BY DEF TypeOK
  <2>2. truncated' \in BOOLEAN /\ returned' \in BOOLEAN
    BY <1>1, <1>2 DEF TypeOK
  <2> QED
    BY <1>1, <2>1, <2>2, TypeKept
<1>4. SortedBySize(files)'
  BY <1>1 DEF SortedBySize
<1>5. FoundInv'
  BY <1>1, <1>2 DEF FoundInv, Sound, Candidate, SamePair
<1>6. LimitInv'
  <2>1. pairsExamined <= args.maxPairsExamined + 1 /\ Len(matches) <= args.maxMatches
    BY DEF LimitInv
  <2>2. pairsExamined # args.maxPairsExamined + 1
    BY <1>1 DEF LimitInv
  <2>3. pairsExamined' = args.maxPairsExamined + 1
    BY <1>1, <2>1, <2>2, FilesType DEF TypeOK
  <2> QED
    BY <1>1, <1>2, <2>1, <2>3, FilesType DEF LimitInv
<1> QED
  BY <1>1, <1>2, <1>3, <1>4, <1>5, <1>6 DEF ReturnInv

\* A pair without a match.
LEMMA SkipKeeps ==
  ASSUME IInv, Skip
  PROVE  IInv'
<1> USE DEF IInv
<1>1. args' = args /\ files' = files /\ Index' = Index /\ matches' = matches
      /\ truncated' = truncated /\ returned' = returned /\ ~returned
      /\ i' = i /\ j' = j + 1
      /\ pairsExamined' = pairsExamined + 1
      /\ pairsExamined' <= args.maxPairsExamined /\ result' = result
  BY DEF Skip, InnerLoopGoesOn, OuterLoopGoesOn, files, Index
<1>2. i \in Index /\ j \in Index /\ i < j /\ ~truncated
  BY PairAtHand DEF Skip
<1>3. TypeOK'
  <2>1. /\ i \in Nat \ {0} /\ j + 1 \in Nat /\ i < j + 1 /\ pairsExamined + 1 \in Nat
        /\ truncated \in BOOLEAN /\ returned \in BOOLEAN
        /\ matches \in Seq(Match) /\ result \in Seq(Match)
    BY DEF TypeOK
  <2> QED
    BY <1>1, <2>1, TypeKept
<1>4. SortedBySize(files)'
  BY <1>1 DEF SortedBySize
<1>5. FoundInv'
  <2>1. Sound(matches)'
    BY <1>1 DEF FoundInv, Sound, Candidate, SamePair
  <2>2. ASSUME NEW a \in Index, NEW b \in Index
        PROVE  Scanned(a, b)' <=> Scanned(a, b) \/ (a = i /\ b = j)
    BY <1>1, FilesType DEF Scanned, TypeOK
  <2>3. ~Candidate(i, j) /\ ~Candidate(j, i)
    BY <1>2, NoMatchNoCandidate DEF Skip
  <2>4. \A a, b : (Candidate(a, b)' <=> Candidate(a, b))
    BY <1>1 DEF Candidate
  <2>5. \A k \in DOMAIN matches : \A a, b \in Index :
          a < b /\ About(matches[k], a, b) => Scanned(a, b)'
    BY <1>2, <2>2 DEF FoundInv
  <2>6. \A a, b \in Index :
          a < b /\ Scanned(a, b)' /\ (Candidate(a, b) \/ Candidate(b, a)) =>
            \E k \in DOMAIN matches : About(matches[k], a, b)
    BY <1>2, <2>2, <2>3 DEF FoundInv
  <2>7. \A k \in DOMAIN matches' : \A a, b \in Index' :
          a < b /\ About(matches'[k], a, b) => Scanned(a, b)'
    BY <1>1, <2>5
  <2>8. \A a, b \in Index' :
          a < b /\ Scanned(a, b)' /\ (Candidate(a, b)' \/ Candidate(b, a)') =>
            \E k \in DOMAIN matches' : About(matches'[k], a, b)
    BY <1>1, <2>4, <2>6
  <2> QED
    BY <2>1, <2>7, <2>8 DEF FoundInv, About
<1>6. LimitInv'
  BY <1>1, <1>2, FilesType DEF LimitInv, TypeOK
<1> QED
  BY <1>1, <1>3, <1>4, <1>5, <1>6 DEF ReturnInv

\* A pair with a match.
LEMMA ReportKeeps ==
  ASSUME IInv, Report
  PROVE  IInv'
<1> USE DEF IInv
<1> DEFINE n == Len(matches)
           m == MatchOf(i, j)
<1>1. args' = args /\ files' = files /\ Index' = Index /\ matches' = Append(matches, m)
      /\ ~truncated /\ returned' = returned /\ ~returned /\ i' = i
      /\ pairsExamined' = pairsExamined + 1
      /\ pairsExamined' <= args.maxPairsExamined /\ result' = result
  BY DEF Report, InnerLoopGoesOn, OuterLoopGoesOn, files, Index
<1>2. /\ Len(matches') >= args.maxMatches => truncated' = TRUE /\ j' = j
      /\ ~(Len(matches') >= args.maxMatches) => truncated' = FALSE /\ j' = j + 1
  BY <1>1 DEF Report, TypeOK
<1>3. i \in Index /\ j \in Index /\ i < j /\ ~Scanned(i, j)
  BY PairAtHand DEF Report
<1>4. m \in Match /\ About(m, i, j) /\ Candidate(m.primary, m.secondary)
  BY <1>3, PairAtHand, MatchIsCandidate DEF Report
<1>5. /\ matches \in Seq(Match) /\ n \in Nat /\ DOMAIN matches = 1..n
      /\ matches' \in Seq(Match) /\ Len(matches') = n + 1
      /\ DOMAIN matches' = 1..(n + 1) /\ matches'[n + 1] = m
      /\ \A k \in 1..n : matches'[k] = matches[k]
  BY <1>1, <1>4 DEF TypeOK
<1>6. TypeOK'
  <2>1. /\ i \in Nat \ {0} /\ j \in Nat /\ i < j /\ pairsExamined + 1 \in Nat
        /\ returned \in BOOLEAN /\ result \in Seq(Match)
    BY DEF TypeOK
  <2>2. truncated' \in BOOLEAN
    BY <1>2
  <2>3. j' \in Nat /\ i < j'
    BY <1>2, <2>1
  <2> QED
    BY <1>1, <1>5, <2>1, <2>2, <2>3, TypeKept
<1>7. SortedBySize(files)'
  BY <1>1 DEF SortedBySize
<1>8. \A a, b : (Candidate(a, b)' <=> Candidate(a, b))
  BY <1>1 DEF Candidate
<1>9. Sound(matches)'
  <2>1. \A k \in 1..(n + 1) : Candidate(matches'[k].primary, matches'[k].secondary)
    BY <1>4, <1>5 DEF FoundInv, Sound
  <2>2. \A k \in 1..n : ~SamePair(matches[k], m)
    <3> SUFFICES ASSUME NEW k \in 1..n, SamePair(matches[k], m) PROVE FALSE
      OBVIOUS
    <3>1. About(matches[k], i, j)
      BY <1>4 DEF SamePair, About
    <3> QED
      BY <1>1, <1>3, <1>5, <3>1 DEF FoundInv
  <2>3. \A k \in 1..n : ~SamePair(m, matches[k])
    BY <2>2 DEF SamePair
  <2>4. \A k, l \in 1..n : SamePair(matches[k], matches[l]) => k = l
    BY <1>5 DEF FoundInv, Sound
  <2>5. ASSUME NEW k \in 1..(n + 1), NEW l \in 1..(n + 1), SamePair(matches'[k], matches'[l])
        PROVE  k = l
    <3>1. CASE k \in 1..n /\ l \in 1..n
      BY <1>5, <2>4, <2>5, <3>1
    <3>2. CASE k \in 1..n /\ l = n + 1
      BY <1>5, <2>2, <2>5, <3>2
    <3>3. CASE k = n + 1 /\ l \in 1..n
      BY <1>5, <2>3, <2>5, <3>3
    <3> QED
      BY <1>5, <3>1, <3>2, <3>3
  <2> QED
    BY <1>5, <1>8, <2>1, <2>5 DEF Sound, SamePair
<1>10. FoundInv'
  <2>1. CASE Len(matches') >= args.maxMatches
    BY <1>2, <1>9, <2>1 DEF FoundInv
  <2>2. CASE ~(Len(matches') >= args.maxMatches)
    <3>1. ASSUME NEW a \in Index, NEW b \in Index
          PROVE  Scanned(a, b)' <=> Scanned(a, b) \/ (a = i /\ b = j)
      BY <1>1, <1>2, <2>2, FilesType DEF Scanned, TypeOK
    <3>2. \A k \in 1..(n + 1) : \A a, b \in Index :
            a < b /\ About(matches'[k], a, b) => Scanned(a, b)'
      <4>1. \A k \in 1..n : \A a, b \in Index :
              a < b /\ About(matches[k], a, b) => Scanned(a, b)'
        BY <1>1, <1>5, <3>1 DEF FoundInv
      <4>2. ASSUME NEW a \in Index, NEW b \in Index, a < b, About(m, a, b)
            PROVE  Scanned(a, b)'
        <5>1. {a, b} = {i, j}
          BY <1>4, <4>2 DEF About
        <5>2. a = i /\ b = j
          <6>1. a \in Nat /\ b \in Nat /\ i \in Nat /\ j \in Nat
            BY <1>3, FilesType
          <6>2. (a = i /\ b = j) \/ (a = j /\ b = i)
            BY <4>2, <5>1
          <6> QED
            BY <1>3, <4>2, <6>1, <6>2
        <5> QED
          BY <3>1, <5>2
      <4> QED
        BY <1>5, <4>1, <4>2
    <3>3. \A a, b \in Index :
            a < b /\ Scanned(a, b)' /\ (Candidate(a, b) \/ Candidate(b, a)) =>
              \E k \in 1..(n + 1) : About(matches'[k], a, b)
      <4> SUFFICES ASSUME NEW a \in Index, NEW b \in Index, a < b, Scanned(a, b)',
                          Candidate(a, b) \/ Candidate(b, a)
                   PROVE  \E k \in 1..(n + 1) : About(matches'[k], a, b)
        OBVIOUS
      <4>1. CASE a = i /\ b = j
        BY <1>4, <1>5, <4>1
      <4>2. CASE Scanned(a, b)
        <5>1. PICK k \in 1..n : About(matches[k], a, b)
          BY <1>1, <1>5, <4>2 DEF FoundInv
        <5>2. k \in 1..(n + 1) /\ About(matches'[k], a, b)
          BY <1>5, <5>1
        <5> QED
          BY <5>2
      <4> QED
        BY <3>1, <4>1, <4>2
    <3>4. \A k \in DOMAIN matches' : \A a, b \in Index' :
            a < b /\ About(matches'[k], a, b) => Scanned(a, b)'
      BY <1>1, <1>5, <3>2
    <3>5. \A a, b \in Index' :
            a < b /\ Scanned(a, b)' /\ (Candidate(a, b)' \/ Candidate(b, a)') =>
              \E k \in DOMAIN matches' : About(matches'[k], a, b)
      BY <1>1, <1>5, <1>8, <3>3
    <3> QED
      BY <1>9, <3>4, <3>5 DEF FoundInv, About
  <2> QED
    BY <2>1, <2>2
<1>11. LimitInv'
  <2>1. n <= args.maxMatches /\ n # args.maxMatches
    BY <1>1 DEF LimitInv
  <2>2. /\ n + 1 <= args.maxMatches
        /\ pairsExamined' <= args.maxPairsExamined + 1
        /\ pairsExamined' # args.maxPairsExamined + 1
    BY <1>1, <1>5, <2>1, FilesType DEF TypeOK
  <2>3. truncated' = TRUE <=> n + 1 = args.maxMatches
    BY <1>2, <1>5, <2>2, FilesType
  <2>4. truncated' <=> n + 1 = args.maxMatches
    BY <1>6, <2>3 DEF TypeOK
  <2> QED
    BY <1>1, <1>5, <2>2, <2>4 DEF LimitInv
<1> QED
  BY <1>1, <1>6, <1>7, <1>10, <1>11 DEF ReturnInv

\* A step that leaves the loops alone keeps what is known of them.
LEMMA LoopsKept ==
  ASSUME TypeOK, FoundInv, LimitInv, args' = args, i' = i, j' = j, matches' = matches,
         pairsExamined' = pairsExamined, truncated' = truncated
  PROVE  FoundInv' /\ LimitInv'
<1>1. files' = files /\ Index' = Index
  BY DEF files, Index
<1>2. \A a, b : (Candidate(a, b)' <=> Candidate(a, b))
  BY <1>1 DEF Candidate
<1>3. \A a, b : (Scanned(a, b)' <=> Scanned(a, b))
  BY DEF Scanned
<1>4. Sound(matches)'
  BY <1>2 DEF FoundInv, Sound, SamePair
<1>5. CASE truncated
  BY <1>4, <1>5 DEF FoundInv, LimitInv
<1>6. CASE ~truncated
  <2>1. \A k \in DOMAIN matches' : \A a, b \in Index' :
          a < b /\ About(matches'[k], a, b) => Scanned(a, b)'
    BY <1>1, <1>3, <1>6 DEF FoundInv
  <2>2. \A a, b \in Index' :
          a < b /\ Scanned(a, b)' /\ (Candidate(a, b)' \/ Candidate(b, a)') =>
            \E k \in DOMAIN matches' : About(matches'[k], a, b)
    BY <1>1, <1>2, <1>3, <1>6 DEF FoundInv
  <2> QED
    BY <1>4, <1>6, <2>1, <2>2 DEF FoundInv, LimitInv, About
<1> QED
  BY <1>5, <1>6

\* The final sort.
LEMMA ReturnKeeps ==
  ASSUME IInv, Return
  PROVE  IInv'
<1> USE DEF IInv
<1>1. args' = args /\ files' = files /\ Index' = Index /\ matches' = matches
      /\ truncated' = truncated /\ returned' = TRUE /\ i' = i /\ j' = j
      /\ pairsExamined' = pairsExamined
  BY DEF Return, files, Index
<1>2. PICK order \in Orders(Len(matches)) : result' = Reordered(matches, order)
  BY DEF Return
<1>3. matches \in Seq(Match)
  BY DEF TypeOK
<1>4. TypeOK'
  <2>1. /\ i \in Nat \ {0} /\ j \in Nat /\ i < j /\ pairsExamined \in Nat
        /\ truncated \in BOOLEAN
    BY DEF TypeOK
  <2>2. result' \in Seq(Match)
    BY <1>2, <1>3, ReorderedSeq
  <2>3. returned' \in BOOLEAN
    BY <1>1
  <2> QED
    BY <1>1, <1>3, <2>1, <2>2, <2>3, TypeKept
<1>5. SortedBySize(files)'
  BY <1>1 DEF SortedBySize
<1>6. FoundInv' /\ LimitInv'
  BY <1>1, LoopsKept
<1>7. truncated \/ i > Len(files)
  BY FilesType DEF Return, OuterLoopGoesOn, TypeOK
<1>8. ReturnInv'
  BY <1>1, <1>2, <1>7 DEF ReturnInv, Orders, Reordered
<1> QED
  BY <1>4, <1>5, <1>6, <1>8

\* computeMatches keeps to its types, its files sorted and its matches those of
\* the pairs scanned so far, whatever the files and the limits.
THEOREM Invariance == Spec => []IInv
<1>1. Init => IInv
  BY InitIInv
<1>2. IInv /\ [Next]_vars => IInv'
  <2> SUFFICES ASSUME IInv, [Next]_vars PROVE IInv'
    OBVIOUS
  <2>1. CASE NextFile
    BY <2>1, NextFileKeeps
  <2>2. CASE GiveUp
    BY <2>2, GiveUpKeeps
  <2>3. CASE Skip
    BY <2>3, SkipKeeps
  <2>4. CASE Report
    BY <2>4, ReportKeeps
  <2>5. CASE Return
    BY <2>5, ReturnKeeps
  <2>6. CASE UNCHANGED vars
    <3>1. TypeOK' /\ SortedBySize(files)'
      BY <2>6 DEF vars, IInv, TypeOK, Match, Index, files, SortedBySize
    <3>2. FoundInv' /\ LimitInv'
      BY <2>6, LoopsKept DEF vars, IInv
    <3>3. ReturnInv'
      BY <2>6 DEF vars, IInv, ReturnInv, files
    <3> QED
      BY <3>1, <3>2, <3>3 DEF IInv
  <2> QED
    BY <2>1, <2>2, <2>3, <2>4, <2>5, <2>6 DEF Next
<1> QED
  BY <1>1, <1>2, PTL DEF Spec

\* What is returned is the matches found, in another order.
LEMMA ReturnedAll ==
  ASSUME IInv, returned
  PROVE  /\ Len(result) = Len(matches) /\ DOMAIN result = DOMAIN matches
         /\ \A k \in DOMAIN result : \E o \in DOMAIN matches : result[k] = matches[o]
         /\ \A o \in DOMAIN matches : \E k \in DOMAIN result : result[k] = matches[o]
         /\ Sound(result)
<1>1. matches \in Seq(Match) /\ DOMAIN matches = 1..Len(matches)
  BY DEF IInv, TypeOK
<1>2. PICK order \in Orders(Len(matches)) : result = Reordered(matches, order)
  BY DEF IInv, ReturnInv
<1>3. /\ Len(result) = Len(matches) /\ DOMAIN result = 1..Len(matches)
      /\ \A k \in 1..Len(matches) : /\ order[k] \in 1..Len(matches)
                                    /\ result[k] = matches[order[k]]
      /\ \A k, l \in 1..Len(matches) : order[k] = order[l] => k = l
      /\ \A o \in 1..Len(matches) : \E k \in 1..Len(matches) : order[k] = o
  <2>1. \A S : \A t \in Seq(S) : \A o \in Orders(Len(t)) :
          /\ Len(Reordered(t, o)) = Len(t)
          /\ DOMAIN Reordered(t, o) = 1..Len(t)
          /\ \A k \in 1..Len(t) : /\ o[k] \in 1..Len(t)
                                  /\ Reordered(t, o)[k] = t[o[k]]
          /\ \A k, l \in 1..Len(t) : o[k] = o[l] => k = l
          /\ \A m \in 1..Len(t) : \E k \in 1..Len(t) : o[k] = m
    BY ReorderedSeq
  <2> QED
    BY <1>1, <1>2, <2>1
<1>4. Sound(matches)
  BY DEF IInv, FoundInv
<1>5. Sound(result)
  <2>1. \A k \in 1..Len(matches) : Candidate(result[k].primary, result[k].secondary)
    BY <1>1, <1>3, <1>4 DEF Sound
  <2>2. ASSUME NEW k \in 1..Len(matches), NEW l \in 1..Len(matches),
               SamePair(result[k], result[l])
        PROVE  k = l
    <3>1. SamePair(matches[order[k]], matches[order[l]])
      BY <1>3, <2>2
    <3>2. order[k] \in DOMAIN matches /\ order[l] \in DOMAIN matches
      BY <1>1, <1>3
    <3>3. order[k] = order[l]
      BY <1>4, <3>1, <3>2 DEF Sound
    <3> QED
      BY <1>3, <3>3
  <2> QED
    BY <1>3, <2>1, <2>2 DEF Sound
<1>6. \A k \in DOMAIN result : \E o \in DOMAIN matches : result[k] = matches[o]
  BY <1>1, <1>3
<1>7. ASSUME NEW o \in DOMAIN matches
      PROVE  \E k \in DOMAIN result : result[k] = matches[o]
  <2>1. PICK k \in 1..Len(matches) : order[k] = o
    BY <1>1, <1>3
  <2> QED
    BY <1>3, <2>1
<1> QED
  BY <1>1, <1>3, <1>5, <1>6, <1>7

\* ResultIsExact for any files: no row that should not be there, none twice,
\* and none missing unless a limit was hit.  The sort makes leaving the inner
\* loop early sound.
THEOREM Exact == Spec => []ResultIsExact
<1>1. IInv => ResultIsExact
  <2> SUFFICES ASSUME IInv, returned PROVE ResultIsExact
    BY DEF ResultIsExact
  <2>1. Sound(result)
    BY ReturnedAll
  <2>2. ASSUME ~truncated, NEW p \in Index, NEW s \in Index, Candidate(p, s)
        PROVE  \E k \in DOMAIN result : About(result[k], p, s)
    <3>1. Index = 1..Len(files) /\ Len(files) \in Nat
      BY FilesType DEF IInv
    <3>2. i > Len(files) /\ i \in Nat
      BY <2>2 DEF IInv, ReturnInv, TypeOK
    <3>3. \A a, b \in Index : Scanned(a, b)
      BY <3>1, <3>2 DEF Scanned
    <3>4. p # s
      BY <2>2 DEF Candidate
    <3>5. CASE p < s
      BY <2>2, <3>3, <3>5, ReturnedAll DEF IInv, FoundInv
    <3>6. CASE s < p
      <4>1. \E k \in DOMAIN result : About(result[k], s, p)
        BY <2>2, <3>3, <3>6, ReturnedAll DEF IInv, FoundInv
      <4> QED
        BY <4>1 DEF About
    <3> QED
      BY <3>1, <3>4, <3>5, <3>6
  <2> QED
    BY <2>1, <2>2 DEF ResultIsExact
<1> QED
  BY <1>1, Invariance, PTL

\* LimitsReported for any files and limits: truncated says whether a limit was
\* hit, and no more matches are returned than allowed.
THEOREM Limits == Spec => []LimitsReported
<1>1. IInv => LimitsReported
  BY ReturnedAll DEF IInv, LimitInv, LimitsReported
<1> QED
  BY <1>1, Invariance, PTL
=============================================================================
