---------------------------- MODULE MatchPairing ----------------------------
(***************************************************************************)
(* matchpairing::computeMatches (src/src/core/MatchPairing.h): the pairs   *)
(* of files, one from each side, whose sizes differ by no more than a      *)
(* given amount.  The files are sorted by size, and each is compared with  *)
(* those above it up to the first one that is too big; two limits cut the  *)
(* work short.                                                             *)
(*                                                                         *)
(* A step is a turn of one of the two loops.  A match is the indices of    *)
(* its files in the sorted list, which stand for their paths and sizes.    *)
(***************************************************************************)
EXTENDS Integers, Sequences, Functions

CONSTANTS Paths,    \* full paths
          Inputs    \* the arguments computeMatches may be called with

FileRecord == [path : Paths, size : Nat, inode : Nat,
               sides : SUBSET {"primary", "secondary"}]

Arguments == [files : Seq(FileRecord), sizeDiffBytes : Nat,
              maxMatches : Nat \ {0}, maxPairsExamined : Nat]

ASSUME MatchPairingAssumption == Inputs \subseteq Arguments

VARIABLES
  args,             \* the arguments, with the files sorted
  i, j,             \* the loop variables
  pairsExamined, matches, truncated,
  result,           \* the matches returned
  returned          \* whether computeMatches has returned

vars == <<args, i, j, pairsExamined, matches, truncated, result, returned>>

files == args.files
Index == DOMAIN files
Match == [primary : Index, secondary : Index]

\* All ways to reorder n things.
Orders(n) == Bijection(1..n, 1..n)
Reordered(s, order) == [k \in 1..Len(s) |-> s[order[k]]]

\* std::sort is not stable: files of the same size may end up in any order.
SortedBySize(s) == \A k, l \in DOMAIN s : k < l => s[k].size <= s[l].size

Init ==
  /\ \E input \in Inputs : \E order \in Orders(Len(input.files)) :
       args = [input EXCEPT !.files = Reordered(input.files, order)]
  /\ SortedBySize(files)
  /\ i = 1 /\ j = 2
  /\ pairsExamined = 0 /\ matches = <<>> /\ truncated = FALSE
  /\ result = <<>> /\ returned = FALSE

-----------------------------------------------------------------------------
InWindow(a, b) == files[b].size - files[a].size <= args.sizeDiffBytes

\* Mutant of Linked: an unknown inode (0) is compared like any other.
SameInode(a, b) == files[a].inode = files[b].inode

Linked(a, b) == files[a].inode # 0 /\ files[a].inode = files[b].inode

Fits(a, b) == "primary" \in files[a].sides /\ "secondary" \in files[b].sides

\* The pair gives a match, in one orientation or the other.
Pairs(a, b) ==
  files[a].path # files[b].path /\ ~Linked(a, b) /\ (Fits(a, b) \/ Fits(b, a))

\* The match it gives: the smaller file is the primary when its side allows.
MatchOf(a, b) == IF Fits(a, b) THEN [primary |-> a, secondary |-> b]
                               ELSE [primary |-> b, secondary |-> a]

OuterLoopGoesOn == ~returned /\ i <= Len(files) /\ ~truncated
InnerLoopGoesOn == OuterLoopGoesOn /\ j <= Len(files) /\ InWindow(i, j)

\* The inner loop is over for file i, or left as the next one is too big.
NextFile ==
  /\ OuterLoopGoesOn /\ ~InnerLoopGoesOn
  /\ i' = i + 1 /\ j' = i + 2
  /\ UNCHANGED <<args, pairsExamined, matches, truncated, result, returned>>

\* Mutant of GiveUp: the limit is hit one pair early.
GiveUpEarly ==
  /\ InnerLoopGoesOn
  /\ pairsExamined' = pairsExamined + 1
  /\ pairsExamined' >= args.maxPairsExamined
  /\ truncated' = TRUE
  /\ UNCHANGED <<args, i, j, matches, result, returned>>

\* One pair more than may be examined.
GiveUp ==
  /\ InnerLoopGoesOn
  /\ pairsExamined' = pairsExamined + 1
  /\ pairsExamined' > args.maxPairsExamined
  /\ truncated' = TRUE
  /\ UNCHANGED <<args, i, j, matches, result, returned>>

\* A pair that gives no match.
Skip ==
  /\ InnerLoopGoesOn /\ ~Pairs(i, j)
  /\ pairsExamined' = pairsExamined + 1
  /\ pairsExamined' <= args.maxPairsExamined
  /\ j' = j + 1
  /\ UNCHANGED <<args, i, matches, truncated, result, returned>>

\* Mutant of Report: both orientations of a pair are reported when both fit.
ReportBoth ==
  /\ InnerLoopGoesOn /\ Pairs(i, j)
  /\ pairsExamined' = pairsExamined + 1
  /\ pairsExamined' <= args.maxPairsExamined
  /\ matches' = matches \o <<MatchOf(i, j)>>
                  \o (IF Fits(i, j) /\ Fits(j, i) THEN <<MatchOf(j, i)>> ELSE <<>>)
  /\ IF Len(matches') >= args.maxMatches
       THEN truncated' = TRUE /\ UNCHANGED j
       ELSE j' = j + 1 /\ UNCHANGED truncated
  /\ UNCHANGED <<args, i, result, returned>>

\* A match, which may be the last one allowed.
Report ==
  /\ InnerLoopGoesOn /\ Pairs(i, j)
  /\ pairsExamined' = pairsExamined + 1
  /\ pairsExamined' <= args.maxPairsExamined
  /\ matches' = Append(matches, MatchOf(i, j))
  /\ IF Len(matches') >= args.maxMatches
       THEN truncated' = TRUE /\ UNCHANGED j
       ELSE j' = j + 1 /\ UNCHANGED truncated
  /\ UNCHANGED <<args, i, result, returned>>

PrimarySize(match) == files[match.primary].size

\* The comparison of the final sort.
Precedes(m, n) == PrimarySize(m) > PrimarySize(n)

\* std::stable_sort: matches that do not differ stay in the order found.
StablySorted(order) ==
  \A k, l \in DOMAIN order : k < l =>
    /\ ~Precedes(matches[order[l]], matches[order[k]])
    /\ Precedes(matches[order[k]], matches[order[l]]) \/ order[k] < order[l]

Return ==
  /\ ~returned /\ ~OuterLoopGoesOn
  /\ \E order \in Orders(Len(matches)) :
       StablySorted(order) /\ result' = Reordered(matches, order)
  /\ returned' = TRUE
  /\ UNCHANGED <<args, i, j, pairsExamined, matches, truncated>>

Next == NextFile \/ GiveUp \/ Skip \/ Report \/ Return

Spec == Init /\ [][Next]_vars
-----------------------------------------------------------------------------
TypeOK ==
  /\ args \in Arguments
  /\ i \in Nat \ {0} /\ j \in Nat /\ i < j
  /\ pairsExamined \in Nat /\ truncated \in BOOLEAN /\ returned \in BOOLEAN
  /\ matches \in Seq(Match) /\ result \in Seq(Match)

(***************************************************************************)
(* What a pair worth reporting is, without the order the files were sorted *)
(* in: one file of each side, of different names, not known to be linked   *)
(* already, with sizes that differ by no more than sizeDiffBytes.          *)
(***************************************************************************)
Candidate(p, s) ==
  /\ "primary" \in files[p].sides /\ "secondary" \in files[s].sides
  /\ files[p].path # files[s].path
  /\ files[p].inode = files[s].inode => files[p].inode = 0
  /\ files[p].size - files[s].size <= args.sizeDiffBytes
  /\ files[s].size - files[p].size <= args.sizeDiffBytes

\* Two matches about the same two files.
SamePair(m, n) == {m.primary, m.secondary} = {n.primary, n.secondary}

About(m, a, b) == {m.primary, m.secondary} = {a, b}

\* Every row returned is a candidate, and no pair of files has two rows.
Sound(rows) ==
  /\ \A k \in DOMAIN rows : Candidate(rows[k].primary, rows[k].secondary)
  /\ \A k, l \in DOMAIN rows : SamePair(rows[k], rows[l]) => k = l

\* Unless a limit was hit, every pair of candidates is returned in one row:
\* leaving the inner loop at the first file that is too big misses nothing,
\* nor does looking only at files further up the list.
ResultIsExact ==
  returned =>
    /\ Sound(result)
    /\ ~truncated => \A p, s \in Index : Candidate(p, s) =>
                        \E k \in DOMAIN result : About(result[k], p, s)

\* "Hitting either reports the results as truncated" (kMaxMatches,
\* kMaxPairsExamined), and nothing else does.
LimitsReported ==
  returned =>
    /\ Len(result) <= args.maxMatches
    /\ truncated <=> \/ Len(result) = args.maxMatches
                     \/ pairsExamined = args.maxPairsExamined + 1
-----------------------------------------------------------------------------
(***************************************************************************)
(* The inductive invariant behind ResultIsExact.                           *)
(***************************************************************************)

\* Pairs the loops have dealt with.
Scanned(a, b) == a < i \/ (a = i /\ b < j)

\* The matches found are candidates; before the loops are cut short, they are
\* those of the pairs scanned.
FoundInv ==
  /\ Sound(matches)
  /\ ~truncated =>
       /\ \A k \in DOMAIN matches : \A a, b \in Index :
            a < b /\ About(matches[k], a, b) => Scanned(a, b)
       /\ \A a, b \in Index :
            a < b /\ Scanned(a, b) /\ (Candidate(a, b) \/ Candidate(b, a)) =>
              \E k \in DOMAIN matches : About(matches[k], a, b)

LimitInv ==
  /\ Len(matches) <= args.maxMatches /\ pairsExamined <= args.maxPairsExamined + 1
  /\ truncated <=> \/ Len(matches) = args.maxMatches
                   \/ pairsExamined = args.maxPairsExamined + 1

ReturnInv ==
  returned => /\ truncated \/ i > Len(files)
              /\ \E order \in Orders(Len(matches)) :
                   result = Reordered(matches, order)

IInv == TypeOK /\ SortedBySize(files) /\ FoundInv /\ LimitInv /\ ReturnInv
=============================================================================
