--------------------------- MODULE MCMatchPairing ---------------------------
(***************************************************************************)
(* Arguments for MatchPairing: three files, one of which may be listed     *)
(* twice, some linked already, or four files without that; on every choice *)
(* of sides, with and without limits that are hit.  The files are given by *)
(* size, as the sort would leave them in any case; those of the same size  *)
(* it may still reorder.                                                   *)
(***************************************************************************)
EXTENDS MatchPairing

CONSTANTS p1, p2, p3, p4

SomeSides == SUBSET {"primary", "secondary"} \ {{}}

FilesOf(paths, sizes, inodes) ==
  LET n == Len(sizes) IN
  {[k \in 1..n |-> [path |-> paths[k], size |-> sizes[k], inode |-> inodes[k],
                    sides |-> sides[k]]] : sides \in [1..n -> SomeSides]}

Threes ==
  UNION {FilesOf(paths, sizes, inodes) :
           paths  \in {<<p1, p2, p3>>, <<p1, p2, p2>>},
           sizes  \in {<<0, 0, 0>>, <<0, 0, 1>>, <<0, 1, 1>>, <<0, 1, 2>>, <<0, 2, 2>>},
           inodes \in {<<0, 0, 0>>, <<1, 1, 0>>, <<1, 2, 2>>}}

Fours ==
  UNION {FilesOf(<<p1, p2, p3, p4>>, sizes, <<0, 0, 0, 0>>) :
           sizes \in {<<0, 0, 1, 1>>, <<0, 1, 1, 2>>, <<0, 0, 0, 1>>, <<0, 1, 2, 2>>}}

SomeInputs ==
  [files : Threes \cup Fours, sizeDiffBytes : {0, 1}, maxMatches : {2, 9},
   maxPairsExamined : {2, 9}]
=============================================================================
