-------------------------- MODULE MCMatchSearcher --------------------------
(***************************************************************************)
(* A share for MatchSearcher: the root directory "/", with two             *)
(* directories in it, one of which has a directory of its own.             *)
(***************************************************************************)
EXTENDS MatchSearcher, TLC

CONSTANTS root, a, aa, b

Tree == root :> {} @@ a :> {root} @@ b :> {root} @@ aa :> {root, a}

Search(p, pr, s, sr) == [primary |-> p, primaryRecursive |-> pr,
                         secondary |-> s, secondaryRecursive |-> sr]

\* Trees that are disjoint, identical, nested either way, nested below a
\* folder that is not recursive.
Searches ==
  {Search(a, TRUE, b, TRUE), Search(root, TRUE, root, TRUE),
   Search(root, TRUE, a, FALSE), Search(aa, TRUE, root, TRUE),
   Search(root, FALSE, aa, FALSE)}
=============================================================================
