---------------------------- MODULE MCMainWindow ----------------------------
(***************************************************************************)
(* An instance of MainWindow for TLC.                                      *)
(***************************************************************************)
EXTENDS MainWindow

CONSTANTS f1, f2, f3

\* No match; two that go together; three, of which the second is in conflict
\* with the others.
MCMatchLists ==
  LET Pair(p, s) == [primary |-> p, secondary |-> s] IN
  {<<>>, <<Pair(f1, f2), Pair(f1, f3)>>,
   <<Pair(f1, f2), Pair(f2, f3), Pair(f1, f3)>>}
=============================================================================
