---------------------------- MODULE MCLinkRunner ----------------------------
(***************************************************************************)
(* Instances of LinkRunner for TLC.                                        *)
(***************************************************************************)
EXTENDS LinkRunner, FiniteSets, TLC

CONSTANTS f1, f2, f3, i1, i2, i3, i4

\* A directory that holds the given files, and one of them possibly with an
\* aside name left over from an earlier run.
ShareOf(names, tmps) ==
  [p \in Path |-> IF p[2] = "name" /\ p[1] \in DOMAIN names THEN names[p[1]]
                  ELSE IF p[2] = "tmp" /\ p[1] \in DOMAIN tmps THEN tmps[p[1]]
                  ELSE NoFile]

\* Two files: both there; the same file twice; one gone since the search; one
\* with a leftover aside name.
SharesOfTwo ==
  {ShareOf(f1 :> i1 @@ f2 :> i2, <<>>), ShareOf(f1 :> i1 @@ f2 :> i1, <<>>),
   ShareOf(f1 :> i1, <<>>), ShareOf(f1 :> i1 @@ f2 :> i2, f2 :> i3)}

\* Three files with contents of their own.
SharesOfThree == {ShareOf(f1 :> i1 @@ f2 :> i2 @@ f3 :> i3, <<>>)}
=============================================================================
