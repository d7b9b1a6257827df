--------------------------- MODULE MatchConflicts ---------------------------
(***************************************************************************)
(* matchconflicts::find (src/src/core/MatchConflicts.h): the check that    *)
(* stands before a run of links.  A job names two files: the primary is    *)
(* kept, the victim (the secondary of its match) replaced by a link to it. *)
(***************************************************************************)

\* Mutants of ConflictFree: one of its two checks forgotten.
NoVictimTwice(js)     == \A i, k \in DOMAIN js : js[i].victim = js[k].victim => i = k
NoPrimaryIsVictim(js) == \A i, k \in DOMAIN js : js[i].primary # js[k].victim

\* find(js).isEmpty(): no file is the victim of two jobs, none is the primary
\* of one job and the victim of one.
ConflictFree(js) ==
  /\ \A i, k \in DOMAIN js : js[i].victim = js[k].victim => i = k
  /\ \A i, k \in DOMAIN js : js[i].primary # js[k].victim
=============================================================================
