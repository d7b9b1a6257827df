----------------------------- MODULE SessionOps -----------------------------
(***************************************************************************)
(* What SmbSession promises the callers of its mutating operations         *)
(* (renameFile, createHardLink, removeFile): a call returns a fresh id at  *)
(* once, and that id is completed once, by operationSucceeded or           *)
(* operationFailed, in a step of its own and never inside the call.        *)
(***************************************************************************)
EXTENDS Naturals

CONSTANT Ids  \* the ids there are: 1, 2, 3, ... up to some bound or without one

VARIABLES nextOpId,   \* the id the next call will return
          owed        \* ids returned and not yet completed

vars == <<nextOpId, owed>>

Init == nextOpId = 1 /\ owed = {}

Call ==
  /\ nextOpId \in Ids
  /\ owed' = owed \cup {nextOpId}
  /\ nextOpId' = nextOpId + 1

Complete(id) ==
  /\ id \in owed
  /\ owed' = owed \ {id}
  /\ UNCHANGED nextOpId

Next == Call \/ \E id \in owed : Complete(id)

Spec == Init /\ [][Next]_vars

\* Every call is completed at some time.
FairSpec == Spec /\ \A id \in Ids : WF_vars(Complete(id))
=============================================================================
