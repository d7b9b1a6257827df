-------------------------- MODULE MatchResultsModel --------------------------
(***************************************************************************)
(* MatchResultsModel (src/src/models/MatchResultsModel.cpp): the table of  *)
(* matches, each with a check mark and what a link run said of it.  Passive*)
(* state: MatchFinderPanel's actions are made from these.                  *)
(***************************************************************************)
EXTENDS Naturals, Sequences, FiniteSets, Functions

CONSTANTS Files,        \* files of the share
          Message,      \* what a link run reports of a job, "replaced" or else
          MatchLists    \* results a search may have

Match == [primary : Files, secondary : Files]

\* No pair of files is found twice, as MatchPairing!ResultIsExact shows.
ASSUME MatchResultsAssumption ==
  /\ MatchLists \subseteq Seq(Match)
  /\ \A ms \in MatchLists : \A i, k \in DOMAIN ms : ms[i] = ms[k] => i = k

VARIABLES rows,          \* m_rows
          checkedCount,  \* m_checkedCount
          locked         \* m_locked

results == <<rows, checkedCount, locked>>

\* The texts of a job under way (moving aside, linking, ...) are one value.
Status == {"", "under way"} \cup Message
Row    == [match : Match, checked : BOOLEAN, status : Status]

Checked == {i \in DOMAIN rows : rows[i].checked}

\* checkedRows: the indices of the checked rows in ascending order, as the
\* one member of a set.
CheckedRows ==
  {r \in UNION {[1..n -> DOMAIN rows] : n \in 0..Len(rows)} :
     /\ \A i, k \in DOMAIN r : i < k => r[i] < r[k]
     /\ Range(r) = Checked}

\* aggregateCheckState.
AggregateCheckState ==
  IF rows = <<>> \/ checkedCount = 0 THEN "unchecked"
  ELSE IF checkedCount = Len(rows) THEN "checked" ELSE "partial"

\* Mutant of SetMatches: the count is not reset.
SetMatchesKeepsCount(ms) ==
  /\ rows' = [i \in DOMAIN ms |-> [match |-> ms[i], checked |-> FALSE, status |-> ""]]
  /\ UNCHANGED <<checkedCount, locked>>

\* setMatches.  It leaves the lock alone.
SetMatches(ms) ==
  /\ rows' = [i \in DOMAIN ms |-> [match |-> ms[i], checked |-> FALSE, status |-> ""]]
  /\ checkedCount' = 0
  /\ UNCHANGED locked

\* setData, when it changes anything.
SetData(i, checked) ==
  /\ ~locked
  /\ rows[i].checked # checked
  /\ rows' = [rows EXCEPT ![i].checked = checked]
  /\ checkedCount' = IF checked THEN checkedCount + 1 ELSE checkedCount - 1
  /\ UNCHANGED locked

\* setAllChecked, when it changes anything.
SetAllChecked(checked) ==
  /\ ~locked
  /\ \E i \in DOMAIN rows : rows[i].checked # checked
  /\ rows' = [i \in DOMAIN rows |-> [rows[i] EXCEPT !.checked = checked]]
  /\ checkedCount' = IF checked THEN Len(rows) ELSE 0
  /\ UNCHANGED locked

\* setStatus, as a function from rows to rows.
WithStatus(rs, i, status) == [rs EXCEPT ![i].status = status]
=============================================================================
