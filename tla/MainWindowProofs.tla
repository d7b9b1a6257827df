-------------------------- MODULE MainWindowProofs --------------------------
(***************************************************************************)
(* Proofs about MainWindow, for any files, paths and results of searches.  *)
(*                                                                         *)
(* The properties are inductive together.  That a search and a run of      *)
(* links exclude each other rests on what the Start button shows, what the *)
(* button shows on its being updated in every step, and that the rows of a *)
(* run stay those confirmed rests on both.                                 *)
(***************************************************************************)
EXTENDS MainWindow, FiniteSetTheorems, TLAPS

Inductive ==
  /\ IInv /\ OneActivity /\ StatusIsOfItsMatch /\ RunIsAsConfirmed
  /\ ControlsCurrent /\ WrittenThrough

(***************************************************************************)
(* The table and the runs are disturbed by ten of the actions only.        *)
(***************************************************************************)
table == <<results, said, header, searching, run, box>>

Quiet ==
  \/ Connect \/ Disconnected \/ Connected
  \/ panel = "live" /\ Within(\E s \in Sides, text \in Texts : Type(s, text))
  \/ panel = "live" /\ Within(\E p \in Paths : Listed(p) \/ ListFailed(p) \/ OthersList(p))
  \/ panel # "none" /\ Within(EditingFinished)
  \/ UNCHANGED vars

Gone == PanelDeleted \/ Crash

Searches ==
  \/ StartSearch \/ CancelSearch \/ OnSearchFailed
  \/ \E ms \in MatchLists : OnSearchFinished(ms)

Marks == (\E i \in DOMAIN rows, checked \in BOOLEAN : Check(i, checked)) \/ ToggleAll

Links == Dismissed \/ Confirmed \/ \E message \in Message : JobFinished(message)

LEMMA Steps ==
  ASSUME [Next]_vars
  PROVE  \/ Quiet \/ Gone
         \/ panel = "live" /\ Within(Searches)
         \/ panel = "live" /\ Within(Marks)
         \/ panel = "live" /\ Within(OnLinkSelectedClicked)
         \/ panel # "none" /\ Within(Links)
<1>1. CASE PanelStep
  <2>1. CASE panel = "live" /\ Within(LivePanel)
    BY <2>1 DEF LivePanel, Within, Quiet, Searches, Marks
  <2>2. CASE panel # "none" /\ Within(AnyPanel)
    BY <2>2 DEF AnyPanel, Within, Quiet, Links
  <2> QED BY <1>1, <2>1, <2>2 DEF PanelStep
<1>2. CASE ~PanelStep
  BY <1>2 DEF Next, Quiet, Gone
<1> QED BY <1>1, <1>2

LEMMA QuietKeepsTable ==
  ASSUME Quiet
  PROVE  UNCHANGED table
<1>1. CASE Connect \/ UNCHANGED vars
  BY <1>1 DEF Connect, vars, panelVars, table, results, run, box
<1>2. CASE Disconnected
  BY <1>2 DEF Disconnected, table, results, run, box
<1>3. CASE Connected
  BY <1>3 DEF Connected, BeginPathValidation, table, results, run, box
<1>4. CASE Within(\E s \in Sides, text \in Texts : Type(s, text))
  BY <1>4 DEF Within, Type, table, results, run, box
<1>5. CASE Within(\E p \in Paths : Listed(p) \/ ListFailed(p) \/ OthersList(p))
  BY <1>5 DEF Within, Listed, ListFailed, OthersList, table, results, run, box
<1>6. CASE Within(EditingFinished)
  BY <1>6 DEF Within, EditingFinished, table, results, run, box
<1> QED BY <1>1, <1>2, <1>3, <1>4, <1>5, <1>6 DEF Quiet

LEMMA GoneClearsTable ==
  ASSUME Gone
  PROVE  /\ rows' = <<>> /\ checkedCount' = 0 /\ locked' = FALSE
         /\ said' = <<>> /\ header' = "unchecked" /\ searching' = FALSE
         /\ jobs' = <<>> /\ current' = 0 /\ reported' = <<>>
         /\ jobRows' = <<>> /\ dialog' = "none" /\ picked' = <<>>
BY DEF Gone, PanelDeleted, Crash, ProcessEnds, PanelGone, Runner!Gone, Runner!Over

(***************************************************************************)
(* Types.                                                                  *)
(***************************************************************************)
Jobs == Seq([primary : Files, victim : Files])

TableType ==
  /\ rows \in Seq(Row) /\ checkedCount \in Nat /\ locked \in BOOLEAN
  /\ searching \in BOOLEAN /\ dialog \in Boxes
  /\ jobs \in Jobs /\ current \in Nat
  /\ jobRows \in Seq(Nat) /\ picked \in Seq(Nat)
  /\ header \in {"unchecked", "partial", "checked"}

FormType ==
  /\ edit \in [Sides -> Texts] /\ typing \in Sides \cup {Nothing}
  /\ saved \in [Sides -> Texts] /\ validating \in [Sides -> Texts]
  /\ owed \in [Paths -> Nat]

ControlsType == {startEnabled, linkEnabled, formEnabled} \subseteq BOOLEAN

LEMMA TypeParts == TypeOK <=> TableType /\ FormType /\ ControlsType
BY DEF TypeOK, TableType, FormType, ControlsType, Jobs

\* The new rows of a table are rows.
LEMMA NewRowsType ==
  ASSUME NEW ms \in Seq(Match), SetMatches(ms)
  PROVE  /\ rows' \in Seq(Row) /\ DOMAIN rows' = DOMAIN ms
         /\ \A i \in DOMAIN ms : rows'[i].match = ms[i] /\ rows'[i].status = ""
         /\ \A i \in DOMAIN ms : ~rows'[i].checked
         /\ checkedCount' = 0 /\ locked' = locked
<1>1. DOMAIN ms = 1..Len(ms) /\ Len(ms) \in Nat
  OBVIOUS
<1> DEFINE new(i) == [match |-> ms[i], checked |-> FALSE, status |-> ""]
<1>2. \A i \in DOMAIN ms : new(i) \in Row
  BY DEF Row, Status
<1>3. rows' = [i \in 1..Len(ms) |-> new(i)]
  BY <1>1 DEF SetMatches
<1>4. rows' \in Seq(Row)
  <2> HIDE DEF new
  <2> QED BY <1>1, <1>2, <1>3
<1>5. \A i \in DOMAIN ms : new(i).match = ms[i] /\ new(i).status = "" /\ ~new(i).checked
  OBVIOUS
<1>6. DOMAIN rows' = DOMAIN ms /\ \A i \in DOMAIN ms : rows'[i] = new(i)
  <2> HIDE DEF new
  <2> QED BY <1>1, <1>3
<1>7. checkedCount' = 0 /\ locked' = locked
  BY DEF SetMatches
<1> HIDE DEF new
<1> QED BY <1>4, <1>5, <1>6, <1>7

\* Rows that change their marks or status only.
LEMMA ChangedRowsType ==
  ASSUME TableType, NEW rs \in Seq(Row), NEW i \in DOMAIN rs
  PROVE  /\ \A status \in Status : /\ WithStatus(rs, i, status) \in Seq(Row)
                                    /\ DOMAIN WithStatus(rs, i, status) = DOMAIN rs
         /\ \A checked \in BOOLEAN : [rs EXCEPT ![i].checked = checked] \in Seq(Row)
<1>1. DOMAIN rs = 1..Len(rs) /\ Len(rs) \in Nat /\ \A k \in DOMAIN rs : rs[k] \in Row
  OBVIOUS
<1>2. \A status \in Status : [rs[i] EXCEPT !.status = status] \in Row
  BY <1>1 DEF Row
<1>3. \A checked \in BOOLEAN : [rs[i] EXCEPT !.checked = checked] \in Row
  BY <1>1 DEF Row
<1>4. \A row \in Row : /\ [rs EXCEPT ![i] = row] \in Seq(Row)
                        /\ DOMAIN [rs EXCEPT ![i] = row] = DOMAIN rs
  BY <1>1
<1>5. \A status : WithStatus(rs, i, status) = [rs EXCEPT ![i] = [rs[i] EXCEPT !.status = status]]
  BY DEF WithStatus
<1>6. \A checked : [rs EXCEPT ![i].checked = checked]
                     = [rs EXCEPT ![i] = [rs[i] EXCEPT !.checked = checked]]
  OBVIOUS
<1>7. \A status \in Status : /\ WithStatus(rs, i, status) \in Seq(Row)
                             /\ DOMAIN WithStatus(rs, i, status) = DOMAIN rs
  BY <1>2, <1>4, <1>5
<1>8. \A checked \in BOOLEAN : [rs EXCEPT ![i].checked = checked] \in Seq(Row)
  BY <1>3, <1>4, <1>6
<1> QED BY <1>7, <1>8

\* The jobs of some rows.
LEMMA JobsOfType ==
  ASSUME TableType, NEW r \in CheckedRows
  PROVE  /\ r \in Seq(Nat) /\ \A k \in DOMAIN r : r[k] \in DOMAIN rows
         /\ JobsOf(r) \in Jobs /\ DOMAIN JobsOf(r) = DOMAIN r
         /\ \A k \in DOMAIN r : JobsOf(r)[k] = JobOf(rows[r[k]].match)
         /\ Len(JobsOf(r)) = Len(r) /\ DOMAIN r = 1..Len(r)
<1>1. DOMAIN rows = 1..Len(rows) /\ Len(rows) \in Nat /\ \A k \in DOMAIN rows : rows[k] \in Row
  BY DEF TableType
<1>2. PICK n \in 0..Len(rows) : r \in [1..n -> DOMAIN rows]
  BY DEF CheckedRows
<1>3. r \in Seq(Nat) /\ DOMAIN r = 1..n /\ Len(r) = n
  BY <1>1, <1>2
<1>4. \A k \in DOMAIN r : JobOf(rows[r[k]].match) \in [primary : Files, victim : Files]
  BY <1>1, <1>2 DEF JobOf, Row, Match
<1>5. JobsOf(r) = [k \in 1..n |-> JobOf(rows[r[k]].match)]
  BY <1>3 DEF JobsOf
<1>6. JobsOf(r) \in Jobs
  <2> DEFINE Job == [primary : Files, victim : Files]
  <2> HIDE DEF Job
  <2>1. \A k \in 1..n : JobOf(rows[r[k]].match) \in Job
    BY <1>3, <1>4 DEF Job
  <2>2. JobsOf(r) \in Seq(Job)
    BY <2>1, <1>1, <1>5
  <2> QED BY <2>2 DEF Jobs, Job
<1>7. DOMAIN JobsOf(r) = DOMAIN r /\ Len(JobsOf(r)) = Len(r)
  BY <1>1, <1>3, <1>5
<1>8. \A k \in DOMAIN r : JobsOf(r)[k] = JobOf(rows[r[k]].match)
  BY <1>3, <1>5
<1> QED BY <1>2, <1>3, <1>6, <1>7, <1>8

(***************************************************************************)
(* Counting the check marks.                                               *)
(***************************************************************************)
LEMMA RowsDomain ==
  ASSUME TableType
  PROVE  /\ DOMAIN rows = 1..Len(rows) /\ Len(rows) \in Nat
         /\ \A i \in DOMAIN rows : rows[i] \in Row
         /\ IsFiniteSet(DOMAIN rows) /\ Cardinality(DOMAIN rows) = Len(rows)
<1>1. /\ DOMAIN rows = 1..Len(rows) /\ Len(rows) \in Nat
      /\ \A i \in DOMAIN rows : rows[i] \in Row
  BY DEF TableType
<1>2. IsFiniteSet(1..Len(rows)) /\ Cardinality(1..Len(rows)) = Len(rows)
  BY <1>1, FS_Interval
<1> QED BY <1>1, <1>2

MarkedIn(rs) == {i \in DOMAIN rs : rs[i].checked}

LEMMA Counting ==
  ASSUME NEW rs \in Seq(Row), NEW count, count = Cardinality(MarkedIn(rs))
  PROVE  /\ IsFiniteSet(MarkedIn(rs)) /\ count \in Nat
         /\ count = 0 <=> MarkedIn(rs) = {}
         /\ count = Len(rs) <=> MarkedIn(rs) = DOMAIN rs
         /\ rs = <<>> => MarkedIn(rs) = {}
<1>1. DOMAIN rs = 1..Len(rs) /\ Len(rs) \in Nat /\ MarkedIn(rs) \subseteq DOMAIN rs
  BY DEF MarkedIn
<1>2. IsFiniteSet(DOMAIN rs) /\ Cardinality(DOMAIN rs) = Len(rs)
  <2>1. IsFiniteSet(1..Len(rs)) /\ Cardinality(1..Len(rs)) = Len(rs)
    <3> SUFFICES ASSUME NEW n \in Nat PROVE IsFiniteSet(1..n) /\ Cardinality(1..n) = n
      BY <1>1
    <3> QED BY FS_Interval
  <2> QED BY <1>1, <2>1
<1>3. IsFiniteSet(MarkedIn(rs)) /\ Cardinality(MarkedIn(rs)) \in Nat
  BY <1>1, <1>2, FS_Subset, FS_CardinalityType
<1>4. Cardinality(MarkedIn(rs)) = 0 <=> MarkedIn(rs) = {}
  BY <1>3, FS_EmptySet
<1>5. Cardinality(MarkedIn(rs)) = Cardinality(DOMAIN rs) => MarkedIn(rs) = DOMAIN rs
  BY <1>1, <1>2, FS_Subset
<1>6. rs = <<>> => MarkedIn(rs) = {}
  BY <1>1
<1> QED BY <1>2, <1>3, <1>4, <1>5, <1>6

\* One mark more or less.
LEMMA SetDataCounts ==
  ASSUME TableType, TableInv, NEW i \in DOMAIN rows, NEW checked \in BOOLEAN,
         SetData(i, checked)
  PROVE  /\ rows' \in Seq(Row) /\ DOMAIN rows' = DOMAIN rows
         /\ \A k \in DOMAIN rows : rows'[k].match = rows[k].match
                                 /\ rows'[k].status = rows[k].status
         /\ checkedCount' \in Nat /\ checkedCount' = Cardinality(Checked')
         /\ locked = FALSE /\ locked' = FALSE
<1>1. rows' = [rows EXCEPT ![i].checked = checked] /\ rows[i].checked # checked
      /\ ~locked /\ locked' = locked
      /\ checkedCount' = IF checked THEN checkedCount + 1 ELSE checkedCount - 1
  BY DEF SetData
<1>2. rows \in Seq(Row) /\ DOMAIN rows = 1..Len(rows) /\ locked \in BOOLEAN
  BY DEF TableType
<1>3. rows' \in Seq(Row)
  BY <1>1, <1>2, ChangedRowsType
<1>4. DOMAIN rows' = DOMAIN rows
  BY <1>1
<1>5. \A k \in DOMAIN rows : rows[k] \in Row
  BY RowsDomain
<1>6. \A k \in DOMAIN rows : /\ rows'[k].match = rows[k].match
                            /\ rows'[k].status = rows[k].status
                            /\ rows'[k].checked = IF k = i THEN checked ELSE rows[k].checked
  BY <1>1, <1>5 DEF Row
<1>7. Checked' = IF checked THEN Checked \cup {i} ELSE Checked \ {i}
  BY <1>4, <1>6 DEF Checked
<1>8. i \in Checked <=> ~checked
  BY <1>1, <1>5 DEF Checked, Row
<1>9. IsFiniteSet(Checked) /\ checkedCount = Cardinality(Checked) /\ checkedCount \in Nat
  BY <1>2, Counting DEF TableInv, TableType, MarkedIn, Checked
<1>10. CASE checked = TRUE
  <2>1. Cardinality(Checked \cup {i}) = Cardinality(Checked) + 1
    BY <1>8, <1>9, <1>10, FS_AddElement
  <2> QED BY <2>1, <1>1, <1>2, <1>3, <1>4, <1>6, <1>7, <1>9, <1>10
<1>11. CASE checked = FALSE
  <2>1. Cardinality(Checked \ {i}) = Cardinality(Checked) - 1
    BY <1>8, <1>9, <1>11, FS_RemoveElement
  <2>2. checkedCount' = Cardinality(Checked')
    BY <2>1, <1>1, <1>7, <1>9, <1>11
  <2>3. IsFiniteSet(Checked \ {i}) /\ Cardinality(Checked \ {i}) \in Nat
    BY <1>9, FS_Subset, FS_CardinalityType
  <2> QED BY <2>2, <2>3, <1>1, <1>2, <1>3, <1>4, <1>6, <1>7, <1>11
<1> QED BY <1>10, <1>11

\* All marks or none.
LEMMA SetAllCounts ==
  ASSUME TableType, NEW checked \in BOOLEAN, SetAllChecked(checked)
  PROVE  /\ rows' \in Seq(Row) /\ DOMAIN rows' = DOMAIN rows
         /\ \A k \in DOMAIN rows : rows'[k].match = rows[k].match
                                 /\ rows'[k].status = rows[k].status
         /\ checkedCount' \in Nat /\ checkedCount' = Cardinality(Checked')
         /\ locked = FALSE /\ locked' = FALSE
<1> DEFINE new(i) == [rows[i] EXCEPT !.checked = checked]
<1>1. rows' = [i \in DOMAIN rows |-> new(i)] /\ ~locked /\ locked' = locked
      /\ checkedCount' = IF checked THEN Len(rows) ELSE 0
  BY DEF SetAllChecked
<1>2. DOMAIN rows = 1..Len(rows) /\ Len(rows) \in Nat /\ IsFiniteSet(DOMAIN rows)
      /\ Cardinality(DOMAIN rows) = Len(rows) /\ \A i \in DOMAIN rows : rows[i] \in Row
      /\ locked \in BOOLEAN
  BY RowsDomain DEF TableType
<1>3. \A i \in DOMAIN rows : new(i) \in Row /\ new(i).match = rows[i].match
                           /\ new(i).status = rows[i].status /\ new(i).checked = checked
  BY <1>2 DEF Row
<1>4. rows' \in Seq(Row) /\ DOMAIN rows' = DOMAIN rows
      /\ \A i \in DOMAIN rows : rows'[i] = new(i)
  <2> HIDE DEF new
  <2> QED BY <1>1, <1>2, <1>3
<1>5. Checked' = IF checked THEN DOMAIN rows ELSE {}
  BY <1>3, <1>4 DEF Checked
<1>6. Cardinality({}) = 0
  BY FS_EmptySet
<1>7. checkedCount' \in Nat /\ checkedCount' = Cardinality(Checked')
  <2> HIDE DEF new
  <2>1. CASE checked
    BY <2>1, <1>1, <1>2, <1>5
  <2>2. CASE ~checked
    BY <2>2, <1>1, <1>5, <1>6
  <2> QED BY <2>1, <2>2
<1>8. locked = FALSE /\ locked' = FALSE
  <2> HIDE DEF new
  <2> QED BY <1>1, <1>2
<1> HIDE DEF new
<1> QED BY <1>3, <1>4, <1>7, <1>8

(***************************************************************************)
(* A table in which only what the rows say has changed.                    *)
(***************************************************************************)
Shape(rs) ==
  /\ rs \in Seq(Row) /\ DOMAIN rs = DOMAIN rows
  /\ \A i \in DOMAIN rows : rs[i].match = rows[i].match /\ rs[i].checked = rows[i].checked

Tells(rs, told) ==
  \A i \in DOMAIN rs :
    rs[i].status = IF JobOf(rs[i].match) \in DOMAIN told
                     THEN told[JobOf(rs[i].match)] ELSE ""

LEMMA TellsOfRows == StatusIsOfItsMatch <=> Tells(rows, said)
BY DEF StatusIsOfItsMatch, Tells, Said

\* One row says something new of its match, the others are of other matches.
LEMMA TellOne ==
  ASSUME TableType, TableInv, NEW rs, Shape(rs), NEW told, Tells(rs, told),
         NEW i \in DOMAIN rows, NEW status \in Status, NEW then,
         then = [j \in DOMAIN told \cup {JobOf(rows[i].match)} |->
                   IF j = JobOf(rows[i].match) THEN status ELSE told[j]]
  PROVE  Shape(WithStatus(rs, i, status)) /\ Tells(WithStatus(rs, i, status), then)
<1> DEFINE new == WithStatus(rs, i, status)
<1>1. rs \in Seq(Row) /\ DOMAIN rs = DOMAIN rows /\ i \in DOMAIN rs
  BY DEF Shape
<1>2. new \in Seq(Row) /\ DOMAIN new = DOMAIN rows
  BY <1>1, ChangedRowsType
<1>3. \A k \in DOMAIN rs : rs[k] \in Row
  BY <1>1
<1>4. new = [rs EXCEPT ![i] = [rs[i] EXCEPT !.status = status]]
  BY DEF WithStatus
<1>5. \A k \in DOMAIN rows :
        /\ new[k].match = rs[k].match /\ new[k].checked = rs[k].checked
        /\ new[k].status = IF k = i THEN status ELSE rs[k].status
  BY <1>1, <1>3, <1>4 DEF Row
<1>6. \A k \in DOMAIN rows : JobOf(rows[k].match) = JobOf(rows[i].match) => k = i
  <2>1. \A k \in DOMAIN rows : rows[k].match \in Match
    BY RowsDomain DEF Row
  <2>2. \A m, n \in Match : JobOf(m) = JobOf(n) => m = n
    BY DEF JobOf, Match
  <2> QED BY <2>1, <2>2 DEF TableInv
<1> HIDE DEF new
<1>7. Shape(new)
  BY <1>2, <1>5 DEF Shape
<1>8. Tells(new, then)
  <2> SUFFICES ASSUME NEW k \in DOMAIN rows
               PROVE  new[k].status = IF JobOf(new[k].match) \in DOMAIN then
                                        THEN then[JobOf(new[k].match)] ELSE ""
    BY <1>2 DEF Tells
  <2>1. new[k].match = rows[k].match /\ rs[k].match = rows[k].match
    BY <1>5 DEF Shape
  <2>2. DOMAIN then = DOMAIN told \cup {JobOf(rows[i].match)}
    OBVIOUS
  <2>3. CASE k = i
    <3>1. then[JobOf(rows[i].match)] = status
      OBVIOUS
    <3> QED BY <2>1, <2>2, <2>3, <3>1, <1>5
  <2>4. CASE k # i
    <3>1. JobOf(rows[k].match) # JobOf(rows[i].match)
      BY <1>6, <2>4
    <3>2. JobOf(rows[k].match) \in DOMAIN told
             => then[JobOf(rows[k].match)] = told[JobOf(rows[k].match)]
      BY <3>1
    <3>3. new[k].status = rs[k].status
      BY <1>5, <2>4
    <3>4. rs[k].status = IF JobOf(rows[k].match) \in DOMAIN told
                           THEN told[JobOf(rows[k].match)] ELSE ""
      BY <1>1, <2>1 DEF Tells
    <3> QED BY <2>1, <2>2, <3>1, <3>2, <3>3, <3>4
  <2> QED BY <2>3, <2>4
<1> QED BY <1>7, <1>8 DEF new

\* The rows that are checked, and their jobs, are the same in such a table.
LEMMA SameShape ==
  ASSUME TableType, Shape(rows')
  PROVE  /\ Checked' = Checked /\ CheckedRows' = CheckedRows
         /\ \A r \in CheckedRows : JobsOf(r)' = JobsOf(r)
<1>1. DOMAIN rows' = DOMAIN rows
      /\ \A k \in DOMAIN rows : rows'[k].match = rows[k].match /\ rows'[k].checked = rows[k].checked
  BY DEF Shape
<1>2. Checked' = Checked
  BY <1>1 DEF Checked
<1>3. Len(rows') = Len(rows)
  BY <1>1 DEF Shape, TableType
<1>4. CheckedRows' = CheckedRows
  BY <1>1, <1>2, <1>3 DEF CheckedRows
<1>5. \A r \in CheckedRows : JobsOf(r)' = JobsOf(r)
  BY <1>1, JobsOfType DEF JobsOf
<1> QED BY <1>2, <1>4, <1>5

(***************************************************************************)
(* The table and the runs.                                                 *)
(***************************************************************************)
TableProps == TableType /\ TableInv /\ RunInv /\ StatusIsOfItsMatch /\ RunIsAsConfirmed

\* The job under way is that of a row.
LEMMA RunFacts ==
  ASSUME TableProps, Linking
  PROVE  /\ jobRows \in CheckedRows /\ jobs = JobsOf(jobRows) /\ ConflictFree(jobs)
         /\ DOMAIN jobRows = 1..Len(jobs) /\ DOMAIN jobs = 1..Len(jobs) /\ Len(jobs) \in Nat
         /\ current \in 1..Len(jobs)
         /\ \A k \in 1..Len(jobs) : /\ jobRows[k] \in DOMAIN rows
                                    /\ jobs[k] = JobOf(rows[jobRows[k]].match)
<1>1. jobRows \in CheckedRows /\ jobs = JobsOf(jobRows) /\ ConflictFree(jobs)
  BY DEF TableProps, RunIsAsConfirmed
<1>2. jobs \in Jobs
  BY DEF TableProps, TableType
<1>3. DOMAIN jobs = 1..Len(jobs) /\ Len(jobs) \in Nat
  BY <1>2 DEF Jobs
<1>4. TableType /\ current \in DOMAIN jobs
  BY DEF TableProps, RunInv
<1>5. /\ DOMAIN jobs = DOMAIN jobRows
      /\ \A k \in DOMAIN jobRows : /\ jobRows[k] \in DOMAIN rows
                                   /\ jobs[k] = JobOf(rows[jobRows[k]].match)
  BY <1>1, <1>4, JobsOfType
<1> QED BY <1>1, <1>3, <1>4, <1>5

LEMMA Unlinked == Linking <=> jobs # <<>>
BY DEF Linking, Runner!Active

\* Steps that leave the table and the run as they are.
LEMMA TableSame ==
  ASSUME TableProps, UNCHANGED <<results, said, run>>, header' = header,
         searching' \in BOOLEAN, dialog' \in Boxes, picked' \in Seq(Nat),
         dialog' = "question" => picked' \in CheckedRows /\ ConflictFree(JobsOf(picked'))
  PROVE  TableProps'
<1>1. UNCHANGED <<rows, checkedCount, locked, said, jobs, current, reported, jobRows>>
  BY DEF results, run
<1>2. TableType /\ Shape(rows')
  BY <1>1 DEF TableProps, TableType, Shape
<1>3. Checked' = Checked /\ CheckedRows' = CheckedRows /\ \A r \in CheckedRows : JobsOf(r)' = JobsOf(r)
  BY <1>2, SameShape
<1>4. TableType'
  BY <1>1, <1>2 DEF TableType
<1>5. TableInv'
  BY <1>1, <1>3 DEF TableInv, TableProps
<1>6. RunInv'
  BY <1>1 DEF RunInv, TableProps, Linking, Runner!Active
<1>7. StatusIsOfItsMatch'
  BY <1>1 DEF StatusIsOfItsMatch, Said, TableProps
<1>8. dialog' = "question" => picked' \in CheckedRows' /\ ConflictFree(JobsOf(picked))'
  BY <1>1, <1>3 DEF ConflictFree, JobsOf
<1>9. Linking' => jobRows' \in CheckedRows' /\ jobs' = JobsOf(jobRows)' /\ ConflictFree(jobs)'
  BY <1>1, <1>3 DEF ConflictFree, JobsOf, TableProps, RunIsAsConfirmed, Linking, Runner!Active
<1> QED BY <1>4, <1>5, <1>6, <1>7, <1>8, <1>9 DEF TableProps, RunIsAsConfirmed

\* A table without marks and news, while no run is under way.
LEMMA TableNew ==
  ASSUME TableProps, ~Linking, dialog = "none", NEW ms \in Seq(Match),
         \A i, k \in DOMAIN ms : ms[i] = ms[k] => i = k,
         NewMatches(ms), UNCHANGED <<run, box>>, searching' \in BOOLEAN
  PROVE  TableProps' /\ Checked' = {} /\ locked' = locked
<1>1. SetMatches(ms) /\ said' = <<>> /\ header' = AggregateCheckState'
  BY DEF NewMatches, CheckedCountChanged
<1>2. /\ rows' \in Seq(Row) /\ DOMAIN rows' = DOMAIN ms
      /\ checkedCount' = 0 /\ locked' = locked
  BY <1>1, NewRowsType
<1>11. /\ DOMAIN rows' = DOMAIN ms
       /\ \A i \in DOMAIN ms : rows'[i].match = ms[i] /\ rows'[i].status = ""
       /\ \A i \in DOMAIN ms : ~rows'[i].checked
  BY <1>1, NewRowsType
<1>3. UNCHANGED <<jobs, current, reported, jobRows, dialog, picked>>
  BY DEF run, box
<1>4. Checked' = {} /\ checkedCount' = Cardinality(Checked')
  <2>1. Checked' = {}
    BY <1>11 DEF Checked
  <2> QED BY <1>2, <2>1, FS_EmptySet
<1>5. TableInv'
  BY <1>4, <1>11 DEF TableInv
<1>6. header' \in {"unchecked", "partial", "checked"}
  BY <1>1 DEF AggregateCheckState
<1>7. TableType'
  BY <1>2, <1>3, <1>6 DEF TableType, TableProps
<1>8. RunInv' /\ ~Linking'
  BY <1>3 DEF RunInv, TableProps, Linking, Runner!Active
<1>9. StatusIsOfItsMatch'
  <2>1. \A i \in DOMAIN rows' : rows'[i].status = ""
    BY <1>11
  <2>2. \A m : Said(m)' = ""
    BY <1>1 DEF Said
  <2> QED BY <2>1, <2>2 DEF StatusIsOfItsMatch
<1>10. RunIsAsConfirmed'
  BY <1>3, <1>8 DEF RunIsAsConfirmed
<1> QED BY <1>2, <1>4, <1>5, <1>7, <1>8, <1>9, <1>10 DEF TableProps

\* Marks change only while no run is under way.
LEMMA TableMarked ==
  ASSUME TableProps, ~Linking, dialog = "none", UNCHANGED <<run, box, said, searching>>,
         rows' \in Seq(Row), DOMAIN rows' = DOMAIN rows,
         \A k \in DOMAIN rows : rows'[k].match = rows[k].match /\ rows'[k].status = rows[k].status,
         checkedCount' \in Nat, checkedCount' = Cardinality(Checked'), locked' = FALSE,
         header' = AggregateCheckState'
  PROVE  TableProps'
<1>1. UNCHANGED <<jobs, current, reported, jobRows, dialog, picked, said, searching>>
  BY DEF run, box
<1>2. header' \in {"unchecked", "partial", "checked"}
  BY DEF AggregateCheckState
<1>3. TableType'
  BY <1>1, <1>2 DEF TableType, TableProps
<1>4. TableInv'
  BY DEF TableInv, TableProps
<1>5. RunInv' /\ ~Linking'
  BY <1>1 DEF RunInv, TableProps, Linking, Runner!Active
<1>6. StatusIsOfItsMatch'
  BY <1>1 DEF StatusIsOfItsMatch, Said, TableProps
<1>7. RunIsAsConfirmed'
  BY <1>1, <1>5 DEF RunIsAsConfirmed
<1> QED BY <1>3, <1>4, <1>5, <1>6, <1>7 DEF TableProps

\* The run begins with the rows that were asked about.
LEMMA TableConfirmed ==
  ASSUME TableProps, ~Linking, Confirmed
  PROVE  TableProps' /\ Shape(rows') /\ Linking' /\ Checked' = Checked
<1>1. /\ picked \in CheckedRows /\ ConflictFree(JobsOf(picked))
      /\ jobRows' = picked /\ jobs' = JobsOf(picked) /\ dialog' = "none" /\ picked' = <<>>
      /\ locked' = TRUE /\ UNCHANGED <<searching, checkedCount, header>>
  BY DEF Confirmed, TableProps, RunIsAsConfirmed
<1>2. jobs' # <<>> /\ current' = 1 /\ reported' = <<>>
  BY DEF Confirmed, Runner!Begin
<1>3. TableType /\ TableInv /\ Tells(rows, said) /\ Shape(rows)
  BY TellsOfRows DEF TableProps, TableType, Shape
<1>4. /\ picked \in Seq(Nat) /\ jobs' \in Jobs /\ DOMAIN picked = 1..Len(picked)
      /\ Len(jobs') = Len(picked) /\ DOMAIN jobs' = DOMAIN picked
      /\ \A k \in DOMAIN picked : /\ picked[k] \in DOMAIN rows
                                  /\ jobs'[k] = JobOf(rows[picked[k]].match)
  BY <1>1, <1>3, JobsOfType
<1>5. 1 \in DOMAIN picked
  <2>1. Len(jobs') # 0 /\ Len(jobs') \in Nat
    BY <1>2, <1>4 DEF Jobs
  <2> QED BY <1>4, <2>1
<1>6. /\ rows' = WithStatus(rows, picked[1], "under way")
      /\ said' = [j \in DOMAIN said \cup {JobOf(rows[picked[1]].match)} |->
                    IF j = JobOf(rows[picked[1]].match) THEN "under way" ELSE said[j]]
  <2>1. rows' = WithStatus(rows, picked[1], "under way")
    BY <1>1 DEF Confirmed, TellRow
  <2>2. said' = Tell(said, jobs', 1, "under way") /\ jobs'[1] = JobOf(rows[picked[1]].match)
    BY <1>4, <1>5 DEF Confirmed
  <2> QED BY <2>1, <2>2 DEF Tell
<1>7. Shape(rows') /\ Tells(rows', said')
  <2>1. "under way" \in Status
    BY DEF Status
  <2>2. picked[1] \in DOMAIN rows
    BY <1>4, <1>5
  <2>3. Shape(WithStatus(rows, picked[1], "under way"))
        /\ Tells(WithStatus(rows, picked[1], "under way"), said')
    BY <1>3, <1>6, <2>1, <2>2, TellOne
  <2> QED BY <2>3, <1>6
<1>8. /\ Checked' = Checked /\ CheckedRows' = CheckedRows
      /\ \A r \in CheckedRows : JobsOf(r)' = JobsOf(r)
  BY <1>3, <1>7, SameShape
<1>9. TableType'
  BY <1>1, <1>2, <1>3, <1>4, <1>7 DEF TableType, Shape, Boxes
<1>10. TableInv'
  BY <1>1, <1>3, <1>7, <1>8 DEF TableInv, Shape
<1>11. Linking' /\ RunInv'
  <2>1. 1 \in DOMAIN jobs'
    BY <1>4, <1>5
  <2> QED BY <1>2, <2>1 DEF RunInv, Linking, Runner!Active
<1>12. StatusIsOfItsMatch'
  BY <1>7 DEF StatusIsOfItsMatch, Tells, Said
<1>13. JobsOf(jobRows)' = JobsOf(picked)
  BY <1>1, <1>8 DEF JobsOf
<1>14. RunIsAsConfirmed'
  BY <1>1, <1>8, <1>13 DEF RunIsAsConfirmed
<1> QED BY <1>7, <1>8, <1>9, <1>10, <1>11, <1>12, <1>14 DEF TableProps

\* A job is reported on its own row, and so is the one that follows.
LEMMA TableReported ==
  ASSUME TableProps, NEW message \in Message, JobFinished(message)
  PROVE  TableProps' /\ Shape(rows') /\ Checked' = Checked
<1>1. Linking /\ UNCHANGED <<searching, dialog, picked, jobRows, checkedCount, header>>
  BY DEF JobFinished, Runner!Finish, Linking, box
<1>2. TableType /\ TableInv /\ Tells(rows, said) /\ Shape(rows)
  BY TellsOfRows DEF TableProps, TableType, Shape
<1>3. /\ jobRows \in CheckedRows /\ jobs = JobsOf(jobRows) /\ ConflictFree(jobs)
      /\ DOMAIN jobs = 1..Len(jobs) /\ Len(jobs) \in Nat /\ current \in 1..Len(jobs)
      /\ \A k \in 1..Len(jobs) : /\ jobRows[k] \in DOMAIN rows
                                 /\ jobs[k] = JobOf(rows[jobRows[k]].match)
  BY <1>1, RunFacts
<1> DEFINE i    == jobRows[current]
           once == WithStatus(rows, i, message)
           told == Tell(said, jobs, current, message)
<1>4. Shape(once) /\ Tells(once, told)
  <2>1. message \in Status
    BY DEF Status
  <2>2. i \in DOMAIN rows /\ jobs[current] = JobOf(rows[i].match)
    BY <1>3
  <2>3. told = [j \in DOMAIN said \cup {JobOf(rows[i].match)} |->
                  IF j = JobOf(rows[i].match) THEN message ELSE said[j]]
    BY <2>2 DEF Tell
  <2> HIDE DEF i, told
  <2> QED BY <1>2, <2>1, <2>2, <2>3, TellOne
<1>5. TellRow(rows, current, message) = once
  BY <1>1 DEF TellRow
<1>6. \/ /\ Linking' /\ current < Len(jobs) /\ current' = current + 1 /\ jobs' = jobs
         /\ rows' = TellRow(once, current + 1, "under way")
         /\ said' = Tell(told, jobs, current + 1, "under way")
         /\ UNCHANGED locked
      \/ /\ ~Linking' /\ jobs' = <<>> /\ current' = 0 /\ reported' = <<>>
         /\ rows' = once /\ said' = told /\ locked' = FALSE
  <2>1. \/ current < Len(jobs) /\ current' = current + 1 /\ jobs' = jobs
        \/ jobs' = <<>> /\ current' = 0 /\ reported' = <<>>
    BY DEF JobFinished, Runner!Finish, Runner!Over
  <2>2. \/ /\ Linking'
           /\ rows' = TellRow(once, current + 1, "under way")
           /\ said' = Tell(told, jobs, current + 1, "under way")
           /\ UNCHANGED locked
        \/ ~Linking' /\ rows' = once /\ said' = told /\ locked' = FALSE
    BY <1>5 DEF JobFinished, AllFinished
  <2>3. Linking' <=> jobs' # <<>>
    BY DEF Linking, Runner!Active
  <2>4. jobs # <<>>
    BY <1>1, Unlinked
  <2> HIDE DEF once, told
  <2> QED BY <2>1, <2>2, <2>3, <2>4
<1>16. /\ Linking' => /\ current < Len(jobs) /\ current' = current + 1 /\ jobs' = jobs
                      /\ UNCHANGED locked
       /\ ~Linking' => jobs' = <<>> /\ current' = 0 /\ reported' = <<>> /\ locked' = FALSE
  <2> HIDE DEF once, told
  <2> QED BY <1>6
<1>7. Shape(rows') /\ Tells(rows', said')
  <2>1. CASE Linking'
    <3> DEFINE n == jobRows[current + 1]
    <3>1. current + 1 \in 1..Len(jobs)
      BY <1>3, <1>16, <2>1
    <3>2. n \in DOMAIN rows /\ jobs[current + 1] = JobOf(rows[n].match)
      BY <1>3, <3>1
    <3>3. rows' = WithStatus(once, n, "under way")
      BY <1>1, <1>6, <2>1 DEF TellRow
    <3>4. said' = [j \in DOMAIN told \cup {JobOf(rows[n].match)} |->
                     IF j = JobOf(rows[n].match) THEN "under way" ELSE told[j]]
      <4>1. said' = Tell(told, jobs, current + 1, "under way")
        BY <1>6, <2>1
      <4> HIDE DEF told
      <4> QED BY <3>2, <4>1 DEF Tell
    <3>5. "under way" \in Status
      BY DEF Status
    <3> HIDE DEF once, told, n
    <3>6. Shape(WithStatus(once, n, "under way")) /\ Tells(WithStatus(once, n, "under way"), said')
      BY <1>2, <1>4, <3>2, <3>4, <3>5, TellOne
    <3> QED BY <3>3, <3>6
  <2>2. CASE ~Linking'
    <3> HIDE DEF once, told
    <3> QED BY <1>4, <1>6, <2>2
  <2> QED BY <2>1, <2>2
<1>8. /\ Checked' = Checked /\ CheckedRows' = CheckedRows
      /\ \A r \in CheckedRows : JobsOf(r)' = JobsOf(r)
  BY <1>2, <1>7, SameShape
<1>9. jobs' \in Jobs /\ current' \in Nat /\ locked' \in BOOLEAN
  <2>1. jobs \in Jobs /\ <<>> \in Jobs
    BY <1>2 DEF TableType, Jobs
  <2>2. current \in Nat /\ locked \in BOOLEAN
    BY <1>2 DEF TableType
  <2>3. current + 1 \in Nat
    BY <2>2
  <2>4. jobs' \in Jobs /\ current' \in Nat
    BY <1>16, <2>1, <2>2, <2>3
  <2>5. locked' = locked \/ locked' = FALSE
    BY <1>16
  <2> QED BY <2>2, <2>4, <2>5
<1>10. TableType'
  BY <1>1, <1>2, <1>7, <1>9 DEF TableType, Shape
<1>11. TableInv'
  BY <1>1, <1>2, <1>7, <1>8 DEF TableInv, Shape
<1>12. RunInv'
  <2>1. CASE Linking'
    <3>1. current + 1 \in DOMAIN jobs
      BY <1>3, <1>16, <2>1
    <3>2. current' = current + 1 /\ jobs' = jobs
      BY <1>16, <2>1
    <3> QED BY <2>1, <3>1, <3>2 DEF RunInv
  <2>2. CASE ~Linking'
    <3>1. current' = 0 /\ reported' = <<>>
      BY <1>16, <2>2
    <3> QED BY <2>2, <3>1 DEF RunInv
  <2> QED BY <2>1, <2>2
<1>13. StatusIsOfItsMatch'
  BY <1>7 DEF StatusIsOfItsMatch, Tells, Said
<1>14. dialog' = "question" => picked' \in CheckedRows' /\ ConflictFree(JobsOf(picked))'
  BY <1>1, <1>8 DEF TableProps, RunIsAsConfirmed, ConflictFree, JobsOf
<1>15. Linking' => jobRows' \in CheckedRows' /\ jobs' = JobsOf(jobRows)' /\ ConflictFree(jobs)'
  <2>1. Linking' => jobs' = jobs
    BY <1>16
  <2>2. JobsOf(jobRows)' = JobsOf(jobRows)
    BY <1>1, <1>3, <1>8 DEF JobsOf
  <2> QED BY <1>1, <1>3, <1>8, <2>1, <2>2 DEF ConflictFree
<1> QED BY <1>7, <1>8, <1>10, <1>11, <1>12, <1>13, <1>14, <1>15 DEF TableProps, RunIsAsConfirmed

(***************************************************************************)
(* What the controls show.                                                 *)
(***************************************************************************)
ControlProps ==
  /\ ControlsType /\ OneActivity /\ ControlsCurrent
  /\ ValidationPending => rows = <<>>
  /\ dialog # "none" => ~searching /\ ~Linking
  /\ panel = "none" => NoPanel

HeaderCurrent ==
  header = IF Checked = {} THEN "unchecked"
           ELSE IF Checked = DOMAIN rows THEN "checked" ELSE "partial"

LEMMA HeaderShown ==
  ASSUME TableProps', header' = AggregateCheckState'
  PROVE  HeaderCurrent'
<1>1. rows' \in Seq(Row) /\ checkedCount' = Cardinality(MarkedIn(rows')) /\ Checked' = MarkedIn(rows')
  BY DEF TableProps, TableType, TableInv, Checked, MarkedIn
<1>2. /\ checkedCount' = 0 <=> Checked' = {}
      /\ checkedCount' = Len(rows') <=> Checked' = DOMAIN rows'
      /\ rows' = <<>> => Checked' = {}
  BY <1>1, Counting
<1> QED BY <1>2 DEF HeaderCurrent, AggregateCheckState

LEMMA ControlsShown ==
  ASSUME TableProps', UpdateControls, HeaderCurrent', locked' = Linking'
  PROVE  ControlsCurrent' /\ ControlsType'
<1>1. rows' \in Seq(Row) /\ checkedCount' = Cardinality(MarkedIn(rows')) /\ Checked' = MarkedIn(rows')
  BY DEF TableProps, TableType, TableInv, Checked, MarkedIn
<1>2. checkedCount' \in Nat /\ (checkedCount' = 0 <=> Checked' = {})
  BY <1>1, Counting
<1>3. checkedCount' > 0 <=> Checked' # {}
  BY <1>2
<1>4. /\ startEnabled' = (searching' \/ (~Linking' /\ ~ValidationPending'))
      /\ formEnabled' = (~searching' /\ ~Linking')
  BY DEF UpdateControls
<1>5. linkEnabled' = (~searching' /\ ~Linking' /\ Checked' # {})
  BY <1>3 DEF UpdateControls
<1>6. ControlsCurrent'
  BY <1>4, <1>5 DEF ControlsCurrent, HeaderCurrent
<1>7. ControlsType'
  BY <1>4, <1>5 DEF ControlsType
<1> QED BY <1>6, <1>7

\* A panel none of whose activities or marks has changed.
LEMMA ControlsSame ==
  ASSUME ControlProps, panel # "none", panel' # "none",
         UNCHANGED <<controls, header, searching, jobs, locked, rows>>,
         ValidationPending' = ValidationPending,
         dialog' # "none" => ~searching /\ ~Linking
  PROVE  ControlProps'
<1>1. Linking' = Linking /\ Checked' = Checked
  BY DEF Linking, Runner!Active, Checked
<1>2. UNCHANGED <<startEnabled, linkEnabled, formEnabled>>
  BY DEF controls
<1>3. ControlsType'
  BY <1>2 DEF ControlProps, ControlsType
<1>4. OneActivity'
  BY <1>1 DEF ControlProps, OneActivity
<1>5. ControlsCurrent'
  BY <1>1, <1>2 DEF ControlProps, ControlsCurrent
<1> QED BY <1>1, <1>3, <1>4, <1>5 DEF ControlProps

\* A panel whose controls have just been updated.
LEMMA ControlsUpdated ==
  ASSUME TableProps', panel' # "none", UpdateControls, HeaderCurrent', locked' = Linking',
         OneActivity', ValidationPending' => rows' = <<>>,
         dialog' # "none" => ~searching' /\ ~Linking'
  PROVE  ControlProps'
BY ControlsShown DEF ControlProps

\* While a live panel is used, what it shows is what is the case.
LEMMA Shown ==
  ASSUME ControlProps, panel # "none"
  PROVE  /\ startEnabled = (searching \/ (~Linking /\ ~ValidationPending))
         /\ locked = Linking /\ HeaderCurrent
         /\ ~(searching /\ Linking)
         /\ ValidationPending => ~searching /\ ~Linking /\ rows = <<>>
         /\ dialog # "none" => ~searching /\ ~Linking
BY DEF ControlProps, ControlsCurrent, HeaderCurrent, OneActivity

\* The steps of the form.
LEMMA FormControls ==
  ASSUME TableProps, ControlProps, FormType, panel # "none", panel' # "none", TableProps',
         \/ \E s \in Sides, text \in Texts : Type(s, text)
         \/ \E p \in Paths : Listed(p) \/ ListFailed(p) \/ OthersList(p)
         \/ EditingFinished
  PROVE  ControlProps'
<1> DEFINE same == UNCHANGED <<header, searching, jobs, locked, rows, dialog>>
<1>1. same
  <2>1. ASSUME NEW s \in Sides, NEW text \in Texts, Type(s, text)
        PROVE  same
    BY <2>1 DEF Type, run, box, results
  <2>2. ASSUME NEW p \in Paths, Listed(p) \/ ListFailed(p) \/ OthersList(p)
        PROVE  same
    BY <2>2 DEF Listed, ListFailed, OthersList, run, box, results
  <2>3. EditingFinished => same
    BY DEF EditingFinished, run, box, results
  <2> QED BY <2>1, <2>2, <2>3
<1>2. /\ Linking' = Linking /\ Checked' = Checked /\ HeaderCurrent' = HeaderCurrent
      /\ dialog' # "none" => ~searching' /\ ~Linking'
      /\ locked' = Linking' /\ HeaderCurrent'
  BY <1>1, Shown DEF Linking, Runner!Active, Checked, HeaderCurrent
<1> DEFINE next == \/ UNCHANGED <<controls, validating>>
                   \/ UpdateControls /\ (ValidationPending' => ValidationPending)
<1>3. next
  <2>1. ASSUME NEW s \in Sides, NEW text \in Texts, Type(s, text)
        PROVE  next
    BY <2>1 DEF Type
  <2>2. ASSUME NEW p \in Paths, Listed(p)
        PROVE  next
    <3>1. validating' = [s \in Sides |-> IF validating[s] = p THEN Nothing ELSE validating[s]]
          /\ (UpdateControls \/ (UNCHANGED controls /\ validating' = validating))
      BY <2>2 DEF Listed, OnDirectoryListed
    <3>2. ValidationPending' => ValidationPending
      BY <3>1 DEF ValidationPending
    <3> QED BY <3>1, <3>2
  <2>3. ASSUME NEW p \in Paths, ListFailed(p)
        PROVE  next
    <3> DEFINE hit == {s \in Sides : validating[s] = p}
    <3>1. validating' = [s \in Sides |-> IF s \in hit THEN Nothing ELSE validating[s]]
          /\ (UpdateControls \/ (UNCHANGED controls /\ hit = {}))
      BY <2>3 DEF ListFailed, OnDirectoryListFailed
    <3>2. ValidationPending' => ValidationPending
      BY <3>1 DEF ValidationPending
    <3>3. hit = {} => validating' = validating
      BY <3>1 DEF FormType
    <3> QED BY <3>1, <3>2, <3>3
  <2>4. ASSUME NEW p \in Paths, OthersList(p)
        PROVE  next
    BY <2>4 DEF OthersList, form
  <2>5. EditingFinished => next
    BY DEF EditingFinished
  <2> QED BY <2>1, <2>2, <2>3, <2>4, <2>5
<1>4. CASE UNCHANGED <<controls, validating>>
  <2>1. ValidationPending' = ValidationPending
    BY <1>4 DEF ValidationPending
  <2>2. dialog' # "none" => ~searching /\ ~Linking
    BY <1>1, <1>2
  <2> QED BY <1>1, <1>4, <2>1, <2>2, ControlsSame
<1>5. CASE UpdateControls /\ (ValidationPending' => ValidationPending)
  <2>1. ValidationPending' => rows' = <<>> /\ ~searching' /\ ~Linking'
    BY <1>1, <1>2, <1>5, Shown
  <2>2. OneActivity'
    BY <1>1, <1>2, <2>1, Shown DEF OneActivity
  <2> QED BY <1>2, <1>5, <2>1, <2>2, ControlsUpdated
<1> QED BY <1>3, <1>4, <1>5

\* The steps of a search.
LEMMA SearchControls ==
  ASSUME TableProps, ControlProps, panel = "live", panel' = "live", TableProps', Searches
  PROVE  ControlProps'
<1>1. /\ ~Linking /\ ~ValidationPending /\ dialog = "none"
      /\ locked = FALSE /\ HeaderCurrent
  <2>1. searching \/ StartSearch
    BY DEF Searches, CancelSearch, OnSearchFinished, OnSearchFailed
  <2>2. StartSearch => startEnabled /\ ~searching /\ dialog = "none"
    BY DEF StartSearch, Clicks
  <2>3. startEnabled /\ ~searching => ~Linking /\ ~ValidationPending
    BY Shown
  <2>4. searching => ~Linking /\ ~ValidationPending /\ dialog = "none"
    BY Shown
  <2>5. ~Linking /\ ~ValidationPending /\ dialog = "none"
    BY <2>1, <2>2, <2>3, <2>4
  <2>6. locked = Linking /\ HeaderCurrent
    BY Shown
  <2>7. locked = FALSE
    BY <2>5, <2>6
  <2> QED BY <2>5, <2>6, <2>7
<1>2. UNCHANGED <<jobs, dialog, validating>> /\ UpdateControls
  <2>1. StartSearch => UNCHANGED <<jobs, dialog, validating>> /\ UpdateControls
    BY DEF StartSearch, form, run, box, NewMatches, CheckedCountChanged
  <2>2. CancelSearch \/ OnSearchFailed => UNCHANGED <<jobs, dialog, validating>> /\ UpdateControls
    BY DEF CancelSearch, OnSearchFailed, form, run, box
  <2>3. ASSUME NEW ms \in MatchLists, OnSearchFinished(ms)
        PROVE  UNCHANGED <<jobs, dialog, validating>> /\ UpdateControls
    BY <2>3 DEF OnSearchFinished, form, run, box, NewMatches, CheckedCountChanged
  <2> QED BY <2>1, <2>2, <2>3 DEF Searches
<1>3. /\ ~Linking' /\ ~ValidationPending' /\ dialog' = "none"
  BY <1>1, <1>2 DEF Linking, Runner!Active, ValidationPending
<1>4. HeaderCurrent' /\ locked' = locked
  <2>1. CASE CancelSearch \/ OnSearchFailed
    <3>1. UNCHANGED <<rows, locked, header>>
      BY <2>1 DEF CancelSearch, OnSearchFailed, results
    <3> QED BY <1>1, <3>1 DEF HeaderCurrent, Checked
  <2>2. CASE \E ms : NewMatches(ms)
    <3>1. header' = AggregateCheckState' /\ locked' = locked
      BY <2>2 DEF NewMatches, CheckedCountChanged, SetMatches
    <3> QED BY <3>1, HeaderShown
  <2> QED BY <2>1, <2>2 DEF Searches, StartSearch, OnSearchFinished
<1>5. OneActivity'
  BY <1>3 DEF OneActivity
<1>6. locked' = Linking'
  <2>1. locked' = FALSE
    BY <1>1, <1>4
  <2> QED BY <1>3, <2>1 DEF Linking, Runner!Active
<1> QED BY <1>2, <1>3, <1>4, <1>5, <1>6, ControlsUpdated

\* The marks of the rows.
LEMMA MarkControls ==
  ASSUME TableProps, ControlProps, panel = "live", panel' = "live", Marks
  PROVE  TableProps' /\ ControlProps'
<1> DEFINE around == /\ dialog = "none" /\ UNCHANGED <<validating, searching, run, box, said>>
                     /\ header' = AggregateCheckState' /\ UpdateControls
<1>1. PICK i \in DOMAIN rows, checked \in BOOLEAN :
        (SetData(i, checked) \/ SetAllChecked(checked)) /\ around
  <2>1. CASE ToggleAll
    <3>1. SetAllChecked(header # "checked") /\ around
      BY <2>1 DEF ToggleAll, Clicks, CheckedCountChanged, form
    <3>2. \E i \in DOMAIN rows : TRUE
      BY <3>1 DEF SetAllChecked
    <3>3. (header # "checked") \in BOOLEAN
      OBVIOUS
    <3> QED BY <3>1, <3>2, <3>3
  <2>2. ASSUME NEW i \in DOMAIN rows, NEW checked \in BOOLEAN, Check(i, checked)
        PROVE  SetData(i, checked) /\ around
    BY <2>2 DEF Check, Clicks, CheckedCountChanged, form
  <2> QED BY <2>1, <2>2 DEF Marks
<1> HIDE DEF around
<1>2. /\ rows' \in Seq(Row) /\ DOMAIN rows' = DOMAIN rows
      /\ \A k \in DOMAIN rows : rows'[k].match = rows[k].match
                              /\ rows'[k].status = rows[k].status
      /\ checkedCount' \in Nat /\ checkedCount' = Cardinality(Checked')
      /\ locked = FALSE /\ locked' = FALSE
  BY <1>1, SetDataCounts, SetAllCounts DEF TableProps
<1>3. /\ dialog = "none" /\ UNCHANGED <<validating, searching, run, box, said>>
      /\ header' = AggregateCheckState' /\ UpdateControls
  BY <1>1 DEF around
<1>4. ~Linking /\ ~ValidationPending
  <2>1. locked = Linking /\ (ValidationPending => rows = <<>>)
    BY Shown
  <2>2. DOMAIN rows # {}
    BY <1>1
  <2>3. rows # <<>>
    BY <2>2
  <2> QED BY <1>2, <2>1, <2>3
<1>5. TableProps'
  BY <1>2, <1>3, <1>4, TableMarked
<1>6. ~Linking' /\ ~ValidationPending' /\ dialog' = "none"
  BY <1>3, <1>4 DEF Linking, Runner!Active, ValidationPending, run, box
<1>7. locked' = Linking'
  BY <1>2, <1>6 DEF Linking, Runner!Active
<1>8. OneActivity'
  BY <1>6 DEF OneActivity
<1>9. HeaderCurrent'
  BY <1>3, <1>5, HeaderShown
<1>10. ControlProps'
  BY <1>3, <1>5, <1>6, <1>7, <1>8, <1>9, ControlsUpdated
<1> QED BY <1>5, <1>10

\* The question, and the answer No.
LEMMA AskControls ==
  ASSUME TableProps, ControlProps, panel # "none", panel' = panel,
         OnLinkSelectedClicked \/ Dismissed
  PROVE  TableProps' /\ ControlProps'
<1>1. UNCHANGED <<searching, results, said, run, header, controls, validating>>
  BY DEF OnLinkSelectedClicked, Dismissed, form
<1>2. /\ dialog' \in Boxes /\ picked' \in Seq(Nat)
      /\ dialog' = "question" => picked' \in CheckedRows /\ ConflictFree(JobsOf(picked'))
  <2>1. CASE Dismissed
    BY <2>1 DEF Dismissed, Boxes
  <2>2. CASE OnLinkSelectedClicked
    <3>1. PICK r \in CheckedRows : Ask(r)
      BY <2>2 DEF OnLinkSelectedClicked
    <3>2. r \in Seq(Nat) /\ picked \in Seq(Nat)
      BY JobsOfType DEF TableProps, TableType
    <3> QED BY <3>1, <3>2 DEF Ask, Boxes
  <2> QED BY <2>1, <2>2
<1>3. dialog' # "none" => ~searching /\ ~Linking
  BY DEF OnLinkSelectedClicked, Dismissed
<1>4. searching \in BOOLEAN /\ searching' = searching
  BY <1>1 DEF TableProps, TableType
<1>5. TableProps'
  BY <1>1, <1>2, <1>4, TableSame
<1>6. UNCHANGED <<jobs, locked, rows>> /\ ValidationPending' = ValidationPending
  BY <1>1 DEF results, run, ValidationPending
<1>7. ControlProps'
  BY <1>1, <1>3, <1>6, ControlsSame
<1> QED BY <1>5, <1>7

\* The run.
LEMMA RunControls ==
  ASSUME TableProps, ControlProps, panel # "none", panel' = panel,
         Confirmed \/ \E message \in Message : JobFinished(message)
  PROVE  TableProps' /\ ControlProps'
<1>1. CASE Confirmed
  <2>1. dialog = "question" /\ dialog' = "none" /\ UNCHANGED <<searching, header, validating>>
        /\ locked' = TRUE /\ UpdateControls
    BY <1>1 DEF Confirmed, form
  <2>2. ~searching /\ ~Linking /\ HeaderCurrent /\ (ValidationPending => rows = <<>>)
    BY <2>1, Shown
  <2>3. TableProps' /\ Shape(rows') /\ Linking' /\ Checked' = Checked
    BY <1>1, <2>2, TableConfirmed
  <2>4. ~ValidationPending
    <3>1. picked \in CheckedRows /\ jobs' = JobsOf(picked) /\ jobs' # <<>>
      BY <1>1, <2>1 DEF Confirmed, Runner!Begin, TableProps, RunIsAsConfirmed
    <3>2. TableType /\ jobs' \in Jobs
      BY <2>3 DEF TableProps, TableType
    <3>3. Len(jobs') \in Nat /\ Len(jobs') # 0
      BY <3>1, <3>2 DEF Jobs
    <3>4. 1 \in DOMAIN picked
      BY <3>1, <3>2, <3>3, JobsOfType
    <3>5. picked[1] \in DOMAIN rows
      BY <3>1, <3>2, <3>4, JobsOfType
    <3>6. rows # <<>>
      BY <3>5
    <3> QED BY <2>2, <3>6
  <2>5. ~ValidationPending' /\ ~searching'
    BY <2>1, <2>2, <2>4 DEF ValidationPending
  <2>6. HeaderCurrent' /\ OneActivity'
    BY <2>1, <2>2, <2>3, <2>5 DEF HeaderCurrent, Shape, OneActivity
  <2>7. locked' = Linking'
    BY <2>1, <2>3 DEF Linking, Runner!Active
  <2> QED BY <2>1, <2>3, <2>5, <2>6, <2>7, ControlsUpdated
<1>2. ASSUME NEW message \in Message, JobFinished(message)
      PROVE  TableProps' /\ ControlProps'
  <2>1. TableProps' /\ Shape(rows') /\ Checked' = Checked
    BY <1>2, TableReported
  <2>2. /\ UNCHANGED <<searching, header, validating, dialog>> /\ Linking
        /\ \/ Linking' /\ UNCHANGED <<locked, controls>>
           \/ ~Linking' /\ locked' = FALSE /\ UpdateControls
    BY <1>2 DEF JobFinished, AllFinished, Runner!Finish, Linking, form, box
  <2>3. /\ ~searching /\ ~ValidationPending /\ dialog = "none"
        /\ locked = Linking /\ HeaderCurrent
    BY <2>2, Shown
  <2>4. ~searching' /\ ~ValidationPending' /\ dialog' = "none"
    BY <2>2, <2>3 DEF ValidationPending
  <2>5. HeaderCurrent' /\ OneActivity'
    BY <2>1, <2>2, <2>3, <2>4 DEF HeaderCurrent, Shape, OneActivity
  <2>6. CASE ~Linking' /\ locked' = FALSE /\ UpdateControls
    <3>1. locked' = Linking'
      BY <2>6 DEF Linking, Runner!Active
    <3> QED BY <2>1, <2>4, <2>5, <2>6, <3>1, ControlsUpdated
  <2>7. CASE Linking' /\ UNCHANGED <<locked, controls>>
    <3>1. UNCHANGED <<startEnabled, linkEnabled, formEnabled>>
      BY <2>7 DEF controls
    <3>2. ControlsType' /\ locked' = Linking'
      BY <2>2, <2>3, <2>7, <3>1 DEF ControlsType, ControlProps, Linking, Runner!Active
    <3>3. /\ startEnabled = FALSE /\ linkEnabled = FALSE /\ formEnabled = FALSE
      BY <2>2, <2>3 DEF ControlProps, ControlsCurrent
    <3>4. ControlsCurrent'
      BY <2>4, <2>5, <2>7, <3>1, <3>2, <3>3 DEF ControlsCurrent, HeaderCurrent
    <3> QED BY <2>1, <2>4, <2>5, <3>2, <3>4 DEF ControlProps
  <2> QED BY <2>2, <2>6, <2>7
<1> QED BY <1>1, <1>2

(***************************************************************************)
(* The form, the connection and the life of the panel.                     *)
(***************************************************************************)
WillBeAnswered ==
  panel = "live" => \A s \in Sides : validating[s] # Nothing => owed[validating[s]] > 0

WindowProps ==
  /\ FormType /\ WillBeAnswered /\ WrittenThrough
  /\ conn \in {"disconnected", "connecting", "connected"}
  /\ panel \in {"none", "live", "doomed"}
  /\ (panel = "live") = (conn = "connected")

LEMMA Parts == Inductive <=> TableProps /\ ControlProps /\ WindowProps
BY TypeParts DEF Inductive, IInv, PanelInv, TableProps, ControlProps, WindowProps, WillBeAnswered

LEMMA WindowSame ==
  ASSUME WindowProps, UNCHANGED <<form, owed, conn, panel>>
  PROVE  WindowProps'
<1>1. UNCHANGED <<edit, typing, saved, validating>>
  BY DEF form
<1>2. FormType' /\ WillBeAnswered' /\ WrittenThrough'
  BY <1>1 DEF WindowProps, FormType, WillBeAnswered, WrittenThrough
<1> QED BY <1>2 DEF WindowProps

\* What the window and the session do.
LEMMA WindowMoves ==
  ASSUME WindowProps, Connect \/ Disconnected \/ UNCHANGED vars
  PROVE  WindowProps'
<1>1. UNCHANGED <<edit, typing, saved, validating>>
  BY DEF Connect, Disconnected, vars, panelVars, form
<1>2. \/ UNCHANGED <<owed, panel>> /\ (conn' = conn \/ (conn = "disconnected" /\ conn' = "connecting"))
      \/ owed' = [p \in Paths |-> 0] /\ conn' = "disconnected"
         /\ panel' = IF panel = "live" THEN "doomed" ELSE panel
  BY DEF Connect, Disconnected, vars, panelVars
<1>3. FormType'
  BY <1>1, <1>2 DEF WindowProps, FormType
<1>4. WillBeAnswered' /\ WrittenThrough'
  BY <1>1, <1>2 DEF WindowProps, WillBeAnswered, WrittenThrough
<1>5. /\ conn' \in {"disconnected", "connecting", "connected"}
      /\ panel' \in {"none", "live", "doomed"}
      /\ (panel' = "live") = (conn' = "connected")
  BY <1>2 DEF WindowProps
<1> QED BY <1>3, <1>4, <1>5 DEF WindowProps

\* A connection is there: the saved paths are validated.
LEMMA WindowConnected ==
  ASSUME WindowProps, Connected
  PROVE  WindowProps'
<1>1. PICK bad \in SUBSET ({saved[s] : s \in Sides} \ {Nothing}) :
        /\ Validation(bad)
        /\ owed' = [p \in Paths |-> IF p \notin bad /\ \E s \in Sides : saved[s] = p THEN 1 ELSE 0]
  BY DEF Connected, BeginPathValidation
<1> DEFINE kept == [s \in Sides |-> IF saved[s] \in bad THEN Nothing ELSE saved[s]]
<1>2. validating' = kept /\ edit' = kept /\ saved' = kept /\ typing' = typing
      /\ conn' = "connected" /\ panel' = "live"
  BY <1>1 DEF Validation, Connected
<1>3. kept \in [Sides -> Texts]
  BY DEF WindowProps, FormType, Texts
<1>4. FormType'
  BY <1>1, <1>2, <1>3 DEF WindowProps, FormType
<1>5. WillBeAnswered'
  <2> SUFFICES ASSUME NEW s \in Sides, kept[s] # Nothing
               PROVE  owed'[kept[s]] > 0
    BY <1>2 DEF WillBeAnswered
  <2>1. saved[s] \notin bad /\ kept[s] = saved[s] /\ saved[s] \in Paths
    BY DEF WindowProps, FormType, Texts
  <2> QED BY <1>1, <2>1
<1>6. WrittenThrough'
  BY <1>2 DEF WrittenThrough
<1> QED BY <1>2, <1>4, <1>5, <1>6 DEF WindowProps

\* The user edits.
LEMMA WindowEdited ==
  ASSUME WindowProps, UNCHANGED <<conn, panel>>,
         EditingFinished \/ \E s \in Sides, text \in Texts : Type(s, text)
  PROVE  WindowProps'
<1>1. UNCHANGED <<validating, owed>>
  BY DEF EditingFinished, Type
<1>2. WillBeAnswered'
  BY <1>1 DEF WindowProps, WillBeAnswered
<1>3. ASSUME NEW s \in Sides, NEW text \in Texts, Type(s, text)
      PROVE  FormType' /\ WrittenThrough'
  <2>1. edit' = [edit EXCEPT ![s] = text] /\ typing' = s /\ saved' = saved /\ typing \in {s, Nothing}
    BY <1>3 DEF Type
  <2>2. FormType'
    BY <1>1, <2>1 DEF WindowProps, FormType
  <2>3. WrittenThrough'
    BY <2>1, MatchFinderPanelAssumption DEF WindowProps, WrittenThrough, FormType
  <2> QED BY <2>2, <2>3
<1>4. CASE EditingFinished
  <2>1. /\ typing \in Sides /\ typing' = Nothing /\ edit' = edit
        /\ saved' = [saved EXCEPT ![typing] = edit[typing]]
    BY <1>4 DEF EditingFinished, WindowProps, FormType
  <2>2. FormType'
    BY <1>1, <2>1 DEF WindowProps, FormType
  <2>3. WrittenThrough'
    <3> SUFFICES ASSUME panel # "none", NEW s \in Sides
                 PROVE  edit'[s] = saved'[s]
      BY DEF WrittenThrough
    <3>1. edit[s] = saved[s] \/ typing = s
      BY DEF WindowProps, WrittenThrough
    <3>2. saved \in [Sides -> Texts]
      BY DEF WindowProps, FormType
    <3>3. CASE typing = s
      BY <2>1, <3>2, <3>3
    <3>4. CASE typing # s
      BY <2>1, <3>1, <3>2, <3>4
    <3> QED BY <3>3, <3>4
  <2> QED BY <1>2, <2>2, <2>3 DEF WindowProps
<1> QED BY <1>2, <1>3, <1>4 DEF WindowProps

\* Listings are asked for and answered.
LEMMA WindowListings ==
  ASSUME WindowProps, panel = "live", UNCHANGED <<conn, panel>>, NEW p \in Paths,
         Listed(p) \/ ListFailed(p) \/ OthersList(p)
  PROVE  WindowProps'
<1>1. conn = "connected"
  BY DEF WindowProps
<1>2. owed \in [Paths -> Nat] /\ owed' \in [Paths -> Nat]
      /\ \A q \in Paths \ {p} : owed'[q] = owed[q]
  BY DEF Listed, ListFailed, OthersList, Answered, WindowProps, FormType
<1>3. CASE OthersList(p)
  <2>1. UNCHANGED <<edit, typing, saved, validating>> /\ owed'[p] = 1
    BY <1>2, <1>3 DEF OthersList, form, WindowProps, FormType
  <2>2. FormType' /\ WrittenThrough'
    BY <1>2, <2>1 DEF WindowProps, FormType, WrittenThrough
  <2>3. WillBeAnswered'
    BY <1>2, <2>1 DEF WindowProps, FormType, WillBeAnswered, Texts
  <2> QED BY <1>1, <2>2, <2>3 DEF WindowProps
<1>4. CASE Listed(p) \/ ListFailed(p)
  <2> DEFINE hit == {s \in Sides : validating[s] = p}
  <2>1. validating' = [s \in Sides |-> IF s \in hit THEN Nothing ELSE validating[s]]
    BY <1>4 DEF Listed, ListFailed, OnDirectoryListed, OnDirectoryListFailed
  <2>2. /\ typing' = typing
        /\ \/ edit' = edit /\ saved' = saved
           \/ /\ edit' = [s \in Sides |-> IF s \in hit THEN Nothing ELSE edit[s]]
              /\ saved' = [s \in Sides |-> IF s \in hit THEN Nothing ELSE saved[s]]
    BY <1>4 DEF Listed, ListFailed, OnDirectoryListFailed
  <2>3. FormType'
    <3>1. validating' \in [Sides -> Texts]
      BY <2>1 DEF WindowProps, FormType, Texts
    <3>2. edit' \in [Sides -> Texts] /\ saved' \in [Sides -> Texts]
      BY <2>2 DEF WindowProps, FormType, Texts
    <3> QED BY <1>2, <2>2, <3>1, <3>2 DEF WindowProps, FormType
  <2>4. WrittenThrough'
    BY <2>2 DEF WindowProps, WrittenThrough
  <2>5. WillBeAnswered'
    <3> SUFFICES ASSUME NEW s \in Sides, validating'[s] # Nothing
                 PROVE  owed'[validating'[s]] > 0
      BY DEF WillBeAnswered
    <3>1. validating'[s] = validating[s] /\ validating[s] # p /\ validating[s] \in Paths
      BY <2>1 DEF WindowProps, FormType, Texts
    <3> QED BY <1>2, <3>1 DEF WindowProps, WillBeAnswered
  <2> QED BY <1>1, <2>3, <2>4, <2>5 DEF WindowProps
<1> QED BY <1>3, <1>4

(***************************************************************************)
(* Every step keeps all of it.                                             *)
(***************************************************************************)
\* The panel and its window where nothing of the panel changes but its life.
LEMMA LifeControls ==
  ASSUME ControlProps, panel' = panel \/ (panel = "live" /\ panel' = "doomed"),
         UNCHANGED <<form, searching, run, box, results, controls, header, said>>
  PROVE  ControlProps'
<1>1. UNCHANGED <<edit, typing, validating, jobs, current, reported, jobRows, dialog, picked,
                  rows, checkedCount, locked, startEnabled, linkEnabled, formEnabled>>
  BY DEF form, run, box, results, controls
<1>2. CASE panel # "none"
  <2>1. ValidationPending' = ValidationPending /\ panel' # "none"
    BY <1>1, <1>2 DEF ValidationPending
  <2>2. dialog' # "none" => ~searching /\ ~Linking
    BY <1>1 DEF ControlProps
  <2> QED BY <1>1, <1>2, <2>1, <2>2, ControlsSame
<1>3. CASE panel = "none"
  <2>1. panel' = "none" /\ NoPanel /\ NoPanel'
    BY <1>1, <1>3 DEF ControlProps, NoPanel
  <2>2. ~Linking' /\ ~searching' /\ ~ValidationPending' /\ dialog' = "none"
    BY <2>1 DEF NoPanel, Linking, Runner!Active, ValidationPending
  <2>3. OneActivity' /\ ControlsCurrent'
    BY <2>1, <2>2 DEF OneActivity, ControlsCurrent
  <2>4. ControlsType'
    BY <2>1 DEF NoPanel, ControlsType
  <2> QED BY <2>1, <2>2, <2>3, <2>4 DEF ControlProps
<1> QED BY <1>2, <1>3

LEMMA ConnectedControls ==
  ASSUME TableProps', ControlProps, Connected
  PROVE  ControlProps'
<1>1. NoPanel /\ panel' = "live"
  BY DEF Connected, ControlProps
<1>2. UNCHANGED <<searching, run, box, results, header>> /\ UpdateControls
  BY DEF Connected, BeginPathValidation
<1>3. /\ searching' = FALSE /\ jobs' = <<>> /\ dialog' = "none" /\ rows' = <<>>
      /\ locked' = FALSE /\ header' = "unchecked"
  BY <1>1, <1>2 DEF NoPanel, run, box, results
<1>4. ~Linking' /\ locked' = Linking'
  BY <1>3 DEF Linking, Runner!Active
<1>5. HeaderCurrent' /\ OneActivity'
  <2>1. Checked' = {}
    BY <1>3 DEF Checked
  <2> QED BY <1>3, <1>4, <2>1 DEF HeaderCurrent, OneActivity
<1> QED BY <1>1, <1>2, <1>3, <1>4, <1>5, ControlsUpdated

LEMMA QuietSteps ==
  ASSUME TableProps, ControlProps, WindowProps, Quiet
  PROVE  TableProps' /\ ControlProps' /\ WindowProps'
<1>1. TableProps'
  <2>1. UNCHANGED <<results, said, run, header, searching, dialog, picked>>
    BY QuietKeepsTable DEF table, box
  <2>2. /\ searching' \in BOOLEAN /\ dialog' \in Boxes /\ picked' \in Seq(Nat)
        /\ dialog' = "question" => picked' \in CheckedRows /\ ConflictFree(JobsOf(picked'))
    BY <2>1 DEF TableProps, TableType, RunIsAsConfirmed
  <2> QED BY <2>1, <2>2, TableSame
<1>2. CASE Connect \/ Disconnected \/ UNCHANGED vars
  <2>1. /\ panel' = panel \/ (panel = "live" /\ panel' = "doomed")
        /\ UNCHANGED <<form, searching, run, box, results, controls, header, said>>
    BY <1>2 DEF Connect, Disconnected, vars, panelVars
  <2> QED BY <1>1, <1>2, <2>1, LifeControls, WindowMoves
<1>3. CASE Connected
  BY <1>1, <1>3, ConnectedControls, WindowConnected
<1>4. CASE panel = "live" /\ Within(\E s \in Sides, text \in Texts : Type(s, text))
  <2>1. UNCHANGED <<conn, panel>> /\ \E s \in Sides, text \in Texts : Type(s, text)
    BY <1>4 DEF Within
  <2>2. ControlProps'
    BY <1>1, <1>4, <2>1, FormControls DEF WindowProps
  <2> QED BY <1>1, <2>1, <2>2, WindowEdited
<1>5. CASE panel = "live" /\ Within(\E p \in Paths : Listed(p) \/ ListFailed(p) \/ OthersList(p))
  <2>1. UNCHANGED <<conn, panel>> /\ \E p \in Paths : Listed(p) \/ ListFailed(p) \/ OthersList(p)
    BY <1>5 DEF Within
  <2>2. ControlProps'
    BY <1>1, <1>5, <2>1, FormControls DEF WindowProps
  <2> QED BY <1>1, <1>5, <2>1, <2>2, WindowListings
<1>6. CASE panel # "none" /\ Within(EditingFinished)
  <2>1. UNCHANGED <<conn, panel>> /\ EditingFinished
    BY <1>6 DEF Within
  <2>2. ControlProps'
    BY <1>1, <1>6, <2>1, FormControls DEF WindowProps
  <2> QED BY <1>1, <2>1, <2>2, WindowEdited
<1> QED BY <1>2, <1>3, <1>4, <1>5, <1>6 DEF Quiet

LEMMA GoneSteps ==
  ASSUME WindowProps, Gone
  PROVE  TableProps' /\ ControlProps' /\ WindowProps'
<1>1. /\ rows' = <<>> /\ checkedCount' = 0 /\ locked' = FALSE
      /\ said' = <<>> /\ header' = "unchecked" /\ searching' = FALSE
      /\ jobs' = <<>> /\ current' = 0 /\ reported' = <<>>
      /\ jobRows' = <<>> /\ dialog' = "none" /\ picked' = <<>>
  BY GoneClearsTable
<1>2. /\ panel' = "none" /\ saved' = saved
      /\ edit' = [s \in Sides |-> Nothing] /\ typing' = Nothing
      /\ validating' = [s \in Sides |-> Nothing]
      /\ startEnabled' = TRUE /\ linkEnabled' = FALSE /\ formEnabled' = TRUE
  BY DEF Gone, PanelDeleted, Crash, ProcessEnds, PanelGone
<1>3. \/ UNCHANGED <<owed, conn>> /\ panel = "doomed"
      \/ conn' = "disconnected" /\ owed' = [p \in Paths |-> 0]
  BY DEF Gone, PanelDeleted, Crash, ProcessEnds
<1>4. Checked' = {} /\ ~Linking' /\ ~ValidationPending'
  BY <1>1, <1>2 DEF Checked, Linking, Runner!Active, ValidationPending
<1>5. TableProps'
  <2>1. TableType'
    <3>1. rows' \in Seq(Row) /\ jobs' \in Jobs /\ jobRows' \in Seq(Nat) /\ picked' \in Seq(Nat)
      BY <1>1 DEF Jobs
    <3>2. checkedCount' \in Nat /\ current' \in Nat /\ dialog' \in Boxes
          /\ header' \in {"unchecked", "partial", "checked"}
      BY <1>1 DEF Boxes
    <3>3. locked' \in BOOLEAN /\ searching' \in BOOLEAN
      BY <1>1
    <3> QED BY <3>1, <3>2, <3>3 DEF TableType
  <2>2. TableInv'
    BY <1>1, <1>4, FS_EmptySet DEF TableInv
  <2>3. RunInv' /\ RunIsAsConfirmed'
    BY <1>1, <1>4 DEF RunInv, RunIsAsConfirmed
  <2>4. StatusIsOfItsMatch'
    BY <1>1 DEF StatusIsOfItsMatch
  <2> QED BY <2>1, <2>2, <2>3, <2>4 DEF TableProps
<1>6. ControlProps'
  <2>1. NoPanel'
    BY <1>1, <1>2 DEF NoPanel
  <2>2. ControlsType' /\ OneActivity' /\ ControlsCurrent'
    BY <1>1, <1>2, <1>4 DEF ControlsType, OneActivity, ControlsCurrent
  <2> QED BY <1>1, <1>4, <2>1, <2>2 DEF ControlProps
<1>7. WindowProps'
  <2>1. FormType'
    BY <1>2, <1>3 DEF FormType, WindowProps, Texts
  <2>2. WillBeAnswered' /\ WrittenThrough'
    BY <1>2 DEF WillBeAnswered, WrittenThrough
  <2>3. conn' \in {"disconnected", "connecting", "connected"} /\ conn' # "connected"
    BY <1>3 DEF WindowProps
  <2> QED BY <1>2, <2>1, <2>2, <2>3 DEF WindowProps
<1> QED BY <1>5, <1>6, <1>7

LEMMA SearchSteps ==
  ASSUME TableProps, ControlProps, WindowProps, panel = "live", Within(Searches)
  PROVE  TableProps' /\ ControlProps' /\ WindowProps'
<1>1. Searches /\ UNCHANGED <<conn, panel>>
  BY DEF Within
<1>2. UNCHANGED <<form, run, box, owed>>
  BY <1>1 DEF Searches, StartSearch, CancelSearch, OnSearchFailed, OnSearchFinished
<1>3. searching' \in BOOLEAN
  BY <1>1 DEF Searches, StartSearch, CancelSearch, OnSearchFailed, OnSearchFinished
<1>4. ~Linking /\ dialog = "none"
  <2>1. searching \/ StartSearch
    BY <1>1 DEF Searches, CancelSearch, OnSearchFinished, OnSearchFailed
  <2>2. StartSearch => startEnabled /\ ~searching /\ dialog = "none"
    BY DEF StartSearch, Clicks
  <2>3. startEnabled /\ ~searching => ~Linking
    BY Shown
  <2>4. searching => ~Linking /\ dialog = "none"
    BY Shown
  <2> QED BY <2>1, <2>2, <2>3, <2>4
<1>5. TableProps'
  <2>1. CASE CancelSearch \/ OnSearchFailed
    <3>1. UNCHANGED <<results, said, header>>
      BY <2>1 DEF CancelSearch, OnSearchFailed
    <3>2. dialog' \in Boxes /\ picked' \in Seq(Nat) /\ dialog' = "none"
      BY <1>2, <1>4 DEF box, TableProps, TableType
    <3> QED BY <1>2, <1>3, <3>1, <3>2, TableSame
  <2>2. CASE StartSearch
    <3>1. NewMatches(<<>>)
      BY <2>2 DEF StartSearch
    <3> DEFINE none == <<>>
    <3>2. none \in Seq(Match) /\ DOMAIN none = {} /\ NewMatches(none)
      BY <3>1
    <3> HIDE DEF none
    <3> QED BY <1>2, <1>3, <1>4, <3>2, TableNew
  <2>3. ASSUME NEW ms \in MatchLists, OnSearchFinished(ms)
        PROVE  TableProps'
    <3>1. NewMatches(ms) /\ ms \in Seq(Match)
      BY <2>3, MatchResultsAssumption DEF OnSearchFinished
    <3>2. \A i, k \in DOMAIN ms : ms[i] = ms[k] => i = k
      BY MatchResultsAssumption
    <3> QED BY <1>2, <1>3, <1>4, <3>1, <3>2, TableNew
  <2> QED BY <1>1, <2>1, <2>2, <2>3 DEF Searches
<1>6. ControlProps'
  BY <1>1, <1>5, SearchControls
<1>7. WindowProps'
  BY <1>1, <1>2, WindowSame
<1> QED BY <1>5, <1>6, <1>7

LEMMA OtherSteps ==
  ASSUME TableProps, ControlProps, WindowProps, panel # "none",
         \/ panel = "live" /\ Within(Marks)
         \/ Within(OnLinkSelectedClicked)
         \/ Within(Links)
  PROVE  TableProps' /\ ControlProps' /\ WindowProps'
<1>1. /\ UNCHANGED <<conn, panel>>
      /\ \/ panel = "live" /\ Marks
         \/ OnLinkSelectedClicked
         \/ Links
  BY DEF Within
<1>2. TableProps' /\ ControlProps'
  BY <1>1, MarkControls, AskControls, RunControls DEF Links
<1>3. UNCHANGED <<form, owed>>
  <2>1. CASE Marks \/ OnLinkSelectedClicked
    BY <2>1 DEF Marks, Check, ToggleAll, OnLinkSelectedClicked
  <2>2. CASE Dismissed \/ Confirmed
    BY <2>2 DEF Dismissed, Confirmed
  <2>3. ASSUME NEW message \in Message, JobFinished(message)
        PROVE  UNCHANGED <<form, owed>>
    BY <2>3 DEF JobFinished, AllFinished
  <2> QED BY <1>1, <2>1, <2>2, <2>3 DEF Links
<1>4. WindowProps'
  BY <1>1, <1>3, WindowSame
<1> QED BY <1>2, <1>4

LEMMA Initially == Init => Inductive
<1> SUFFICES ASSUME Init PROVE Inductive
  OBVIOUS
<1>1. /\ rows = <<>> /\ checkedCount = 0 /\ locked = FALSE /\ said = <<>>
      /\ header = "unchecked" /\ searching = FALSE /\ jobs = <<>> /\ current = 0
      /\ reported = <<>> /\ jobRows = <<>> /\ dialog = "none" /\ picked = <<>>
  BY DEF Init, NoPanel
<1>2. Checked = {} /\ ~Linking /\ ~ValidationPending
  BY <1>1 DEF Checked, Linking, Runner!Active, Init, NoPanel, ValidationPending
<1>3. TableProps
  <2>1. TableType
    <3>1. rows \in Seq(Row) /\ jobs \in Jobs /\ jobRows \in Seq(Nat) /\ picked \in Seq(Nat)
      BY <1>1 DEF Jobs
    <3> QED BY <1>1, <3>1 DEF TableType, Boxes
  <2>2. TableInv
    BY <1>1, <1>2, FS_EmptySet DEF TableInv
  <2>3. RunInv /\ RunIsAsConfirmed /\ StatusIsOfItsMatch
    BY <1>1, <1>2 DEF RunInv, RunIsAsConfirmed, StatusIsOfItsMatch
  <2> QED BY <2>1, <2>2, <2>3 DEF TableProps
<1>4. ControlProps
  BY <1>1, <1>2 DEF Init, NoPanel, ControlProps, ControlsType, OneActivity, ControlsCurrent
<1>5. WindowProps
  BY DEF Init, NoPanel, WindowProps, FormType, Texts, WillBeAnswered, WrittenThrough
<1> QED BY <1>3, <1>4, <1>5, Parts

LEMMA Steadily == Inductive /\ [Next]_vars => Inductive'
<1> SUFFICES ASSUME Inductive, [Next]_vars PROVE Inductive'
  OBVIOUS
<1>1. TableProps /\ ControlProps /\ WindowProps
  BY Parts
<1>2. TableProps' /\ ControlProps' /\ WindowProps'
  BY <1>1, Steps, QuietSteps, GoneSteps, SearchSteps, OtherSteps
<1>3. Inductive'
  <2>1. (TableProps /\ ControlProps /\ WindowProps => Inductive)'
    BY Parts, PTL
  <2> QED BY <1>2, <2>1
<1> QED BY <1>3

(***************************************************************************)
(* The conjunction is an invariant, and so are its parts.                  *)
(***************************************************************************)
THEOREM Invariance == Spec => []Inductive
BY Initially, Steadily, PTL DEF Spec

\* IInv: types, the count of the check marks, distinct rows, the state of the
\* run and of the panel (the members of MatchResultsModel and MatchFinderPanel).
THEOREM TypeCorrect == Spec => []IInv
BY Invariance, PTL DEF Inductive

\* OneActivity: validation, search and run exclude each other (onStartClicked,
\* which leaves it to updateControls, and onLinkSelectedClicked).
THEOREM ActivitiesExclude == Spec => []OneActivity
BY Invariance, PTL DEF Inductive

\* StatusIsOfItsMatch: a row says what was reported of its own match (the
\* panel's use of m_jobRows).
THEOREM StatusCorrect == Spec => []StatusIsOfItsMatch
BY Invariance, PTL DEF Inductive

\* RunIsAsConfirmed: what is linked is what was checked, free of conflicts and
\* confirmed (onLinkSelectedClicked, across its boxes).
THEOREM ConfirmedRuns == Spec => []RunIsAsConfirmed
BY Invariance, PTL DEF Inductive

\* ControlsCurrent: buttons, form, lock and header are up to date after every
\* event (updateControls and its callers).
THEOREM ControlsCorrect == Spec => []ControlsCurrent
BY Invariance, PTL DEF Inductive

\* WrittenThrough: the settings hold the paths on display (wireSettingsSaves).
THEOREM SettingsCorrect == Spec => []WrittenThrough
BY Invariance, PTL DEF Inductive

\* ReadyOwed: whenever the controls are withheld, something that will give
\* them back is under way (updateControls against the panel's three activities).
THEOREM NeverLockedOut == Spec => []ReadyOwed
<1>1. Inductive => ReadyOwed
  <2> SUFFICES ASSUME Inductive, panel = "live", ~Ready
               PROVE  \/ \E s \in Sides : validating[s] # Nothing /\ owed[validating[s]] > 0
                      \/ searching
                      \/ Linking /\ current \in DOMAIN jobs
    BY DEF ReadyOwed
  <2>1. ControlsCurrent /\ RunInv /\ PanelInv
    BY DEF Inductive, IInv
  <2>2. ValidationPending \/ searching \/ Linking
    <3>1. /\ startEnabled = (searching \/ (~Linking /\ ~ValidationPending))
          /\ formEnabled = (~searching /\ ~Linking)
          /\ locked = Linking
      BY <2>1 DEF ControlsCurrent
    <3>2. ~startEnabled \/ ~formEnabled \/ locked
      BY Zenon DEF Ready
    <3> QED
      BY Zenon, <3>1, <3>2
  <2>3. CASE ValidationPending
    BY <2>1, <2>3 DEF PanelInv, ValidationPending
  <2>4. CASE Linking
    BY <2>1, <2>4 DEF RunInv
  <2> QED
    BY <2>2, <2>3, <2>4
<1> QED
  BY <1>1, Invariance, PTL

(***************************************************************************)
(* Who may change a saved path.                                            *)
(***************************************************************************)
PathKept ==
  \A s \in Sides : panel = "live" /\ validating[s] = Nothing /\ saved'[s] # saved[s] => typing = s

LEMMA PathsKeptByStep == Inductive /\ [Next]_vars => PathKept
<1> SUFFICES ASSUME Inductive, [Next]_vars, panel = "live"
             PROVE  PathKept
  BY DEF PathKept
<1>1. FormType
  BY Parts DEF WindowProps
<1>2. CASE saved' = saved
  BY <1>2 DEF PathKept
<1>3. CASE EditingFinished
  BY <1>1, <1>3 DEF EditingFinished, PathKept, FormType
<1>4. ASSUME NEW p \in Paths, ListFailed(p)
      PROVE  PathKept
  BY <1>4, MatchFinderPanelAssumption DEF ListFailed, OnDirectoryListFailed, PathKept
<1>5. saved' = saved \/ EditingFinished \/ \E p \in Paths : ListFailed(p)
  <2>1. CASE Quiet
    BY <2>1 DEF Quiet, Connect, Disconnected, Connected, Within, Type, Listed, OthersList, vars, panelVars, form
  <2>2. CASE Gone
    BY <2>2 DEF Gone, PanelDeleted, Crash, ProcessEnds
  <2>3. CASE Searches \/ Marks \/ OnLinkSelectedClicked \/ Links
    <3>1. CASE Searches
      BY <3>1 DEF Searches, StartSearch, CancelSearch, OnSearchFailed, OnSearchFinished, form
    <3>2. CASE Marks \/ OnLinkSelectedClicked
      BY <3>2 DEF Marks, Check, ToggleAll, OnLinkSelectedClicked, form
    <3>3. CASE Links
      BY <3>3 DEF Links, Dismissed, Confirmed, JobFinished, form
    <3> QED BY <2>3, <3>1, <3>2, <3>3
  <2> QED BY <2>1, <2>2, <2>3, Steps DEF Within
<1> QED BY <1>2, <1>3, <1>4, <1>5

\* SavedPathsKept: only the user takes away a path that is in use, not the
\* failed listings of others (onDirectoryListFailed).
THEOREM PathsStay == Spec => SavedPathsKept
<1>1. Inductive /\ [Next]_vars => [PathKept]_vars
  BY PathsKeptByStep
<1>2. SavedPathsKept <=> [][PathKept]_vars
  BY DEF SavedPathsKept, PathKept
<1> QED BY <1>1, <1>2, Invariance, PTL DEF Spec
=============================================================================
