------------------------- MODULE LinkReportsProofs -------------------------
(***************************************************************************)
(* Proofs that what LinkRunner reports of a job is true, for every set of  *)
(* files and contents, any number of jobs and runs, and any initial share. *)
(* The invariant ReportInv follows each victim through the phases of its   *)
(* job; it is inductive together with KeepInv, of LinkRunnerProofs.        *)
(***************************************************************************)
EXTENDS LinkRunnerProofs

USE NoFileAssumption, LinkRunnerAssumption

\* The operations of a job are four, all about its victim.
LEMMA StepOpFacts ==
  ASSUME NEW j \in Job
  PROVE  /\ \A s \in Step : Victim(StepOp(s, j)) = j.victim
         /\ \A s, t \in Step : StepOp(s, j) = StepOp(t, j) => s = t
<1>1. j.victim \in Files /\ j.primary \in Files
  BY DEF Job
<1>2. \A f \in Files : Name(f)[1] = f /\ Tmp(f)[1] = f
  BY DEF Name, Tmp
<1>3. Name(j.victim) # Tmp(j.victim)
  BY <1>1, PathFacts
<1>4. \A s \in Step : Victim(StepOp(s, j)) = j.victim
  BY <1>1, <1>2 DEF StepOp, Step, Victim, RenameOp, LinkOp, RemoveOp
<1>5. \A s, t \in Step : StepOp(s, j) = StepOp(t, j) => s = t
  BY <1>3 DEF StepOp, Step, RenameOp, LinkOp, RemoveOp
<1> QED
  BY <1>4, <1>5

\* An operation changes the entries of its victim only.
LEMMA AppliedElsewhere ==
  ASSUME fs \in [Path -> Entry], NEW op, NEW f \in Files, Victim(op) # f,
         \E s \in Step, j \in Job : op = StepOp(s, j), fs' = Applied(fs, op)
  PROVE  fs'[Name(f)] = fs[Name(f)] /\ fs'[Tmp(f)] = fs[Tmp(f)]
<1>1. PICK v \in Files :
           \/ op = RenameOp(Name(v), Tmp(v))
           \/ \E p \in Files : op = LinkOp(Name(p), Name(v))
           \/ op = RemoveOp(Tmp(v))
           \/ op = RenameOp(Tmp(v), Name(v))
  BY StepOpCases
<1>2. v # f
  BY <1>1 DEF Victim, RenameOp, LinkOp, RemoveOp, Name, Tmp
<1> USE <1>2, PathFacts DEF Applied
<1>3. CASE op = RenameOp(Name(v), Tmp(v))
  BY <1>3 DEF RenameOp
<1>4. CASE \E p \in Files : op = LinkOp(Name(p), Name(v))
  BY <1>4 DEF LinkOp
<1>5. CASE op = RemoveOp(Tmp(v))
  BY <1>5 DEF RemoveOp
<1>6. CASE op = RenameOp(Tmp(v), Name(v))
  BY <1>6 DEF RenameOp
<1> QED
  BY <1>1, <1>3, <1>4, <1>5, <1>6

-----------------------------------------------------------------------------
(***************************************************************************)
(* What is known of one job j stays known as long as nobody touches the    *)
(* entries of its victim, except to take a name that is free.              *)
(***************************************************************************)
Calm(f) ==
  /\ fs'[Tmp(f)] = fs[Tmp(f)]
  /\ fs[Name(f)] # NoFile => fs'[Name(f)] = fs[Name(f)]

LEMMA Carries ==
  ASSUME NEW j \in Job, Calm(j.victim), before' = before,
         Open(j.victim)' \subseteq Open(j.victim)
  PROVE  /\ HoldsOriginal(j.victim) => HoldsOriginal(j.victim)'
         /\ IsLinked(j) => IsLinked(j)'
         /\ \A steps : OpenOnly(steps, j) => OpenOnly(steps, j)'
         /\ Alone(j.victim) => Alone(j.victim)'
         /\ Untouched(j) => Untouched(j)'
         /\ MovedAside(j) => MovedAside(j)'
         /\ Linked(j) => Linked(j)'
         /\ Restored(j) => Restored(j)'
<1>1. HoldsOriginal(j.victim) => HoldsOriginal(j.victim)'
  BY DEF HoldsOriginal, Calm
<1>2. IsLinked(j) => IsLinked(j)'
  BY DEF IsLinked, Calm
<1>3. \A steps : OpenOnly(steps, j) => OpenOnly(steps, j)'
  BY DEF OpenOnly
<1>4. Alone(j.victim) => Alone(j.victim)'
  BY DEF Alone
<1>5. Untouched(j) => Untouched(j)'
  BY <1>1, <1>3, <1>4 DEF Untouched, Calm
<1>6. MovedAside(j) => MovedAside(j)'
  BY <1>3 DEF MovedAside, Calm
<1>7. Linked(j) => Linked(j)'
  BY <1>2, <1>3 DEF Linked
<1>8. Restored(j) => Restored(j)'
  BY <1>1, <1>3 DEF Restored, Calm
<1> QED
  BY <1>1, <1>2, <1>3, <1>4, <1>5, <1>6, <1>7, <1>8

\* So does what a step or a report tells.
LEMMA TellsCarry ==
  ASSUME NEW j \in Job, Calm(j.victim), before' = before, unknown \subseteq unknown',
         Open(j.victim)' \subseteq Open(j.victim)
  PROVE  /\ \A c : step' = step /\ StepTells(j, c) => StepTells(j, c)'
         /\ \A m : ReportTells(j, m) => ReportTells(j, m)'
         /\ InPhase(j) => InPhase(j)'
<1>1. /\ IsLinked(j) => IsLinked(j)'
      /\ OpenOnly({"Rename"}, j) => OpenOnly({"Rename"}, j)'
      /\ OpenOnly({"Link"}, j) => OpenOnly({"Link"}, j)'
      /\ Alone(j.victim) => Alone(j.victim)'
      /\ Untouched(j) => Untouched(j)'
      /\ MovedAside(j) => MovedAside(j)'
      /\ Linked(j) => Linked(j)'
      /\ Restored(j) => Restored(j)'
  BY Carries
<1>2. /\ Open(j.victim) = {} => Open(j.victim)' = {}
      /\ fs[Tmp(j.victim)] = NoFile => fs'[Tmp(j.victim)] = NoFile
      /\ j.victim \notin unknown' => j.victim \notin unknown
  BY DEF Calm
<1>3. ASSUME NEW c, step' = step, StepTells(j, c) PROVE StepTells(j, c)'
  BY <1>1, <1>2, <1>3 DEF StepTells
<1>4. ASSUME NEW m, ReportTells(j, m) PROVE ReportTells(j, m)'
  BY <1>1, <1>2, <1>4 DEF ReportTells
<1>5. InPhase(j) => InPhase(j)'
  BY <1>1 DEF InPhase
<1> QED
  BY <1>3, <1>4, <1>5

-----------------------------------------------------------------------------
(***************************************************************************)
(* An open operation on the victim of job j is carried out: the phase says *)
(* which of the four it can be, and the next phase begins.                 *)
(***************************************************************************)
LEMMA JobApplied ==
  ASSUME KeepInv, NEW j \in Job, NEW u \in Open(j.victim), Applicable(fs, u.op),
         fs' = Applied(fs, u.op), Unresolved' = Unresolved \ {u}, before' = before,
         HoldsOriginal(j.primary)
  PROVE  /\ ~Restored(j)
         /\ Untouched(j) => MovedAside(j)' /\ Open(j.victim)' = {}
         /\ MovedAside(j) /\ u.op = StepOp("Link", j) => MovedAside(j)' /\ IsLinked(j)'
         /\ MovedAside(j) /\ u.op # StepOp("Link", j) =>
              u.op = StepOp("UndoRename", j) /\ Restored(j)'
         /\ Linked(j) => /\ Linked(j)' /\ Open(j.victim)' = {}
                         /\ fs'[Tmp(j.victim)] = NoFile
<1>1. PICK v \in Files, p \in Files : v = j.victim /\ p = j.primary
  BY DEF Job
<1>2. Open(v)' = Open(v) \ {u}
  BY <1>1 DEF Open
<1>3. fs \in [Path -> Entry] /\ Name(v) \in Path /\ Tmp(v) \in Path /\ Name(p) \in Path
      /\ Name(v) # Tmp(v) /\ Name(p) # Tmp(v)
  BY PathFacts DEF KeepInv, TypeOK
<1>4. ASSUME NEW w \in Open(v), w.op.from = Tmp(v), u.op.from = Tmp(v) PROVE w = u
  BY <1>4, <1>1 DEF KeepInv, AsideInv, Leaving, Open
<1>5. /\ StepOp("Rename", j) = RenameOp(Name(v), Tmp(v))
      /\ StepOp("Link", j) = LinkOp(Name(p), Name(v))
      /\ StepOp("Unlink", j) = RemoveOp(Tmp(v))
      /\ StepOp("UndoRename", j) = RenameOp(Tmp(v), Name(v))
  BY <1>1 DEF StepOp
<1> DEFINE N == Name(v)
           T == Tmp(v)
           P == Name(p)
<1> HIDE DEF N, T, P
<1>6. /\ StepOp("Rename", j) = [kind |-> "rename", from |-> N, to |-> T]
      /\ StepOp("Link", j) = [kind |-> "link", from |-> P, to |-> N]
      /\ StepOp("Unlink", j) = [kind |-> "remove", from |-> T, to |-> T]
      /\ StepOp("UndoRename", j) = [kind |-> "rename", from |-> T, to |-> N]
      /\ N \in Path /\ T \in Path /\ P \in Path /\ N # T /\ P # T
  BY <1>3, <1>5 DEF RenameOp, LinkOp, RemoveOp, N, T, P
<1>7. u \in Open(v) /\ (v = j.victim)
  BY <1>1
<1>8. ASSUME Restored(j) PROVE FALSE
  <2>1. u.op = StepOp("Link", j) /\ fs[N] # NoFile
    BY <1>7, <1>8 DEF Restored, OpenOnly, N
  <2> QED
    BY <1>6, <2>1 DEF Applicable
<1>9. ASSUME Untouched(j) PROVE MovedAside(j)' /\ Open(v)' = {}
  <2>1. u.op = StepOp("Rename", j) /\ Open(v)' = {}
    BY <1>2, <1>7, <1>9 DEF Untouched, OpenOnly, Alone
  <2>2. fs'[T] = fs[N] /\ fs[N] # NoFile
    BY <1>3, <1>6, <2>1 DEF Applicable, Applied
  <2>3. before[N] # NoFile => fs[N] = before[N]
    BY <1>7, <1>9 DEF Untouched, HoldsOriginal, N
  <2> QED
    BY <1>7, <2>1, <2>2, <2>3 DEF MovedAside, OpenOnly, N, T
<1>10. ASSUME MovedAside(j), u.op = StepOp("Link", j) PROVE MovedAside(j)' /\ IsLinked(j)'
  <2>1. fs'[N] = fs[P] /\ fs[P] # NoFile /\ fs'[T] = fs[T]
    BY <1>3, <1>6, <1>10 DEF Applicable, Applied
  <2>2. before[P] # NoFile => fs[P] = before[P]
    BY <1>1 DEF HoldsOriginal, P
  <2>3. IsLinked(j)'
    BY <1>1, <2>1, <2>2 DEF IsLinked, N, P
  <2>4. OpenOnly({"Link", "UndoRename"}, j)'
    BY <1>2, <1>7, <1>10 DEF MovedAside, OpenOnly
  <2> QED
    BY <1>7, <1>10, <2>1, <2>3, <2>4 DEF MovedAside, T, N
<1>11. ASSUME MovedAside(j), u.op # StepOp("Link", j)
       PROVE  u.op = StepOp("UndoRename", j) /\ Restored(j)'
  <2>1. u.op = StepOp("UndoRename", j)
    BY <1>7, <1>11 DEF MovedAside, OpenOnly
  <2>2. fs'[N] = fs[T] /\ fs[T] # NoFile /\ fs'[T] = NoFile
    BY <1>3, <1>6, <2>1 DEF Applicable, Applied
  <2>3. before[N] # NoFile => fs[T] = before[N]
    BY <1>7, <1>11 DEF MovedAside, N, T
  <2>4. \A w \in Open(v)' : w.op = StepOp("Link", j)
    BY <1>2, <1>4, <1>6, <1>7, <1>11, <2>1 DEF MovedAside, OpenOnly, T
  <2>5. OpenOnly({"Link"}, j)'
    BY <1>7, <2>4 DEF OpenOnly
  <2> QED
    BY <1>7, <2>1, <2>2, <2>3, <2>5 DEF Restored, HoldsOriginal, N, T
<1>12. ASSUME Linked(j)
       PROVE  Linked(j)' /\ Open(v)' = {} /\ fs'[T] = NoFile
  <2>1. \A w \in Open(v) : w.op = StepOp("Unlink", j)
    BY <1>7, <1>12 DEF Linked, OpenOnly
  <2>2. Open(v)' = {}
    BY <1>2, <1>4, <1>6, <1>7, <2>1 DEF T
  <2>3. fs'[N] = fs[N] /\ fs'[T] = NoFile
    BY <1>3, <1>6, <1>7, <2>1 DEF Applicable, Applied
  <2>4. IsLinked(j)'
    BY <1>7, <1>12, <2>3 DEF Linked, IsLinked, N
  <2> QED
    BY <1>7, <2>2, <2>3, <2>4 DEF Linked, OpenOnly
<1> QED
  BY <1>1, <1>8, <1>9, <1>10, <1>11, <1>12 DEF T

\* What a step tells survives an operation the runner does not wait for.
LEMMA TellsApplied ==
  ASSUME KeepInv, NEW j \in Job, NEW u \in Open(j.victim), Applicable(fs, u.op),
         fs' = Applied(fs, u.op), Unresolved' = Unresolved \ {u}, before' = before,
         HoldsOriginal(j.primary), UNCHANGED <<step, unknown>>, InPhase(j),
         NEW c, StepTells(j, c),
         c.stage = "sent" => \E w \in Open(j.victim) : w # u
  PROVE  StepTells(j, c)'
<1>1. Open(j.victim)' = Open(j.victim) \ {u} /\ Open(j.victim) # {}
  BY DEF Open
<1>2. \A steps : OpenOnly(steps, j) => OpenOnly(steps, j)'
  BY <1>1 DEF OpenOnly
<1>3. CASE step = "Rename"
  <2>1. OpenOnly({"Rename"}, j) /\ c.stage # "applied" /\ c.stage # "refused"
        /\ (c.stage = "queued" => j.victim \in unknown)
    BY <1>1, <1>3 DEF StepTells
  <2>2. c.stage # "sent"
    BY <1>3 DEF StepTells, Untouched, Alone
  <2> QED
    BY <1>2, <1>3, <2>1, <2>2 DEF StepTells
<1>4. CASE step = "Link"
  <2>1. MovedAside(j) /\ OpenOnly({"Link"}, j) /\ Alone(j.victim) /\ c.stage # "applied"
    BY <1>1, <1>4 DEF StepTells
  <2>2. u.op = StepOp("Link", j)
    BY <2>1 DEF OpenOnly
  <2>3. MovedAside(j)'
    BY <2>1, <2>2, JobApplied
  <2>4. Alone(j.victim)'
    BY <1>1, <2>1 DEF Alone
  <2> QED
    BY <1>2, <1>4, <2>1, <2>3, <2>4 DEF StepTells
<1>5. CASE step = "Unlink"
  <2>1. Linked(j) /\ c.stage # "applied"
    BY <1>1, <1>5 DEF StepTells
  <2>2. Linked(j)'
    BY <2>1, JobApplied
  <2> QED
    BY <1>5, <2>1, <2>2 DEF StepTells
<1>6. CASE step = "UndoRename"
  <2>1. c.stage # "applied"
    BY <1>6, JobApplied DEF StepTells
  <2> QED
    BY <1>6, <2>1 DEF StepTells
<1>7. step \in Step
  BY DEF KeepInv, TypeOK
<1> QED
  BY <1>3, <1>4, <1>5, <1>6, <1>7 DEF Step

\* The application of an open operation keeps its victim in a phase.
LEMMA PhaseApplied ==
  ASSUME KeepInv, NEW j \in Job, NEW u \in Open(j.victim), Applicable(fs, u.op),
         fs' = Applied(fs, u.op), Unresolved' = Unresolved \ {u}, before' = before,
         HoldsOriginal(j.primary), InPhase(j)
  PROVE  InPhase(j)'
BY JobApplied DEF InPhase

-----------------------------------------------------------------------------
(***************************************************************************)
(* The jobs of the last run.                                               *)
(***************************************************************************)
LEMMA RanTypes ==
  ASSUME KeepInv
  PROVE  /\ \A k \in DOMAIN ran : /\ ran[k] \in Job /\ k \in Nat
                                  /\ ran[k].victim \in Files /\ ran[k].primary \in Files
         /\ Len(ran) \in Nat /\ DOMAIN ran = 1..Len(ran)
         /\ Len(outcome) \in Nat /\ DOMAIN outcome = 1..Len(outcome)
<1>1. ran \in Seq(Job) /\ outcome \in Seq(Message)
  BY DEF KeepInv, TypeOK
<1>2. \A k \in DOMAIN ran : ran[k] \in Job
  BY <1>1, ElementOfSeq, LenProperties
<1>3. Len(ran) \in Nat /\ DOMAIN ran = 1..Len(ran)
      /\ Len(outcome) \in Nat /\ DOMAIN outcome = 1..Len(outcome)
  BY <1>1, LenProperties
<1> QED
  BY <1>2, <1>3 DEF Job

\* Nothing is open about a primary, or about a victim whose job is to come.
LEMMA NotBegun ==
  ASSUME KeepInv, ReportInv, NEW k \in DOMAIN ran, Undisturbed(k)
  PROVE  /\ Open(ran[k].primary) = {}
         /\ k > Len(outcome) + 1 => Open(ran[k].victim) = {}
<1>1. /\ ran[k].primary \notin stale /\ ran[k].victim \notin stale
      /\ \A i \in DOMAIN ran : ran[i].victim # ran[k].primary
      /\ \A i \in DOMAIN ran : ran[i].victim = ran[k].victim => i = k
  BY DEF Undisturbed, ReportInv, CallInv, ConflictFree
<1>2. \A u \in Unresolved :
        \/ Victim(u.op) \in stale
        \/ \E i \in DOMAIN ran : i <= Len(outcome) + 1 /\ ran[i].victim = Victim(u.op)
  BY DEF ReportInv, OpenInv
<1>3. Open(ran[k].primary) = {}
  BY <1>1, <1>2 DEF Open
<1>4. ASSUME k > Len(outcome) + 1 PROVE Open(ran[k].victim) = {}
  BY <1>1, <1>2, <1>4, RanTypes DEF Open
<1> QED
  BY <1>3, <1>4

\* What is known of the jobs of a run apart from the runner's own state.
JobsInv == OpenInv /\ PhaseInv /\ ToldInv

History == <<ran, outcome, before, stale>>

\* A step that touches no victim, except to take a free name.
LEMMA CalmJobs ==
  ASSUME KeepInv, ReportInv, \A f \in Files : Calm(f), UNCHANGED History,
         Unresolved' \subseteq Unresolved, unknown \subseteq unknown'
  PROVE  JobsInv'
<1> USE DEF History
<1>1. \A f : Open(f)' \subseteq Open(f)
  BY DEF Open
<1>2. \A k : Undisturbed(k)' <=> Undisturbed(k)
  BY DEF Undisturbed
<1>3. OpenInv'
  <2>1. \A u \in Unresolved' :
          \/ Victim(u.op) \in stale'
          \/ \E k \in DOMAIN ran' : k <= Len(outcome') + 1 /\ ran'[k].victim = Victim(u.op)
    BY DEF ReportInv, OpenInv
  <2>2. ASSUME NEW k \in DOMAIN ran', Undisturbed(k)' PROVE HoldsOriginal(ran[k].primary)'
    <3>1. HoldsOriginal(ran[k].primary) /\ ran[k].primary \in Files
      BY <1>2, <2>2, RanTypes DEF ReportInv, OpenInv
    <3> QED
      BY <3>1 DEF HoldsOriginal, Calm
  <2> QED
    BY <2>1, <2>2 DEF OpenInv
<1>4. ASSUME NEW k \in DOMAIN ran, Undisturbed(k)
      PROVE  /\ InPhase(ran[k])' /\ (k > Len(outcome) + 1 => Untouched(ran[k])')
             /\ k \in DOMAIN outcome => ReportTells(ran[k], outcome[k])'
  <2>1. PICK j \in Job : j = ran[k]
    BY RanTypes
  <2>2. InPhase(j) /\ (k > Len(outcome) + 1 => Untouched(j))
        /\ (k \in DOMAIN outcome => ReportTells(j, outcome[k]))
    BY <1>4, <2>1 DEF ReportInv, PhaseInv, ToldInv
  <2>3. Calm(j.victim)
    BY DEF Job
  <2>4. PICK m : m = outcome[k]
    OBVIOUS
  <2>5. before' = before /\ Open(j.victim)' \subseteq Open(j.victim)
    BY <1>1
  <2>7. \A x : ReportTells(j, x) => ReportTells(j, x)'
    BY <2>3, <2>5, TellsCarry
  <2>8. (InPhase(j) => InPhase(j)') /\ (Untouched(j) => Untouched(j)')
    BY <2>3, <2>5, TellsCarry, Carries
  <2>6. j = ran'[k] /\ m = outcome'[k]
    BY <2>1, <2>4
  <2> QED
    BY <2>2, <2>6, <2>7, <2>8
<1>5. PhaseInv'
  BY <1>2, <1>4 DEF PhaseInv
<1>6. ToldInv'
  BY <1>2, <1>4, RanTypes DEF ReportInv, ToldInv
<1> QED
  BY <1>3, <1>5, <1>6 DEF JobsInv

\* An open operation is carried out, by the server in time or late.
LEMMA AppliedJobs ==
  ASSUME KeepInv, ReportInv, NEW u \in Unresolved, Applicable(fs, u.op),
         fs' = Applied(fs, u.op), Unresolved' = Unresolved \ {u},
         UNCHANGED History, unknown' = unknown
  PROVE  JobsInv'
<1> USE DEF History
<1>1. \A f : Open(f)' \subseteq Open(f)
  BY DEF Open
<1>2. \A k : Undisturbed(k)' <=> Undisturbed(k)
  BY DEF Undisturbed
<1>3. fs \in [Path -> Entry] /\ \E s \in Step, j \in Job : u.op = StepOp(s, j)
  BY DEF KeepInv, TypeOK, OpInv
<1>4. \A f \in Files : Victim(u.op) # f => Calm(f)
  BY <1>3, AppliedElsewhere DEF Calm
<1>5. OpenInv'
  <2>1. \A w \in Unresolved' :
          \/ Victim(w.op) \in stale'
          \/ \E k \in DOMAIN ran' : k <= Len(outcome') + 1 /\ ran'[k].victim = Victim(w.op)
    BY DEF ReportInv, OpenInv
  <2>2. ASSUME NEW k \in DOMAIN ran', Undisturbed(k)' PROVE HoldsOriginal(ran[k].primary)'
    <3>1. HoldsOriginal(ran[k].primary) /\ ran[k].primary \in Files
          /\ Open(ran[k].primary) = {}
      BY <1>2, <2>2, RanTypes, NotBegun DEF ReportInv, OpenInv
    <3>2. Calm(ran[k].primary)
      BY <1>4, <3>1 DEF Open
    <3> QED
      BY <3>1, <3>2 DEF HoldsOriginal, Calm
  <2> QED
    BY <2>1, <2>2 DEF OpenInv
<1>6. ASSUME NEW k \in DOMAIN ran, Undisturbed(k)
      PROVE  /\ InPhase(ran[k])' /\ (k > Len(outcome) + 1 => Untouched(ran[k])')
             /\ k \in DOMAIN outcome => ReportTells(ran[k], outcome[k])'
  <2>1. PICK j \in Job : j = ran[k]
    BY RanTypes
  <2>2. PICK m : m = outcome[k]
    OBVIOUS
  <2>3. /\ InPhase(j) /\ (k > Len(outcome) + 1 => Untouched(j) /\ Open(j.victim) = {})
        /\ k \in DOMAIN outcome => ReportTells(j, m)
        /\ HoldsOriginal(j.primary)
    BY <1>6, <2>1, <2>2, NotBegun DEF ReportInv, PhaseInv, ToldInv, OpenInv
  <2>4. j = ran'[k] /\ m = outcome'[k] /\ before' = before /\ unknown' = unknown
        /\ Open(j.victim)' \subseteq Open(j.victim)
    BY <1>1, <2>1, <2>2
  <2>5. CASE Victim(u.op) = j.victim
    <3>1. u \in Open(j.victim)
      BY <2>5 DEF Open
    <3>2. InPhase(j)'
      BY <2>3, <2>4, <3>1, PhaseApplied
    <3>3. ~Restored(j)
      BY <2>3, <2>4, <3>1, JobApplied
    <3>4. ASSUME ReportTells(j, m) PROVE ReportTells(j, m)'
      BY <2>4, <3>1, <3>3, <3>4 DEF ReportTells
    <3> QED
      BY <2>3, <2>4, <3>1, <3>2, <3>4
  <2>6. CASE Victim(u.op) # j.victim
    <3>1. Calm(j.victim)
      BY <1>4, <2>6 DEF Job
    <3>2. \A x : ReportTells(j, x) => ReportTells(j, x)'
      BY <2>4, <3>1, TellsCarry
    <3>3. (InPhase(j) => InPhase(j)') /\ (Untouched(j) => Untouched(j)')
      BY <2>4, <3>1, TellsCarry, Carries
    <3> QED
      BY <2>3, <2>4, <3>2, <3>3
  <2> QED
    BY <2>5, <2>6
<1>7. PhaseInv'
  BY <1>2, <1>6 DEF PhaseInv
<1>8. ToldInv'
  BY <1>2, <1>6, RanTypes DEF ReportInv, ToldInv
<1> QED
  BY <1>5, <1>7, <1>8 DEF JobsInv

-----------------------------------------------------------------------------
(***************************************************************************)
(* The current job.                                                        *)
(***************************************************************************)
LEMMA CurrentJob ==
  ASSUME KeepInv, ReportInv, isRunning
  PROVE  /\ current \in DOMAIN ran /\ current = Len(outcome) + 1
         /\ jobs = ran /\ job = ran[current]
BY DEF KeepInv, TypeOK, ReportInv, CallInv, job

\* The runner does nothing: RunnerInv is about the same job as before.
SameRunner == UNCHANGED <<jobs, current, step, opId>>

LEMMA SameJob ==
  ASSUME KeepInv, ReportInv, SameRunner, UNCHANGED History,
         \A j \in Job :
           isRunning /\ j = job /\ Undisturbed(current) =>
             \A c \in calls' : c.id = opId => StepTells(j, c)'
  PROVE  RunnerInv'
<1>1. isRunning' = isRunning /\ job' = job /\ current' = current /\ opId' = opId
  BY DEF SameRunner, isRunning, job
<1>2. Undisturbed(current)' <=> Undisturbed(current)
  BY DEF Undisturbed, History, SameRunner
<1>3. ASSUME isRunning, Undisturbed(current), NEW c \in calls', c.id = opId
      PROVE  StepTells(job, c)'
  <2>1. job \in Job
    BY <1>3, CurrentJob, RanTypes
  <2>2. PICK j \in Job : j = job
    BY <2>1
  <2>3. StepTells(j, c)'
    BY <1>3, <2>2
  <2>4. j = job'
    BY <1>1, <2>2
  <2> QED
    BY <2>3, <2>4
<1> QED
  BY <1>1, <1>2, <1>3 DEF RunnerInv

\* A step that touches no victim leaves what is known of the current one.
LEMMA CalmRunner ==
  ASSUME KeepInv, ReportInv, SameRunner, \A f \in Files : Calm(f), UNCHANGED History,
         Unresolved' \subseteq Unresolved, unknown \subseteq unknown',
         calls' \subseteq calls
  PROVE  RunnerInv'
<1>1. ASSUME NEW j \in Job, isRunning, j = job, Undisturbed(current),
             NEW c \in calls', c.id = opId
      PROVE  StepTells(j, c)'
  <2>1. StepTells(j, c)
    BY <1>1 DEF ReportInv, RunnerInv
  <2>2. Calm(j.victim) /\ before' = before /\ step' = step
        /\ Open(j.victim)' \subseteq Open(j.victim)
    BY DEF Job, History, SameRunner, Open
  <2> QED
    BY <2>1, <2>2, TellsCarry
<1> QED
  BY <1>1, SameJob

-----------------------------------------------------------------------------
(***************************************************************************)
(* The server's steps.                                                     *)
(***************************************************************************)

\* A request at the server is the current step of the current job.
LEMMA RequestAtServer ==
  ASSUME KeepInv, ReportInv, NEW c \in calls, c.stage # "queued"
  PROVE  /\ connected /\ isRunning /\ c.id = opId /\ c.op = StepOp(step, job)
         /\ \A e \in calls : e.id = opId => e = c
         /\ step \in Step /\ job \in Job /\ Victim(c.op) = job.victim
<1>1. connected /\ isRunning /\ c.id = opId
  BY DEF ReportInv, CallInv
<1>2. c.op = StepOp(step, job) /\ step \in Step /\ job \in Job
  BY <1>1, CurrentJob, RanTypes DEF KeepInv, OpInv, TypeOK
<1>3. \A e \in calls : e.id = opId => e = c
  BY <1>1 DEF KeepInv, IdInv
<1> QED
  BY <1>1, <1>2, <1>3, StepOpFacts

LEMMA ServerAppliesReports ==
  ASSUME KeepInv, ReportInv, NEW c \in calls, ServerApplies(c)
  PROVE  ReportInv'
<1> DEFINE u == [id |-> c.id, op |-> c.op]
           d == [c EXCEPT !.stage = "applied"]
<1>1. /\ c.stage = "sent" /\ Applicable(fs, u.op) /\ fs' = Applied(fs, u.op)
      /\ calls' = (calls \ {c}) \cup {d}
      /\ UNCHANGED <<jobs, current, step, opId, connected, orphans>>
      /\ UNCHANGED <<ran, outcome, before, stale, unknown>>
  BY DEF ServerApplies, runner, history
<1>2. u \in Unresolved /\ Unresolved' = Unresolved \ {u}
  BY <1>1, RestageUnresolved
<1>3. d.id = c.id /\ d.stage = "applied" /\ u.op = c.op
  BY DEF KeepInv, TypeOK, Call
<1> HIDE DEF u, d
<1>4. SameRunner /\ UNCHANGED History
  BY <1>1 DEF SameRunner, History
<1>5. JobsInv'
  BY <1>1, <1>2, <1>4, AppliedJobs
<1>6. isRunning /\ c.id = opId /\ \A e \in calls : e.id = opId => e = c
  BY <1>1, RequestAtServer
<1>7. CallInv'
  BY <1>1, <1>3, <1>6 DEF ReportInv, CallInv, isRunning
<1>8. ASSUME NEW j \in Job, j = job, Undisturbed(current) PROVE StepTells(j, d)'
  <2>1. StepTells(j, c) /\ u.op = StepOp(step, j) /\ step \in Step /\ u \in Open(j.victim)
    BY <1>1, <1>2, <1>3, <1>6, <1>8, RequestAtServer DEF ReportInv, RunnerInv, Open
  <2>2. InPhase(j) /\ HoldsOriginal(j.primary)
    BY <1>6, <1>8, CurrentJob DEF ReportInv, PhaseInv, OpenInv
  <2>3. before' = before /\ step' = step /\ Open(j.victim)' = Open(j.victim) \ {u}
    BY <1>1, <1>2 DEF Open
  <2>4. /\ ~Restored(j)
        /\ Untouched(j) => MovedAside(j)' /\ Open(j.victim)' = {}
        /\ MovedAside(j) /\ u.op = StepOp("Link", j) => MovedAside(j)' /\ IsLinked(j)'
        /\ MovedAside(j) /\ u.op # StepOp("Link", j) =>
             u.op = StepOp("UndoRename", j) /\ Restored(j)'
        /\ Linked(j) => /\ Linked(j)' /\ Open(j.victim)' = {}
                        /\ fs'[Tmp(j.victim)] = NoFile
    BY <1>1, <1>2, <2>1, <2>2, <2>3, JobApplied
  <2>5. Open(j.victim)' = {} => \A steps : OpenOnly(steps, j)' /\ Alone(j.victim)'
    BY DEF OpenOnly, Alone
  <2>6. CASE step = "Rename"
    BY <1>1, <1>3, <2>1, <2>3, <2>4, <2>5, <2>6 DEF StepTells
  <2>7. CASE step = "Link"
    <3>1. MovedAside(j) /\ Alone(j.victim)
      BY <2>1, <2>7 DEF StepTells
    <3>2. Open(j.victim)' = {}
      BY <2>1, <2>3, <3>1 DEF Alone
    <3> QED
      BY <1>3, <2>1, <2>3, <2>4, <2>5, <2>7, <3>1, <3>2 DEF StepTells
  <2>8. CASE step = "Unlink"
    BY <1>3, <2>1, <2>3, <2>4, <2>8 DEF StepTells
  <2>9. CASE step = "UndoRename"
    <3>1. u.op # StepOp("Rename", j) /\ u.op # StepOp("Unlink", j) /\ u.op # StepOp("Link", j)
      BY <2>1, <2>9, StepOpFacts DEF Step
    <3>2. MovedAside(j)
      BY <2>1, <2>2, <2>4, <3>1 DEF InPhase, Untouched, Linked, OpenOnly
    <3> QED
      BY <1>3, <2>3, <2>4, <2>9, <3>1, <3>2 DEF StepTells
  <2> QED
    BY <2>1, <2>6, <2>7, <2>8, <2>9 DEF Step
<1>9. RunnerInv'
  BY <1>1, <1>4, <1>6, <1>8, SameJob
<1> QED
  BY <1>5, <1>7, <1>9 DEF ReportInv, JobsInv

\* The server declines a request.
LEMMA ServerRefusesReports ==
  ASSUME KeepInv, ReportInv, NEW c \in calls, ServerRefuses(c)
  PROVE  ReportInv'
<1> DEFINE u == [id |-> c.id, op |-> c.op]
           d == [c EXCEPT !.stage = "refused"]
<1>1. /\ c.stage = "sent" /\ calls' = (calls \ {c}) \cup {d} /\ UNCHANGED fs
      /\ UNCHANGED <<jobs, current, step, opId, connected, orphans>>
      /\ UNCHANGED <<ran, outcome, before, stale, unknown>>
  BY DEF ServerRefuses, runner, history
<1>2. u \in Unresolved /\ Unresolved' = Unresolved \ {u}
  BY <1>1, RestageUnresolved
<1>3. d.id = c.id /\ d.stage = "refused" /\ u.op = c.op
  BY DEF KeepInv, TypeOK, Call
<1> HIDE DEF u, d
<1>4. SameRunner /\ UNCHANGED History /\ \A f \in Files : Calm(f)
  BY <1>1 DEF SameRunner, History, Calm
<1>5. JobsInv'
  BY <1>1, <1>2, <1>4, CalmJobs
<1>6. isRunning /\ c.id = opId /\ \A e \in calls : e.id = opId => e = c
  BY <1>1, RequestAtServer
<1>7. CallInv'
  BY <1>1, <1>3, <1>6 DEF ReportInv, CallInv, isRunning
<1>8. ASSUME NEW j \in Job, j = job, Undisturbed(current) PROVE StepTells(j, d)'
  <2>1. StepTells(j, c) /\ u \in Open(j.victim)
    BY <1>1, <1>2, <1>3, <1>6, <1>8, RequestAtServer DEF ReportInv, RunnerInv, Open
  <2>2. before' = before /\ step' = step /\ Open(j.victim)' = Open(j.victim) \ {u}
        /\ Calm(j.victim) /\ unknown \subseteq unknown'
    BY <1>1, <1>2, <1>4 DEF Open, Job
  <2>3. StepTells(j, c)' /\ (Untouched(j) => Untouched(j)')
    BY <2>1, <2>2, TellsCarry, Carries
  <2>4. step = "Rename" => Untouched(j) /\ Open(j.victim)' = {}
    BY <1>1, <2>1, <2>2 DEF StepTells, Untouched, Alone
  <2> QED
    BY <1>3, <2>2, <2>3, <2>4 DEF StepTells
<1>9. RunnerInv'
  BY <1>1, <1>4, <1>6, <1>8, SameJob
<1> QED
  BY <1>5, <1>7, <1>9 DEF ReportInv, JobsInv

\* The server gets to an operation nobody waits for.
LEMMA OrphanAppliesReports ==
  ASSUME KeepInv, ReportInv, NEW o \in orphans, OrphanApplies(o)
  PROVE  ReportInv'
<1>1. /\ Applicable(fs, o.op) /\ fs' = Applied(fs, o.op) /\ orphans' = orphans \ {o}
      /\ UNCHANGED <<jobs, current, step, opId, connected, calls>>
      /\ UNCHANGED <<ran, outcome, before, stale, unknown>>
  BY DEF OrphanApplies, runner, session, history
<1>2. o \in Unresolved /\ Unresolved' = Unresolved \ {o}
  <2>1. o \notin Orphans(calls)
    BY DEF Orphans, KeepInv, IdInv
  <2> QED
    BY <1>1, <2>1 DEF Unresolved, Orphans
<1>3. SameRunner /\ UNCHANGED History
  BY <1>1 DEF SameRunner, History
<1>4. JobsInv'
  BY <1>1, <1>2, <1>3, AppliedJobs
<1>5. CallInv'
  BY <1>1 DEF ReportInv, CallInv, isRunning
<1>6. ASSUME NEW j \in Job, isRunning, j = job, Undisturbed(current),
             NEW c \in calls', c.id = opId
      PROVE  StepTells(j, c)'
  <2>1. c \in calls /\ StepTells(j, c)
    BY <1>1, <1>6 DEF ReportInv, RunnerInv
  <2>2. InPhase(j) /\ HoldsOriginal(j.primary)
    BY <1>6, CurrentJob DEF ReportInv, PhaseInv, OpenInv
  <2>3. CASE Victim(o.op) = j.victim
    <3>1. o \in Open(j.victim)
      BY <1>2, <2>3 DEF Open
    <3>2. ASSUME c.stage = "sent" PROVE \E w \in Open(j.victim) : w # o
      <4>1. Victim(c.op) = j.victim
        BY <1>6, <2>1, <3>2, RequestAtServer
      <4>2. [id |-> c.id, op |-> c.op] \in Open(j.victim)
        BY <2>1, <3>2, <4>1 DEF Open, Unresolved, Orphans
      <4>3. c.id # o.id
        BY <2>1, <3>2 DEF KeepInv, IdInv
      <4> QED
        BY <4>2, <4>3
    <3> QED
      BY <1>1, <1>2, <2>1, <2>2, <3>1, <3>2, TellsApplied
  <2>4. CASE Victim(o.op) # j.victim
    <3>1. Calm(j.victim)
      <4>1. fs \in [Path -> Entry] /\ \E s \in Step, k \in Job : o.op = StepOp(s, k)
        BY <1>2 DEF KeepInv, TypeOK, OpInv
      <4>2. j.victim \in Files
        BY DEF Job
      <4> QED
        BY <1>1, <2>4, <4>1, <4>2, AppliedElsewhere DEF Calm
    <3>2. Open(j.victim)' \subseteq Open(j.victim)
      BY <1>2 DEF Open
    <3> QED
      BY <1>1, <2>1, <3>1, <3>2, TellsCarry
  <2> QED
    BY <2>3, <2>4
<1>7. RunnerInv'
  BY <1>3, <1>6, SameJob
<1> QED
  BY <1>4, <1>5, <1>7 DEF ReportInv, JobsInv

-----------------------------------------------------------------------------
(***************************************************************************)
(* Steps that neither issue nor carry out an operation.                    *)
(***************************************************************************)
LEMMA CalmReports ==
  ASSUME KeepInv, ReportInv, SameRunner, \A f \in Files : Calm(f), UNCHANGED History,
         Unresolved' \subseteq Unresolved, unknown \subseteq unknown',
         calls' \subseteq calls, UNCHANGED connected
  PROVE  ReportInv'
<1>1. CallInv'
  BY DEF ReportInv, CallInv, SameRunner, History, isRunning
<1> QED
  BY <1>1, CalmJobs, CalmRunner DEF ReportInv, JobsInv

\* The server drops an abandoned operation.
LEMMA OrphanDiesReports ==
  ASSUME KeepInv, ReportInv, NEW o \in orphans, OrphanDies(o)
  PROVE  ReportInv'
<1>1. /\ UNCHANGED <<jobs, current, step, opId, connected, calls, fs>>
      /\ UNCHANGED <<ran, outcome, before, stale, unknown>>
      /\ orphans' \subseteq orphans
  BY DEF OrphanDies, runner, session, history
<1>2. Unresolved' \subseteq Unresolved /\ SameRunner /\ UNCHANGED History
      /\ \A f \in Files : Calm(f)
  BY <1>1 DEF Unresolved, Orphans, SameRunner, History, Calm
<1> QED
  BY <1>1, <1>2, CalmReports

\* Another client takes a free name.
LEMMA OtherClientReports ==
  ASSUME KeepInv, ReportInv, NEW g \in Files, NEW i \in Inodes, OtherClientCreates(g, i)
  PROVE  ReportInv'
<1>1. /\ UNCHANGED <<jobs, current, step, opId, connected, calls, orphans>>
      /\ UNCHANGED <<ran, outcome, before, stale, unknown>>
      /\ fs[Name(g)] = NoFile /\ fs' = [fs EXCEPT ![Name(g)] = i]
      /\ fs \in [Path -> Entry]
  BY DEF OtherClientCreates, runner, session, history, KeepInv, TypeOK
<1>2. \A f \in Files : Calm(f)
  BY <1>1, PathFacts DEF Calm
<1>3. Unresolved' \subseteq Unresolved /\ SameRunner /\ UNCHANGED History
  BY <1>1 DEF Unresolved, Orphans, SameRunner, History
<1> QED
  BY <1>1, <1>2, <1>3, CalmReports

\* Nothing happens.
LEMMA StutterReports ==
  ASSUME KeepInv, ReportInv, UNCHANGED vars
  PROVE  ReportInv'
<1>1. /\ UNCHANGED <<jobs, current, step, opId, connected, calls, orphans, fs>>
      /\ UNCHANGED <<ran, outcome, before, stale, unknown>>
  BY DEF vars, runner, session, history
<1>2. Unresolved' \subseteq Unresolved /\ SameRunner /\ UNCHANGED History
      /\ \A f \in Files : Calm(f)
  BY <1>1 DEF Unresolved, Orphans, SameRunner, History, Calm
<1> QED
  BY <1>1, <1>2, CalmReports

\* The connection ends: an answer that was under way is unknown from now on.
LEMMA DisconnectReports ==
  ASSUME KeepInv, ReportInv, Disconnect
  PROVE  ReportInv'
<1>1. /\ calls' = {[c EXCEPT !.stage = "queued"] : c \in calls}
      /\ orphans' = Unresolved /\ UNCHANGED <<jobs, current, step, opId, fs>>
      /\ UNCHANGED <<ran, outcome, before, stale>>
      /\ unknown' = unknown \cup Unanswered(calls)
  BY DEF Disconnect, runner, Unresolved
<1>2. \A d \in calls' : /\ d.stage = "queued"
                        /\ \E c \in calls : d.id = c.id /\ d = [c EXCEPT !.stage = "queued"]
  BY <1>1 DEF KeepInv, TypeOK, Call
<1>3. Unresolved' = Unresolved
  BY <1>1, <1>2 DEF Orphans, Unresolved
<1>4. SameRunner /\ UNCHANGED History /\ \A f \in Files : Calm(f)
  BY <1>1 DEF SameRunner, History, Calm
<1>5. JobsInv'
  BY <1>1, <1>3, <1>4, CalmJobs
<1>6. CallInv'
  BY <1>1, <1>2 DEF ReportInv, CallInv, isRunning
<1>7. ASSUME NEW j \in Job, isRunning, j = job, Undisturbed(current),
             NEW d \in calls', d.id = opId
      PROVE  StepTells(j, d)'
  <2>1. PICK c \in calls : d.id = c.id /\ d = [c EXCEPT !.stage = "queued"]
    BY <1>2
  <2>2. StepTells(j, c)
    BY <1>7, <2>1 DEF ReportInv, RunnerInv
  <2>3. Calm(j.victim) /\ before' = before /\ step' = step /\ unknown \subseteq unknown'
        /\ Open(j.victim)' = Open(j.victim)
    BY <1>1, <1>3, <1>4 DEF Job, Open
  <2>4. StepTells(j, c)'
    BY <2>2, <2>3, TellsCarry
  <2>5. d.stage = "queued"
    BY <1>2
  <2>6. CASE c.stage = "queued"
    <3>1. c \in Call
      BY DEF KeepInv, TypeOK
    <3>2. d = c
      BY <2>1, <2>6, <3>1 DEF Call
    <3> QED
      BY <2>4, <3>2
  <2>7. CASE c.stage # "queued"
    <3>1. Victim(c.op) = j.victim
      BY <1>7, <2>7, RequestAtServer
    <3>2. j.victim \in unknown'
      BY <1>1, <2>7, <3>1 DEF Unanswered
    <3> QED
      BY <2>4, <2>5, <3>2 DEF StepTells
  <2> QED
    BY <2>6, <2>7
<1>8. RunnerInv'
  BY <1>4, <1>7, SameJob
<1> QED
  BY <1>5, <1>6, <1>8 DEF ReportInv, JobsInv

\* The runner is gone; what is open at the server stays so.
LEMMA GoneReports ==
  ASSUME KeepInv, ReportInv, jobs' = <<>>, UNCHANGED <<fs, History>>,
         Unresolved' = Unresolved, unknown \subseteq unknown',
         \A c \in calls' : c.stage = "queued"
  PROVE  ReportInv'
<1>1. ~isRunning' /\ \A f \in Files : Calm(f)
  BY DEF isRunning, Calm
<1>2. JobsInv'
  BY <1>1, CalmJobs
<1>3. CallInv' /\ RunnerInv'
  BY <1>1 DEF CallInv, RunnerInv, ReportInv, History
<1> QED
  BY <1>2, <1>3 DEF ReportInv, JobsInv

\* The panel is deleted or built, or the process dies.
LEMMA LifeReports ==
  ASSUME KeepInv, ReportInv, DestroyPanel \/ Crash \/ Reconnect
  PROVE  ReportInv'
<1>1. CASE DestroyPanel \/ Reconnect
  <2>1. /\ UNCHANGED <<fs, calls, orphans, unknown>> /\ jobs' = <<>> /\ ~connected
        /\ UNCHANGED History
    BY <1>1 DEF DestroyPanel, Reconnect, RunnerGone, session, history, History
  <2>2. Unresolved' = Unresolved /\ \A c \in calls' : c.stage = "queued"
    BY <2>1 DEF Unresolved, Orphans, ReportInv, CallInv
  <2> QED
    BY <2>1, <2>2, GoneReports
<1>2. CASE Crash
  <2>1. /\ calls' = {} /\ orphans' = Unresolved /\ jobs' = <<>>
        /\ unknown \subseteq unknown' /\ UNCHANGED <<fs, History>>
    BY <1>2 DEF Crash, RunnerGone, History, Unresolved
  <2>2. Unresolved' = Unresolved
    BY <2>1 DEF Unresolved, Orphans
  <2> QED
    BY <2>1, <2>2, GoneReports
<1> QED
  BY <1>1, <1>2

-----------------------------------------------------------------------------
(***************************************************************************)
(* Completions and starts: a new operation may be issued, for one job n.   *)
(***************************************************************************)
LEMMA Issued ==
  ASSUME KeepInv, NEW rest, Handover(rest), NEW s \in Step, NEW j \in Job,
         Issue(s, j, rest)
  PROVE  \E g \in {"sent", "queued"} :
           /\ calls' = rest \cup {[id |-> nextOpId, op |-> StepOp(s, j), stage |-> g]}
           /\ g = "sent" => connected
           /\ g = "queued" => Unresolved' = Unresolved
           /\ \A u \in Unresolved' : u \in Unresolved \/ u = [id |-> nextOpId, op |-> StepOp(s, j)]
           /\ \A c \in rest : c.id # nextOpId
           /\ opId' = nextOpId /\ step' = s
<1>1. PICK g \in {"sent", "queued"} :
        /\ calls' = rest \cup {[id |-> nextOpId, op |-> StepOp(s, j), stage |-> g]}
        /\ g = "sent" => connected
  BY DEF Issue, Submit
<1>2. opId' = nextOpId /\ step' = s
  BY DEF Issue, Submit
<1>3. Unresolved' = Orphans(calls') \cup orphans'
  BY DEF Unresolved, Orphans
<1>4. Orphans(rest) \cup orphans' = Unresolved
  BY DEF Handover
<1>5. Orphans(calls') \in {Orphans(rest), Orphans(rest) \cup
                             {[id |-> nextOpId, op |-> StepOp(s, j)]}}
  BY <1>1, OrphansOfOneMore
<1>6. \A u \in Unresolved' : u \in Unresolved \/ u = [id |-> nextOpId, op |-> StepOp(s, j)]
  BY <1>3, <1>4, <1>5
<1>7. g = "queued" => Orphans(calls') = Orphans(rest)
  BY <1>1 DEF Orphans
<1>8. \A c \in rest : c.id # nextOpId
  BY DEF Handover, KeepInv, IdInv, TypeOK, Call
<1> QED
  BY <1>1, <1>2, <1>3, <1>4, <1>6, <1>7, <1>8

\* The jobs other than n are left alone.
LEMMA OthersKept ==
  ASSUME KeepInv, ReportInv, UNCHANGED <<fs, ran, before, stale>>,
         unknown \subseteq unknown', Len(outcome') \in Nat, Len(outcome) <= Len(outcome'),
         NEW n \in Nat, n <= Len(outcome') + 1,
         \A u \in Unresolved' :
           u \in Unresolved \/ (n \in DOMAIN ran /\ Victim(u.op) = ran[n].victim)
  PROVE  /\ OpenInv'
         /\ \A k \in DOMAIN ran : Undisturbed(k) /\ k # n =>
              /\ InPhase(ran[k])'
              /\ k > Len(outcome') + 1 => Untouched(ran[k])'
              /\ \A m : ReportTells(ran[k], m) => ReportTells(ran[k], m)'
<1>1. \A k : Undisturbed(k)' <=> Undisturbed(k)
  BY DEF Undisturbed
<1>2. \A f \in Files : Calm(f)
  BY DEF Calm
<1>3. OpenInv'
  <2>1. ASSUME NEW u \in Unresolved'
        PROVE  \/ Victim(u.op) \in stale'
               \/ \E k \in DOMAIN ran' : k <= Len(outcome') + 1 /\ ran'[k].victim = Victim(u.op)
    <3>1. CASE u \in Unresolved
      BY <3>1, RanTypes DEF ReportInv, OpenInv
    <3>2. CASE n \in DOMAIN ran /\ Victim(u.op) = ran[n].victim
      BY <3>2
    <3> QED
      BY <2>1, <3>1, <3>2
  <2>2. ASSUME NEW k \in DOMAIN ran', Undisturbed(k)' PROVE HoldsOriginal(ran[k].primary)'
    BY <1>1, <2>2 DEF ReportInv, OpenInv, HoldsOriginal
  <2> QED
    BY <2>1, <2>2 DEF OpenInv
<1>4. ASSUME NEW k \in DOMAIN ran, Undisturbed(k), k # n
      PROVE  /\ InPhase(ran[k])'
             /\ k > Len(outcome') + 1 => Untouched(ran[k])'
             /\ \A m : ReportTells(ran[k], m) => ReportTells(ran[k], m)'
  <2>1. PICK j \in Job : j = ran[k]
    BY RanTypes
  <2>2. \A i \in DOMAIN ran : ran[i].victim = j.victim => i = k
    BY <2>1 DEF ReportInv, CallInv, ConflictFree
  <2>3. Open(j.victim)' \subseteq Open(j.victim) /\ before' = before /\ Calm(j.victim)
    BY <1>2, <1>4, <2>2 DEF Open, Job
  <2>4. InPhase(j) /\ (k > Len(outcome') + 1 => Untouched(j))
    BY <1>4, <2>1, RanTypes DEF ReportInv, PhaseInv
  <2>5. (InPhase(j) => InPhase(j)') /\ (Untouched(j) => Untouched(j)')
    BY <2>3, TellsCarry, Carries
  <2>6. \A m : ReportTells(j, m) => ReportTells(j, m)'
    BY <2>3, TellsCarry
  <2>7. j = ran'[k]
    BY <2>1
  <2> QED
    BY <2>1, <2>4, <2>5, <2>6, <2>7
<1> QED
  BY <1>3, <1>4

\* A completion somebody else waits for, or nobody.
LEMMA NotMineReports ==
  ASSUME KeepInv, ReportInv, NEW rest, Handover(rest), NotMine(rest),
         UNCHANGED <<fs, ran, before, stale, connected>>, unknown \subseteq unknown'
  PROVE  ReportInv'
<1>1. calls' = rest /\ rest \subseteq calls /\ SameRunner /\ UNCHANGED History
  BY DEF NotMine, Handover, SameRunner, runner, History
<1>2. Unresolved' \subseteq Unresolved
  BY <1>1 DEF Handover, Unresolved, Orphans
<1>3. \A f \in Files : Calm(f)
  BY DEF Calm
<1> QED
  BY <1>1, <1>2, <1>3, CalmReports

\* The first step of a job whose victim is untouched, with nothing open.
LEMMA FirstStep ==
  ASSUME NEW j \in Job, UNCHANGED <<fs, before>>, Untouched(j), Open(j.victim) = {},
         NEW new, \A u \in Unresolved' : u \in Unresolved \/ u = new,
         new.op = StepOp("Rename", j)
  PROVE  Untouched(j)' /\ OpenOnly({"Rename"}, j)' /\ InPhase(j)'
<1>1. Open(j.victim)' \subseteq {new}
  BY DEF Open
<1>2. OpenOnly({"Rename"}, j)' /\ Alone(j.victim)'
  BY <1>1 DEF OpenOnly, Alone
<1> QED
  BY <1>2 DEF Untouched, InPhase, HoldsOriginal

\* The next job begins, or the first one; k jobs have been reported by then.
LEMMA JobBegins ==
  ASSUME KeepInv, ReportInv, NEW rest, Handover(rest), UNCHANGED <<fs, ran, before, stale>>,
         unknown \subseteq unknown', NEW n \in DOMAIN ran, n > Len(outcome) + 1,
         Len(outcome') = n - 1, Issue("Rename", ran[n], rest), jobs' = ran, current' = n,
         UNCHANGED connected, \A c \in rest : c.stage = "queued"
  PROVE  /\ CallInv' /\ OpenInv' /\ PhaseInv' /\ RunnerInv'
         /\ \A k \in DOMAIN ran : Undisturbed(k) /\ k # n =>
              \A m : ReportTells(ran[k], m) => ReportTells(ran[k], m)'
<1>1. PICK j \in Job : j = ran[n]
  BY RanTypes
<1> DEFINE new == [id |-> nextOpId, op |-> StepOp("Rename", j)]
<1>2. "Rename" \in Step
  BY DEF Step
<1>3. PICK g \in {"sent", "queued"} :
           /\ calls' = rest \cup {[id |-> nextOpId, op |-> StepOp("Rename", j), stage |-> g]}
           /\ g = "sent" => connected
           /\ g = "queued" => Unresolved' = Unresolved
           /\ \A u \in Unresolved' : u \in Unresolved \/ u = new
           /\ \A c \in rest : c.id # nextOpId
           /\ opId' = nextOpId /\ step' = "Rename"
  BY <1>1, <1>2, Issued
<1>4. new.op = StepOp("Rename", j) /\ Victim(new.op) = j.victim
  BY <1>2, StepOpFacts
<1> HIDE DEF new
<1>5. n \in Nat /\ ran # <<>> /\ Len(outcome') \in Nat /\ Len(outcome) <= Len(outcome')
      /\ n <= Len(outcome') + 1 /\ Len(outcome') + 1 = n
  BY RanTypes, EmptySeq
<1>6. \A u \in Unresolved' :
        u \in Unresolved \/ (n \in DOMAIN ran /\ Victim(u.op) = ran[n].victim)
  BY <1>1, <1>3, <1>4
<1>7. /\ OpenInv'
      /\ \A k \in DOMAIN ran : Undisturbed(k) /\ k # n =>
           /\ InPhase(ran[k])'
           /\ k > Len(outcome') + 1 => Untouched(ran[k])'
           /\ \A m : ReportTells(ran[k], m) => ReportTells(ran[k], m)'
  BY <1>5, <1>6, OthersKept
<1>8. isRunning' /\ job' = ran[n] /\ j = job' /\ j = ran'[n]
  BY <1>1, <1>5 DEF isRunning, job
<1>9. CallInv'
  BY <1>3, <1>5, <1>8 DEF ReportInv, CallInv
<1>10. ASSUME Undisturbed(n)
       PROVE  Untouched(j) /\ Open(j.victim) = {}
              /\ Untouched(j)' /\ OpenOnly({"Rename"}, j)' /\ InPhase(j)'
  <2>1. Untouched(j) /\ Open(j.victim) = {}
    BY <1>1, <1>10, NotBegun DEF ReportInv, PhaseInv
  <2> QED
    BY <1>3, <1>4, <2>1, FirstStep
<1>11. \A k : Undisturbed(k)' <=> Undisturbed(k)
  BY DEF Undisturbed
<1>12. PhaseInv'
  <2>1. ASSUME NEW k \in DOMAIN ran', Undisturbed(k)'
        PROVE  InPhase(ran[k])' /\ (k > Len(outcome') + 1 => Untouched(ran[k])')
    <3>1. CASE k = n
      <4>1. InPhase(j)' /\ Untouched(j)'
        BY <1>10, <1>11, <2>1, <3>1
      <4> QED
        BY <1>8, <3>1, <4>1
    <3>2. CASE k # n
      BY <1>7, <1>11, <2>1, <3>2
    <3> QED
      BY <3>1, <3>2
  <2> QED
    BY <2>1 DEF PhaseInv
<1>13. RunnerInv'
  <2>1. ASSUME Undisturbed(n), NEW c \in calls', c.id = opId' PROVE StepTells(j, c)'
    <3>1. c.stage = g
      BY <1>3, <2>1
    <3>2. g = "queued" => Open(j.victim)' = {}
      BY <1>3, <1>10, <2>1 DEF Open
    <3> QED
      BY <1>3, <1>10, <2>1, <3>1, <3>2 DEF StepTells
  <2>2. ASSUME Undisturbed(n), NEW c \in calls', c.id = opId' PROVE StepTells(job, c)'
    BY <1>8, <2>1, <2>2
  <2> QED
    BY <1>11, <2>2 DEF RunnerInv
<1> QED
  BY <1>7, <1>9, <1>12, <1>13

\* A job is reported, and the next one begins or the run is over.
LEMMA FinishReports ==
  ASSUME KeepInv, KeepInv', ReportInv, isRunning, NEW rest, Handover(rest), NEW m,
         FinishJob(m, rest), UNCHANGED <<fs, ran, before, stale, connected>>,
         unknown \subseteq unknown', \A c \in rest : c.stage = "queued",
         Undisturbed(current) => \/ ReportTells(job, m)
                                 \/ m = "renameFailed" /\ job.victim \in unknown'
  PROVE  ReportInv'
<1> DEFINE n == current + 1
<1>1. /\ current \in DOMAIN ran /\ current = Len(outcome) + 1
      /\ jobs = ran /\ job = ran[current]
  BY CurrentJob
<1>2. outcome' = Append(outcome, m) /\ StartJob(ran, n, rest)
  BY <1>1 DEF FinishJob
<1>3. /\ Len(outcome') = Len(outcome) + 1
      /\ \A k \in DOMAIN outcome : outcome'[k] = outcome[k]
      /\ outcome'[current] = m
      /\ DOMAIN outcome' = DOMAIN outcome \cup {current}
  <2>1. outcome \in Seq(Message) /\ outcome' \in Seq(Message)
    BY DEF KeepInv, TypeOK
  <2>2. /\ Len(outcome') = Len(outcome) + 1
        /\ \A k \in 1..Len(outcome) : outcome'[k] = outcome[k]
        /\ outcome'[Len(outcome) + 1] = m
    BY <1>2, <2>1
  <2>3. Len(outcome) \in Nat /\ DOMAIN outcome = 1..Len(outcome)
        /\ DOMAIN outcome' = 1..Len(outcome')
    BY <2>1
  <2>4. DOMAIN outcome' = DOMAIN outcome \cup {current}
    BY <1>1, <2>2, <2>3
  <2> QED
    BY <1>1, <2>2, <2>3, <2>4
<1>4. \A k : Undisturbed(k)' <=> Undisturbed(k)
  BY DEF Undisturbed
<1>5. n \in Nat /\ current \in Nat /\ current # n /\ Len(outcome') + 1 = n
  BY <1>1, <1>3, RanTypes
<1> HIDE DEF n
<1>6. CallInv' /\ OpenInv' /\ PhaseInv' /\ RunnerInv'
      /\ \A k \in DOMAIN ran : Undisturbed(k) /\ k # n =>
           \A x : ReportTells(ran[k], x) => ReportTells(ran[k], x)'
  <2>1. CASE n \in DOMAIN ran
    <3>1. Issue("Rename", ran[n], rest) /\ jobs' = ran /\ current' = n
      BY <1>2, <2>1 DEF StartJob
    <3>2. n > Len(outcome) + 1 /\ Len(outcome') = n - 1
      BY <1>3, <1>5, RanTypes
    <3> QED
      BY <2>1, <3>1, <3>2, JobBegins
  <2>2. CASE n \notin DOMAIN ran
    <3>1. jobs' = <<>> /\ calls' = rest
      BY <1>2, <2>2 DEF StartJob
    <3>2. Unresolved' = Unresolved
      BY <3>1 DEF Unresolved, Orphans, Handover
    <3>3. Len(outcome') \in Nat /\ Len(outcome) <= Len(outcome') /\ n <= Len(outcome') + 1
      BY <1>3, <1>5, RanTypes
    <3>4. /\ OpenInv'
          /\ \A k \in DOMAIN ran : Undisturbed(k) /\ k # n =>
               /\ InPhase(ran[k])'
               /\ k > Len(outcome') + 1 => Untouched(ran[k])'
               /\ \A x : ReportTells(ran[k], x) => ReportTells(ran[k], x)'
      BY <1>5, <3>2, <3>3, OthersKept
    <3>5. PhaseInv'
      BY <1>4, <2>2, <3>4 DEF PhaseInv
    <3>6. CallInv' /\ RunnerInv'
      BY <3>1 DEF CallInv, RunnerInv, isRunning, ReportInv
    <3> QED
      BY <3>4, <3>5, <3>6
  <2> QED
    BY <2>1, <2>2
<1>7. Len(outcome') <= Len(ran')
  BY <1>1, <1>3, RanTypes
<1>8. ASSUME NEW k \in DOMAIN outcome', Undisturbed(k)'
      PROVE  ReportTells(ran[k], outcome[k])'
  <2>1. CASE k \in DOMAIN outcome
    <3>1. k \in DOMAIN ran /\ k <= Len(outcome)
      BY <2>1, RanTypes DEF ReportInv, ToldInv
    <3>2. k # n /\ ReportTells(ran[k], outcome[k])
      BY <1>1, <1>3, <1>4, <1>5, <1>8, <2>1, <3>1, RanTypes DEF ReportInv, ToldInv
    <3>3. PICK x : x = outcome[k] /\ x = outcome'[k]
      BY <1>3, <2>1
    <3>4. ReportTells(ran[k], x)
      BY <3>2, <3>3
    <3>5. ReportTells(ran[k], x)'
      BY <1>4, <1>6, <1>8, <3>1, <3>2, <3>4
    <3> QED
      BY <3>3, <3>5
  <2>2. CASE k = current
    <3>1. m = outcome'[k]
      BY <1>3, <2>2
    <3>2. PICK j \in Job : j = ran[k] /\ j = ran'[k]
      BY <1>1, <2>2, RanTypes
    <3>3. ReportTells(j, m) \/ (m = "renameFailed" /\ j.victim \in unknown')
      BY <1>1, <1>4, <1>8, <2>2, <3>2
    <3>4. ASSUME ReportTells(j, m) PROVE ReportTells(j, m)'
      <4>1. k \in DOMAIN ran /\ k # n /\ Undisturbed(k) /\ ReportTells(ran[k], m)
        BY <1>1, <1>4, <1>5, <1>8, <2>2, <3>2, <3>4
      <4>2. ReportTells(ran[k], m)'
        BY <1>6, <4>1
      <4> QED
        BY <3>2, <4>2
    <3>5. ReportTells(j, m)'
      BY <3>3, <3>4 DEF ReportTells
    <3> QED
      BY <3>1, <3>2, <3>5
  <2> QED
    BY <1>3, <1>8, <2>1, <2>2
<1>9. ToldInv'
  BY <1>7, <1>8 DEF ToldInv
<1> QED
  BY <1>6, <1>9 DEF ReportInv

\* A job goes on to its next step: the runner knows the phase it is in, and
\* that nothing else is open about its victim.
Ready(s, j) ==
  /\ s = "Link" => MovedAside(j) /\ Open(j.victim) = {}
  /\ s = "Unlink" => IsLinked(j) /\ Open(j.victim) = {}
  /\ s = "UndoRename" => MovedAside(j) /\ OpenOnly({"Link"}, j)

\* What the runner knows once that step is issued.
LEMMA NextPhase ==
  ASSUME NEW j \in Job, UNCHANGED <<fs, before>>, NEW s \in {"Link", "Unlink", "UndoRename"},
         Ready(s, j), step' = s, NEW c, c.stage \in {"sent", "queued"},
         NEW new, \A u \in Unresolved' : u \in Unresolved \/ u = new,
         new.op = StepOp(s, j)
  PROVE  InPhase(j)' /\ StepTells(j, c)'
<1>1. \A u \in Open(j.victim)' : u \in Open(j.victim) \/ u = new
  BY DEF Open
<1>2. fs' = fs /\ before' = before
  OBVIOUS
<1>3. CASE s = "Link"
  <2>1. MovedAside(j) /\ \A u \in Open(j.victim)' : u = new
    BY <1>1, <1>3 DEF Ready
  <2>2. OpenOnly({"Link"}, j)' /\ OpenOnly({"Link", "UndoRename"}, j)' /\ Alone(j.victim)'
    BY <1>3, <2>1 DEF OpenOnly, Alone
  <2>3. MovedAside(j)'
    BY <1>2, <2>1, <2>2 DEF MovedAside
  <2> QED
    BY <1>3, <2>2, <2>3 DEF StepTells, InPhase
<1>4. CASE s = "Unlink"
  <2>1. IsLinked(j) /\ \A u \in Open(j.victim)' : u = new
    BY <1>1, <1>4 DEF Ready
  <2>2. OpenOnly({"Unlink"}, j)'
    BY <1>4, <2>1 DEF OpenOnly
  <2>3. Linked(j)'
    BY <1>2, <2>1, <2>2 DEF Linked, IsLinked
  <2> QED
    BY <1>4, <2>3 DEF StepTells, InPhase
<1>5. CASE s = "UndoRename"
  <2>1. MovedAside(j) /\ \A u \in Open(j.victim) : u.op = StepOp("Link", j)
    BY <1>5 DEF Ready, OpenOnly
  <2>2. OpenOnly({"Link", "UndoRename"}, j)'
    BY <1>1, <1>5, <2>1 DEF OpenOnly
  <2>3. MovedAside(j)'
    BY <1>2, <2>1, <2>2 DEF MovedAside
  <2> QED
    BY <1>5, <2>3 DEF StepTells, InPhase
<1> QED
  BY <1>3, <1>4, <1>5

\* The next step of a job is issued, the runner being ready for it.
LEMMA NextStepReports ==
  ASSUME KeepInv, ReportInv, isRunning, NEW rest, Handover(rest),
         NEW s \in {"Link", "Unlink", "UndoRename"}, NextStep(s, rest),
         UNCHANGED <<fs, ran, before, stale, connected>>, unknown \subseteq unknown',
         \A c \in rest : c.stage = "queued",
         Undisturbed(current) => Ready(s, job)
  PROVE  ReportInv'
<1>1. /\ current \in DOMAIN ran /\ current = Len(outcome) + 1
      /\ jobs = ran /\ job = ran[current]
  BY CurrentJob
<1>2. PICK j \in Job : j = job
  BY <1>1, RanTypes
<1>3. /\ Issue(s, j, rest)
      /\ UNCHANGED <<jobs, current, outcome>>
  BY <1>2 DEF NextStep
<1> DEFINE new == [id |-> nextOpId, op |-> StepOp(s, j)]
<1>4. s \in Step
  BY DEF Step
<1>5. PICK g \in {"sent", "queued"} :
           /\ calls' = rest \cup {[id |-> nextOpId, op |-> StepOp(s, j), stage |-> g]}
           /\ g = "sent" => connected
           /\ \A u \in Unresolved' : u \in Unresolved \/ u = new
           /\ \A c \in rest : c.id # nextOpId
           /\ opId' = nextOpId /\ step' = s
  BY <1>3, <1>4, Issued
<1>6. new.op = StepOp(s, j) /\ Victim(new.op) = j.victim
  BY <1>4, StepOpFacts
<1> HIDE DEF new
<1>7. /\ isRunning' /\ j = job' /\ j = ran[current] /\ j = ran'[current']
      /\ current' = current /\ current \in Nat /\ Len(outcome') = Len(outcome)
      /\ Len(outcome') \in Nat /\ current <= Len(outcome') + 1
  BY <1>1, <1>2, <1>3, RanTypes DEF isRunning, job
<1>8. \A k : Undisturbed(k)' <=> Undisturbed(k)
  BY DEF Undisturbed
<1>9. CallInv'
  BY <1>1, <1>3, <1>5, <1>7 DEF ReportInv, CallInv
<1>10. /\ OpenInv'
       /\ \A k \in DOMAIN ran : Undisturbed(k) /\ k # current =>
            /\ InPhase(ran[k])'
            /\ k > Len(outcome') + 1 => Untouched(ran[k])'
            /\ \A m : ReportTells(ran[k], m) => ReportTells(ran[k], m)'
  <2>1. \A u \in Unresolved' :
          u \in Unresolved \/ (current \in DOMAIN ran /\ Victim(u.op) = ran[current].victim)
    BY <1>1, <1>5, <1>6, <1>7
  <2> QED
    BY <1>7, <2>1, OthersKept
<1>11. ASSUME Undisturbed(current), NEW c, c.stage \in {"sent", "queued"}
       PROVE  InPhase(j)' /\ StepTells(j, c)'
  BY <1>2, <1>5, <1>6, <1>11, NextPhase
<1>12. PhaseInv'
  <2>1. ASSUME NEW k \in DOMAIN ran', Undisturbed(k)'
        PROVE  InPhase(ran[k])' /\ (k > Len(outcome') + 1 => Untouched(ran[k])')
    <3>1. CASE k = current
      <4>1. InPhase(j)'
        <5>1. \E c : c.stage \in {"sent", "queued"}
          <6>1. [stage |-> "sent"].stage \in {"sent", "queued"}
            OBVIOUS
          <6> QED
            BY <6>1
        <5> QED
          BY <1>8, <1>11, <2>1, <3>1, <5>1
      <4>2. ~(k > Len(outcome') + 1)
        BY <1>7, <3>1
      <4> QED
        BY <1>7, <3>1, <4>1, <4>2
    <3>2. CASE k # current
      BY <1>8, <1>10, <2>1, <3>2
    <3> QED
      BY <3>1, <3>2
  <2> QED
    BY <2>1 DEF PhaseInv
<1>13. RunnerInv'
  <2>1. ASSUME Undisturbed(current), NEW c \in calls', c.id = opId' PROVE StepTells(job, c)'
    <3>1. c.stage \in {"sent", "queued"}
      BY <1>5, <2>1
    <3> QED
      BY <1>7, <1>11, <2>1, <3>1
  <2> QED
    BY <1>7, <1>8, <2>1 DEF RunnerInv
<1>14. ToldInv'
  <2>1. ASSUME NEW k \in DOMAIN outcome', Undisturbed(k)'
        PROVE  ReportTells(ran[k], outcome[k])'
    <3>1. k \in DOMAIN ran /\ k # current /\ k \in DOMAIN outcome
      BY <1>1, <1>3, <2>1, RanTypes DEF ReportInv, ToldInv
    <3>2. Undisturbed(k) /\ ReportTells(ran[k], outcome[k])
      BY <1>8, <2>1, <3>1 DEF ReportInv, ToldInv
    <3>3. PICK m : m = outcome[k] /\ m = outcome'[k]
      BY <1>3
    <3>4. ReportTells(ran[k], m)
      BY <3>2, <3>3
    <3>5. ReportTells(ran[k], m)'
      BY <1>10, <3>1, <3>2, <3>4
    <3> QED
      BY <3>3, <3>5
  <2>2. Len(outcome') <= Len(ran')
    BY <1>3 DEF ReportInv, ToldInv
  <2> QED
    BY <2>1, <2>2 DEF ToldInv
<1> QED
  BY <1>9, <1>10, <1>12, <1>13, <1>14 DEF ReportInv

\* An answer, or the end of the wait for one, reaches the runner.
LEMMA CompletionReports ==
  ASSUME KeepInv, KeepInv', ReportInv, NEW c \in calls, Deliver(c) \/ Timeout(c)
  PROVE  ReportInv'
<1> DEFINE rest == calls \ {c}
<1>1. UNCHANGED <<fs, ran, before, stale, connected>> /\ unknown \subseteq unknown'
  BY DEF Deliver, Timeout
<1>2. Handover(rest)
  <2>1. CASE Deliver(c)
    <3>1. orphans' = orphans \cup Orphans({c})
      BY <2>1 DEF Deliver, Orphans
    <3> QED
      BY <3>1, CompletionHandover
  <2>2. CASE Timeout(c)
    BY <2>2, CompletionHandover DEF Timeout
  <2> QED
    BY <2>1, <2>2
<1>3. \/ c.stage = "applied" /\ OnOpSucceeded(c.id, rest)
      \/ c.stage \in {"refused", "queued"} /\ OnOpFailed(c.id, rest)
      \/ c.stage # "queued" /\ OnOpFailed(c.id, rest) /\ Victim(c.op) \in unknown'
  BY DEF Deliver, Timeout, Unanswered
<1> HIDE DEF rest
<1>4. CASE ~isRunning \/ c.id # opId
  <2>1. NotMine(rest)
    BY <1>3, <1>4 DEF OnOpSucceeded, OnOpFailed
  <2> QED
    BY <1>1, <1>2, <2>1, NotMineReports
<1>5. CASE isRunning /\ c.id = opId
  <2>1. \A d \in rest : d.stage = "queued"
    BY <1>5 DEF rest, ReportInv, CallInv, KeepInv, IdInv
  <2>2. PICK j \in Job : j = job
    BY <1>5, CurrentJob, RanTypes
  <2>3. Undisturbed(current) => StepTells(j, c) /\ InPhase(j)
    BY <1>5, <2>2, CurrentJob DEF ReportInv, RunnerInv, PhaseInv
  <2>4. c.stage # "queued" => Victim(c.op) = j.victim
    BY <1>5, <2>2, RequestAtServer
  <2>5. CASE c.stage = "applied" /\ OnOpSucceeded(c.id, rest)
    <3>1. CASE step = "Rename"
      <4>1. NextStep("Link", rest)
        BY <1>5, <2>5, <3>1 DEF OnOpSucceeded
      <4>2. Undisturbed(current) => Ready("Link", job)
        BY <2>2, <2>3, <2>5, <3>1 DEF StepTells, Ready
      <4> QED
        BY <1>1, <1>2, <1>5, <2>1, <4>1, <4>2, NextStepReports
    <3>2. CASE step = "Link"
      <4>1. NextStep("Unlink", rest)
        BY <1>5, <2>5, <3>2 DEF OnOpSucceeded
      <4>2. Undisturbed(current) => Ready("Unlink", job)
        BY <2>2, <2>3, <2>5, <3>2 DEF StepTells, Ready
      <4> QED
        BY <1>1, <1>2, <1>5, <2>1, <4>1, <4>2, NextStepReports
    <3>3. CASE step = "Unlink"
      <4>1. FinishJob("replaced", rest)
        BY <1>5, <2>5, <3>3 DEF OnOpSucceeded
      <4>2. Undisturbed(current) => ReportTells(job, "replaced")
        BY <2>2, <2>3, <2>5, <3>3 DEF StepTells, ReportTells
      <4> QED
        BY <1>1, <1>2, <1>5, <2>1, <4>1, <4>2, FinishReports
    <3>4. CASE step = "UndoRename"
      <4>1. FinishJob("restored", rest)
        BY <1>5, <2>5, <3>4 DEF OnOpSucceeded
      <4>2. Undisturbed(current) => ReportTells(job, "restored")
        BY <2>2, <2>3, <2>5, <3>4 DEF StepTells, ReportTells
      <4> QED
        BY <1>1, <1>2, <1>5, <2>1, <4>1, <4>2, FinishReports
    <3> QED
      BY <1>5, <2>5, <3>1, <3>2, <3>3, <3>4 DEF OnOpSucceeded
  <2>6. CASE OnOpFailed(c.id, rest) /\ (c.stage \in {"refused", "queued"} \/ j.victim \in unknown')
    <3>1. CASE step = "Rename"
      <4>1. FinishJob("renameFailed", rest)
        BY <1>5, <2>6, <3>1 DEF OnOpFailed
      <4>2. Undisturbed(current) => \/ ReportTells(job, "renameFailed")
                                    \/ job.victim \in unknown'
        BY <1>1, <2>2, <2>3, <2>6, <3>1 DEF StepTells, ReportTells
      <4> QED
        BY <1>1, <1>2, <1>5, <2>1, <4>1, <4>2, FinishReports
    <3>2. CASE step = "Link"
      <4>1. NextStep("UndoRename", rest)
        BY <1>5, <2>6, <3>2 DEF OnOpFailed
      <4>2. Undisturbed(current) => Ready("UndoRename", job)
        BY <2>2, <2>3, <2>6, <3>2 DEF StepTells, Ready
      <4> QED
        BY <1>1, <1>2, <1>5, <2>1, <4>1, <4>2, NextStepReports
    <3>3. CASE step \in {"Unlink", "UndoRename"}
      <4>1. \/ FinishJob("tmpNotRemoved", rest)
            \/ FinishJob("restoreFailed", rest)
        BY <1>5, <2>6, <3>3 DEF OnOpFailed
      <4>2. ReportTells(job, "tmpNotRemoved") /\ ReportTells(job, "restoreFailed")
        BY DEF ReportTells
      <4> QED
        BY <1>1, <1>2, <1>5, <2>1, <4>1, <4>2, FinishReports
    <3> QED
      BY <1>5, <2>6, <3>1, <3>2, <3>3 DEF OnOpFailed
  <2> QED
    BY <1>3, <2>4, <2>5, <2>6
<1> QED
  BY <1>4, <1>5

\* A run starts: what was open until now is about the victims in stale.
LEMMA StartReports ==
  ASSUME KeepInv, ReportInv, NEW js \in JobLists, Start(js)
  PROVE  ReportInv'
<1>1. /\ ~isRunning /\ ConflictFree(js) /\ UNCHANGED <<fs, connected, orphans>>
      /\ ran' = js /\ outcome' = <<>> /\ before' = fs /\ unknown' = {}
      /\ stale' = {Victim(o.op) : o \in orphans}
      /\ StartJob(js, 1, calls)
  BY DEF Start
<1>2. js \in Seq(Job) /\ 1 \in DOMAIN js /\ js # <<>>
      /\ \A k \in DOMAIN js : k \in Nat /\ js[k] \in Job
  <2>1. PICK n \in 1..MaxJobs : js \in [1..n -> Job]
    BY DEF JobLists
  <2>2. n \in Nat /\ 1 \in 1..n /\ \A k \in 1..n : k \in Nat
    BY <2>1
  <2>3. js \in Seq(Job)
    BY <2>1, <2>2
  <2>4. DOMAIN js = 1..n
    BY <2>1
  <2> QED
    BY <2>1, <2>2, <2>3, <2>4, EmptySeq
<1>3. Issue("Rename", js[1], calls) /\ jobs' = js /\ current' = 1
  BY <1>1, <1>2 DEF StartJob
<1>4. \A c \in calls : c.stage = "queued"
  BY <1>1 DEF ReportInv, CallInv
<1>5. Unresolved = orphans
  BY <1>4 DEF Unresolved, Orphans
<1>6. Handover(calls)
  BY <1>1 DEF Handover, Unresolved, KeepInv, IdInv
<1>7. PICK j \in Job : j = js[1]
  BY <1>2
<1> DEFINE new == [id |-> nextOpId, op |-> StepOp("Rename", j)]
<1>8. "Rename" \in Step
  BY DEF Step
<1>9. PICK g \in {"sent", "queued"} :
           /\ calls' = calls \cup {[id |-> nextOpId, op |-> StepOp("Rename", j), stage |-> g]}
           /\ g = "sent" => connected
           /\ g = "queued" => Unresolved' = Unresolved
           /\ \A u \in Unresolved' : u \in Unresolved \/ u = new
           /\ \A c \in calls : c.id # nextOpId
           /\ opId' = nextOpId /\ step' = "Rename"
  BY <1>3, <1>6, <1>7, <1>8, Issued
<1>10. new.op = StepOp("Rename", j) /\ Victim(new.op) = j.victim
  BY <1>8, StepOpFacts
<1> HIDE DEF new
<1>11. /\ isRunning' /\ j = job' /\ j = ran'[1] /\ current' = Len(outcome') + 1
       /\ Len(outcome') = 0
  BY <1>1, <1>2, <1>3, <1>7 DEF isRunning, job
<1>12. CallInv'
  BY <1>1, <1>3, <1>4, <1>9, <1>11 DEF CallInv
<1>13. ASSUME NEW k \in DOMAIN js, Undisturbed(k)'
       PROVE  /\ HoldsOriginal(js[k].primary)' /\ HoldsOriginal(js[k].victim)'
              /\ before'[Tmp(js[k].victim)] = fs'[Tmp(js[k].victim)]
              /\ \A u \in Unresolved' :
                   Victim(u.op) = js[k].victim => k = 1 /\ u = new
  <2>1. \A i \in DOMAIN js : js[i].victim = js[k].victim => i = k
    BY <1>1 DEF ConflictFree
  <2>2. js[k].victim \notin {Victim(o.op) : o \in orphans}
    BY <1>1, <1>13 DEF Undisturbed
  <2> QED
    BY <1>1, <1>2, <1>5, <1>7, <1>9, <1>10, <2>1, <2>2 DEF HoldsOriginal
<1>14. OpenInv'
  <2>1. \A u \in Unresolved' :
          \/ Victim(u.op) \in stale'
          \/ \E k \in DOMAIN ran' : k <= Len(outcome') + 1 /\ ran'[k].victim = Victim(u.op)
    BY <1>1, <1>2, <1>5, <1>9, <1>10, <1>11
  <2> QED
    BY <1>1, <1>13, <2>1 DEF OpenInv
<1>15. ASSUME NEW k \in DOMAIN js, Undisturbed(k)' PROVE Untouched(js[k])'
  <2>1. \A u \in Open(js[k].victim)' : k = 1 /\ u = new
    BY <1>13, <1>15 DEF Open
  <2>2. OpenOnly({"Rename"}, js[k])' /\ Alone(js[k].victim)'
    BY <1>7, <1>10, <2>1 DEF OpenOnly, Alone
  <2> QED
    BY <1>13, <1>15, <2>2 DEF Untouched
<1>16. PhaseInv'
  BY <1>1, <1>15 DEF PhaseInv, InPhase
<1>17. RunnerInv'
  <2>1. ASSUME Undisturbed(1)', NEW c \in calls', c.id = opId' PROVE StepTells(j, c)'
    <3>1. c.stage = g /\ step' = "Rename" /\ Untouched(j)'
      BY <1>1, <1>2, <1>7, <1>9, <1>15, <2>1
    <3>2. OpenOnly({"Rename"}, j)'
      BY <3>1 DEF Untouched
    <3>3. g = "queued" => Open(j.victim)' = {}
      BY <1>1, <1>2, <1>5, <1>7, <1>9, <2>1 DEF Open, Undisturbed
    <3> QED
      BY <3>1, <3>2, <3>3 DEF StepTells
  <2> QED
    BY <1>3, <1>11, <2>1 DEF RunnerInv
<1>18. ToldInv'
  BY <1>1, <1>2, <1>11 DEF ToldInv
<1> QED
  BY <1>12, <1>14, <1>16, <1>17, <1>18 DEF ReportInv

-----------------------------------------------------------------------------
\* Every step of the program keeps ReportInv.
LEMMA ReportStep == KeepInv /\ KeepInv' /\ ReportInv /\ [Next]_vars => ReportInv'
<1> SUFFICES ASSUME KeepInv, KeepInv', ReportInv, [Next]_vars PROVE ReportInv'
  OBVIOUS
<1>1. ASSUME NEW js \in JobLists, Start(js) PROVE ReportInv'
  BY <1>1, StartReports
<1>2. ASSUME NEW c \in calls, ServerApplies(c) PROVE ReportInv'
  BY <1>2, ServerAppliesReports
<1>3. ASSUME NEW c \in calls, ServerRefuses(c) PROVE ReportInv'
  BY <1>3, ServerRefusesReports
<1>4. ASSUME NEW c \in calls, Deliver(c) \/ Timeout(c) PROVE ReportInv'
  BY <1>4, CompletionReports
<1>5. CASE Disconnect
  BY <1>5, DisconnectReports
<1>6. CASE DestroyPanel \/ Crash \/ Reconnect
  BY <1>6, LifeReports
<1>7. ASSUME NEW o \in orphans, OrphanApplies(o) PROVE ReportInv'
  BY <1>7, OrphanAppliesReports
<1>8. ASSUME NEW o \in orphans, OrphanDies(o) PROVE ReportInv'
  BY <1>8, OrphanDiesReports
<1>9. ASSUME NEW f \in Files, NEW i \in Inodes, OtherClientCreates(f, i) PROVE ReportInv'
  BY <1>9, OtherClientReports
<1>10. CASE UNCHANGED vars
  BY <1>10, StutterReports
<1> QED
  BY <1>1, <1>2, <1>3, <1>4, <1>5, <1>6, <1>7, <1>8, <1>9, <1>10 DEF Next

\* What the runner reports of a job is true of the share, whatever is late,
\* lost or repeated (LinkRunner.cpp: onOpSucceeded, onOpFailed, finishJob).
THEOREM ReportsTrue == Spec => []ReportInv
<1>1. Init => ReportInv
  <2> SUFFICES ASSUME Init PROVE ReportInv
    OBVIOUS
  <2>1. ~isRunning /\ DOMAIN ran = {} /\ DOMAIN outcome = {} /\ Len(outcome) = 0
        /\ Len(ran) = 0 /\ Unresolved = {}
    BY DEF Init, isRunning, Unresolved, Orphans
  <2> QED
    BY <2>1 DEF Init, ReportInv, CallInv, ConflictFree, OpenInv, PhaseInv, RunnerInv, ToldInv
<1> QED
  BY <1>1, KeepInvariance, ReportStep, PTL DEF Spec

\* "replaced with hard link" is true: the name holds the primary's file and
\* nothing is left aside.
THEOREM ReplacedTrue == Spec => []ReplacedIsLinked
<1>1. KeepInv /\ ReportInv => ReplacedIsLinked
  BY DEF ReportInv, ToldInv, ReportTells, Linked, ReplacedIsLinked
<1> QED
  BY <1>1, KeepInvariance, ReportsTrue, PTL

\* "(original restored)" is true: the original is back and stays.
THEOREM RestoredTrue == Spec => []RestoredIsOriginal
<1>1. KeepInv /\ ReportInv => RestoredIsOriginal
  BY DEF ReportInv, ToldInv, ReportTells, Restored, RestoredIsOriginal
<1> QED
  BY <1>1, KeepInvariance, ReportsTrue, PTL

\* A rename the server answered with a failure has left its victim alone.
THEOREM RenameRefusedTrue == Spec => []RenameRefusedIsUntouched
<1>1. KeepInv /\ ReportInv => RenameRefusedIsUntouched
  BY DEF ReportInv, ToldInv, ReportTells, Untouched, RenameRefusedIsUntouched
<1> QED
  BY <1>1, KeepInvariance, ReportsTrue, PTL

\* A victim's original is under one of its two names until the link is in
\* place (LinkRunner.h), at every moment of a run and after a crash.
THEOREM OriginalRecoverable == Spec => []VictimRecoverable
<1>1. KeepInv /\ ReportInv => VictimRecoverable
  <2> SUFFICES ASSUME KeepInv, ReportInv, NEW k \in DOMAIN ran, Undisturbed(k),
                      before[Name(ran[k].victim)] # NoFile
               PROVE  \/ before[Name(ran[k].victim)]
                            \in {fs[Name(ran[k].victim)], fs[Tmp(ran[k].victim)]}
                      \/ IsLinked(ran[k])
    BY DEF VictimRecoverable
  <2>1. InPhase(ran[k])
    BY DEF ReportInv, PhaseInv
  <2> QED
    BY <2>1 DEF InPhase, Untouched, MovedAside, Linked, Restored, HoldsOriginal
<1> QED
  BY <1>1, KeepInvariance, ReportsTrue, PTL
=============================================================================
