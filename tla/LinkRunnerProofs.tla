-------------------------- MODULE LinkRunnerProofs --------------------------
(***************************************************************************)
(* Proofs about LinkRunner, for every set of files and contents, any       *)
(* number of jobs and runs, and any initial share:                         *)
(*   - its variables keep their types;                                     *)
(*   - the invariant KeepInv is inductive;                                    *)
(*   - no step loses a victim's data (VictimDataKept);                     *)
(*   - the runner implements LinkRun.                                      *)
(***************************************************************************)
EXTENDS LinkRunner, SequenceTheorems, TLAPS

USE NoFileAssumption, LinkRunnerAssumption

\* What the handlers of a completion assign.
HandlerTypeOK ==
  /\ jobs \in Seq(Job) /\ current \in Nat /\ step \in Step
  /\ isRunning => current \in DOMAIN jobs
  /\ opId \in Nat /\ succeeded \in Nat /\ failed \in Nat
  /\ nextOpId \in Nat
  /\ calls \subseteq Call
  /\ outcome \in Seq(Message)

\* The operation of a step is a rename, a link or a removal on the share.
LEMMA StepOpType ==
  ASSUME NEW s \in Step, NEW j \in Job
  PROVE  StepOp(s, j) \in Op
<1>1. j.victim \in Files /\ j.primary \in Files
  BY DEF Job
<1>2. Name(j.victim) \in Path /\ Tmp(j.victim) \in Path /\ Name(j.primary) \in Path
  BY <1>1 DEF Name, Tmp, Path
<1> QED
  BY <1>2 DEF StepOp, Step, Op, RenameOp, LinkOp, RemoveOp

\* A submitted request has a fresh id and is waiting or already failed.
LEMMA SubmitType ==
  ASSUME TypeOK, NEW op \in Op, NEW rest \in SUBSET Call, Submit(op, rest)
  PROVE  /\ opId' \in Nat /\ nextOpId' \in Nat
         /\ calls' \subseteq Call
<1>1. opId' = nextOpId /\ nextOpId' = nextOpId + 1 /\ nextOpId \in Nat
  BY DEF Submit, TypeOK
<1>2. PICK s \in Stage : calls' = rest \cup {[id |-> nextOpId, op |-> op, stage |-> s]}
  BY DEF Submit, Stage
<1>3. [id |-> nextOpId, op |-> op, stage |-> s] \in Call
  BY <1>1 DEF Call
<1> QED
  BY <1>1, <1>2, <1>3

\* The start of a job, or the end of the run, is well typed.
LEMMA StartJobType ==
  ASSUME TypeOK, NEW js \in Seq(Job), NEW k \in Nat, NEW rest \in SUBSET Call,
         StartJob(js, k, rest)
  PROVE  /\ jobs' \in Seq(Job) /\ current' \in Nat /\ step' \in Step
         /\ isRunning' => current' \in DOMAIN jobs'
         /\ opId' \in Nat /\ nextOpId' \in Nat
         /\ calls' \subseteq Call
<1>1. CASE k \in DOMAIN js
  <2>1. jobs' = js /\ current' = k /\ step' = "Rename"
        /\ Submit(StepOp("Rename", js[k]), rest)
    BY <1>1 DEF StartJob, Issue
  <2>2. js[k] \in Job
    BY <1>1, ElementOfSeq, LenProperties
  <2>3. StepOp("Rename", js[k]) \in Op
    BY <2>2, StepOpType DEF Step
  <2> QED
    BY <1>1, <2>1, <2>3, SubmitType DEF Step, isRunning
<1>2. CASE k \notin DOMAIN js
  <2>1. jobs' = <<>> /\ current' = 0 /\ calls' = rest
        /\ UNCHANGED <<step, opId, nextOpId>>
    BY <1>2 DEF StartJob
  <2> QED
    BY <2>1, EmptySeq DEF TypeOK, isRunning
<1> QED
  BY <1>1, <1>2

\* A reported result is well typed, and so is what follows it.
LEMMA FinishJobType ==
  ASSUME TypeOK, NEW m \in Message, NEW rest \in SUBSET Call, FinishJob(m, rest)
  PROVE  HandlerTypeOK'
<1>1. /\ jobs \in Seq(Job) /\ current + 1 \in Nat /\ outcome \in Seq(Message)
      /\ succeeded \in Nat /\ failed \in Nat
  BY DEF TypeOK
<1>2. StartJob(jobs, current + 1, rest) /\ outcome' = Append(outcome, m)
  BY DEF FinishJob
<1>3. succeeded' \in Nat /\ failed' \in Nat
  BY <1>1 DEF FinishJob
<1>4. outcome' \in Seq(Message)
  BY <1>1, <1>2, AppendProperties
<1> QED
  BY <1>1, <1>2, <1>3, <1>4, StartJobType DEF HandlerTypeOK

\* A step inside a job is well typed.
LEMMA NextStepType ==
  ASSUME TypeOK, isRunning, NEW s \in Step, NEW rest \in SUBSET Call,
         NextStep(s, rest)
  PROVE  HandlerTypeOK'
<1>1. job \in Job
  BY ElementOfSeq, LenProperties DEF TypeOK, job
<1>2. step' = s /\ Submit(StepOp(s, job), rest)
      /\ UNCHANGED <<jobs, current, succeeded, failed, outcome>>
  BY DEF NextStep, Issue
<1>3. opId' \in Nat /\ nextOpId' \in Nat /\ calls' \subseteq Call
  BY <1>1, <1>2, StepOpType, SubmitType
<1> QED
  BY <1>2, <1>3 DEF HandlerTypeOK, TypeOK, isRunning

\* Both completion handlers are well typed.
LEMMA HandlersType ==
  ASSUME TypeOK, NEW id \in Nat, NEW rest \in SUBSET Call,
         OnOpSucceeded(id, rest) \/ OnOpFailed(id, rest)
  PROVE  HandlerTypeOK'
<1>1. CASE ~isRunning \/ id # opId
  <2>1. NotMine(rest)
    BY <1>1 DEF OnOpSucceeded, OnOpFailed
  <2> QED
    BY <2>1 DEF NotMine, runner, HandlerTypeOK, TypeOK, isRunning
<1>2. CASE ~(~isRunning \/ id # opId)
  <2>1. \/ \E s \in Step : NextStep(s, rest)
        \/ \E m \in Message : FinishJob(m, rest)
    BY <1>2 DEF OnOpSucceeded, OnOpFailed, Step, Message
  <2> QED
    BY <1>2, <2>1, NextStepType, FinishJobType
<1> QED
  BY <1>1, <1>2

\* Carrying out an applicable operation leaves a well-typed share.
LEMMA AppliedType ==
  ASSUME fs \in [Path -> Entry], NEW op \in Op, Applicable(fs, op)
  PROVE  Applied(fs, op) \in [Path -> Entry]
<1>1. op.from \in Path /\ op.to \in Path /\ op.kind \in {"rename", "link", "remove"}
  BY DEF Op
<1> QED
  BY <1>1 DEF Applied, Entry

\* The victims and orphans taken from a set of calls.
LEMMA AbandonedType ==
  ASSUME NEW cs \in SUBSET Call
  PROVE  /\ Orphans(cs) \subseteq [id : Nat, op : Op]
         /\ Unanswered(cs) \subseteq Files
<1>1. \A c \in cs : c.id \in Nat /\ c.op \in Op
  BY DEF Call
<1>2. \A op \in Op : Victim(op) \in Files
  BY DEF Op, Path, Victim
<1> QED
  BY <1>1, <1>2 DEF Orphans, Unanswered

\* A call whose stage changes is still a call.
LEMMA RestageType ==
  ASSUME NEW c \in Call, NEW s \in Stage
  PROVE  [c EXCEPT !.stage = s] \in Call
BY DEF Call

-----------------------------------------------------------------------------
\* TypeOK holds in every reachable state: in particular a running runner
\* always has a current job.
LEMMA TypeStep == TypeOK /\ [Next]_vars => TypeOK'
<1> SUFFICES ASSUME TypeOK, [Next]_vars PROVE TypeOK'
  OBVIOUS
<1> USE DEF runner, session, history
<1>1. ASSUME NEW js \in JobLists, Start(js) PROVE TypeOK'
  <2>1. js \in Seq(Job)
    <3>1. PICK n \in Nat : js \in [1..n -> Job]
      BY <1>1 DEF JobLists
    <3> QED
      BY <3>1, SeqDef
  <2>2. \A o \in orphans : Victim(o.op) \in Files
    BY DEF TypeOK, Op, Path, Victim
  <2>3. StartJob(js, 1, calls) /\ calls \in SUBSET Call
    BY <1>1 DEF Start, TypeOK
  <2>4. /\ jobs' \in Seq(Job) /\ current' \in Nat /\ step' \in Step
        /\ isRunning' => current' \in DOMAIN jobs'
        /\ opId' \in Nat /\ nextOpId' \in Nat
        /\ calls' \subseteq Call
    BY <2>1, <2>3, StartJobType
  <2>5. outcome' \in Seq(Message)
    BY <1>1, EmptySeq DEF Start
  <2> QED
    BY <1>1, <2>1, <2>2, <2>4, <2>5 DEF Start, TypeOK, isRunning
<1>2. ASSUME NEW c \in calls, ServerApplies(c) PROVE TypeOK'
  <2>1. c \in Call /\ c.op \in Op
    BY DEF TypeOK, Call
  <2>2. fs' \in [Path -> Entry]
    BY <1>2, <2>1, AppliedType DEF ServerApplies, TypeOK
  <2>3. calls' \subseteq Call
    BY <1>2, <2>1, RestageType DEF ServerApplies, TypeOK, Stage
  <2> QED
    BY <1>2, <2>2, <2>3 DEF ServerApplies, TypeOK, isRunning
<1>3. ASSUME NEW c \in calls, ServerRefuses(c) PROVE TypeOK'
  <2>1. calls' \subseteq Call
    BY <1>3, RestageType DEF ServerRefuses, TypeOK, Stage
  <2> QED
    BY <1>3, <2>1 DEF ServerRefuses, TypeOK, isRunning
<1>4. ASSUME NEW c \in calls, Deliver(c) PROVE TypeOK'
  <2>1. c.id \in Nat /\ calls \ {c} \in SUBSET Call
    BY DEF TypeOK, Call
  <2>2. HandlerTypeOK'
    BY <1>4, <2>1, HandlersType DEF Deliver
  <2> QED
    BY <1>4, <2>2 DEF Deliver, TypeOK, HandlerTypeOK, isRunning
<1>5. ASSUME NEW c \in calls, Timeout(c) PROVE TypeOK'
  <2>1. c.id \in Nat /\ calls \ {c} \in SUBSET Call /\ {c} \in SUBSET Call
    BY DEF TypeOK, Call
  <2>2. HandlerTypeOK'
    BY <1>5, <2>1, HandlersType DEF Timeout
  <2>3. Orphans({c}) \subseteq [id : Nat, op : Op] /\ Unanswered({c}) \subseteq Files
    BY <2>1, AbandonedType
  <2> QED
    BY <1>5, <2>2, <2>3 DEF Timeout, TypeOK, HandlerTypeOK, isRunning
<1>6. ASSUME Disconnect PROVE TypeOK'
  <2>1. Orphans(calls) \subseteq [id : Nat, op : Op] /\ Unanswered(calls) \subseteq Files
    BY AbandonedType DEF TypeOK
  <2>2. calls' \subseteq Call
    BY <1>6, RestageType DEF Disconnect, TypeOK, Stage
  <2> QED
    BY <1>6, <2>1, <2>2 DEF Disconnect, TypeOK, isRunning
<1>7. ASSUME DestroyPanel PROVE TypeOK'
  BY <1>7, EmptySeq DEF DestroyPanel, RunnerGone, TypeOK, isRunning
<1>8. ASSUME Crash PROVE TypeOK'
  <2>1. Orphans(calls) \subseteq [id : Nat, op : Op] /\ Unanswered(calls) \subseteq Files
    BY AbandonedType DEF TypeOK
  <2> QED
    BY <1>8, <2>1, EmptySeq DEF Crash, RunnerGone, TypeOK, isRunning
<1>9. ASSUME Reconnect PROVE TypeOK'
  BY <1>9, EmptySeq DEF Reconnect, TypeOK, isRunning, Step
<1>10. ASSUME NEW o \in orphans, OrphanApplies(o) PROVE TypeOK'
  <2>1. o.op \in Op
    BY DEF TypeOK
  <2>2. fs' \in [Path -> Entry]
    BY <1>10, <2>1, AppliedType DEF OrphanApplies, TypeOK
  <2> QED
    BY <1>10, <2>2 DEF OrphanApplies, TypeOK, isRunning
<1>11. ASSUME NEW o \in orphans, OrphanDies(o) PROVE TypeOK'
  BY <1>11 DEF OrphanDies, TypeOK, isRunning
<1>12. ASSUME NEW f \in Files, NEW i \in Inodes, OtherClientCreates(f, i) PROVE TypeOK'
  BY <1>12 DEF OtherClientCreates, TypeOK, isRunning, Entry
<1>13. ASSUME UNCHANGED vars PROVE TypeOK'
  BY <1>13 DEF vars, TypeOK, isRunning
<1> QED
  BY <1>1, <1>2, <1>3, <1>4, <1>5, <1>6, <1>7, <1>8, <1>9, <1>10, <1>11, <1>12, <1>13
     DEF Next

\* TypeOK as an invariant of the specification.
THEOREM TypeCorrect == Spec => []TypeOK
<1>1. Init => TypeOK
  BY EmptySeq DEF Init, TypeOK, isRunning, Step
<1> QED
  BY <1>1, TypeStep, PTL DEF Spec

-----------------------------------------------------------------------------
(***************************************************************************)
(* What carrying out one operation does to the two entries of a file.      *)
(***************************************************************************)

\* The four operations a runner issues, as operations on one victim.
LEMMA StepOpCases ==
  ASSUME NEW op, \E s \in Step, j \in Job : op = StepOp(s, j)
  PROVE  \E v \in Files :
           \/ op = RenameOp(Name(v), Tmp(v))
           \/ \E p \in Files : op = LinkOp(Name(p), Name(v))
           \/ op = RemoveOp(Tmp(v))
           \/ op = RenameOp(Tmp(v), Name(v))
<1>1. PICK s \in Step, j \in Job : op = StepOp(s, j)
  OBVIOUS
<1>2. j.victim \in Files /\ j.primary \in Files
  BY DEF Job
<1> QED
  BY <1>1, <1>2 DEF StepOp, Step

\* Names and aside names are different paths, each determined by its file.
LEMMA PathFacts ==
  /\ \A f \in Files : Name(f) \in Path /\ Tmp(f) \in Path
  /\ \A f, g \in Files : Name(f) # Tmp(g)
  /\ \A f, g \in Files : Name(f) = Name(g) => f = g
  /\ \A f, g \in Files : Tmp(f) = Tmp(g) => f = g
BY DEF Name, Tmp, Path

\* An aside copy stays unless the operation takes it from there; a name
\* whose aside name is taken stays; what leaves a name goes to its aside
\* name; what leaves an aside name goes back or is removed.
LEMMA AppliedEffect ==
  ASSUME fs \in [Path -> Entry], NEW op, NEW f \in Files,
         \E s \in Step, j \in Job : op = StepOp(s, j),
         Applicable(fs, op), fs' = Applied(fs, op)
  PROVE  /\ fs[Tmp(f)] # NoFile /\ op.from # Tmp(f) => fs'[Tmp(f)] = fs[Tmp(f)]
         /\ fs[Tmp(f)] # NoFile /\ fs[Name(f)] # NoFile => fs'[Name(f)] = fs[Name(f)]
         /\ fs[Name(f)] # NoFile /\ fs'[Name(f)] # fs[Name(f)]
              => fs'[Tmp(f)] = fs[Name(f)]
         /\ op.from = Tmp(f) =>
              \/ op.kind = "remove" /\ fs'[Name(f)] = fs[Name(f)]
              \/ op.kind = "rename" /\ fs'[Name(f)] = fs[Tmp(f)]
         /\ op = RenameOp(Name(f), Tmp(f)) =>
              fs[Tmp(f)] = NoFile /\ fs'[Tmp(f)] # NoFile
         /\ \A p \in Files : op = LinkOp(Name(p), Name(f)) => fs'[Name(f)] # NoFile
<1>1. PICK v \in Files :
           \/ op = RenameOp(Name(v), Tmp(v))
           \/ \E p \in Files : op = LinkOp(Name(p), Name(v))
           \/ op = RemoveOp(Tmp(v))
           \/ op = RenameOp(Tmp(v), Name(v))
  BY StepOpCases
<1> USE PathFacts DEF Applicable, Applied
<1>2. CASE op = RenameOp(Name(v), Tmp(v))
  BY <1>2 DEF RenameOp, LinkOp
<1>3. CASE \E p \in Files : op = LinkOp(Name(p), Name(v))
  BY <1>3 DEF RenameOp, LinkOp
<1>4. CASE op = RemoveOp(Tmp(v))
  BY <1>4 DEF RenameOp, LinkOp, RemoveOp
<1>5. CASE op = RenameOp(Tmp(v), Name(v))
  BY <1>5 DEF RenameOp, LinkOp
<1> QED
  BY <1>1, <1>2, <1>3, <1>4, <1>5

(***************************************************************************)
(* An open operation is carried out, by the server in time or late.        *)
(***************************************************************************)
LEMMA ApplyKeeps ==
  ASSUME KeepInv, NEW u \in Unresolved, Applicable(fs, u.op),
         fs' = Applied(fs, u.op), Unresolved' = Unresolved \ {u}
  PROVE  /\ AsideInv'
         /\ \A f \in Files : KeptAcross(f)
         /\ \A v \in Files : SafelyAside(v) => SafelyAside(v)'
         /\ \A v \in Files : fs[Tmp(v)] # NoFile /\ fs[Name(v)] # NoFile
                               => fs'[Name(v)] # NoFile
         /\ \A v \in Files : u.op = RenameOp(Name(v), Tmp(v)) => SafelyAside(v)'
         /\ \A p, v \in Files : u.op = LinkOp(Name(p), Name(v))
                               => fs'[Name(v)] # NoFile
<1>1. fs \in [Path -> Entry] /\ \E s \in Step, j \in Job : u.op = StepOp(s, j)
  BY DEF KeepInv, TypeOK, OpInv
<1>2. \A f \in Files :
        /\ Leaving(f)' = Leaving(f) \ {u}
        /\ u \in Leaving(f) <=> u.op.from = Tmp(f)
  BY DEF Leaving
<1>3. \A f \in Files : u.op.from = Tmp(f) =>
        /\ fs[Tmp(f)] # NoFile
        /\ u.op.kind = "remove" => fs[Name(f)] # NoFile
        /\ Leaving(f)' = {}
  BY <1>2 DEF KeepInv, AsideInv
<1>4. AsideInv'
  <2> SUFFICES ASSUME NEW f \in Files, NEW w \in Leaving(f)'
               PROVE  /\ fs'[Tmp(f)] # NoFile
                      /\ w.op.kind = "remove" => fs'[Name(f)] # NoFile
                      /\ \A x \in Leaving(f)' : x = w
    BY DEF AsideInv
  <2>1. w \in Leaving(f) /\ u.op.from # Tmp(f)
    BY <1>2, <1>3
  <2>2. /\ fs[Tmp(f)] # NoFile
        /\ w.op.kind = "remove" => fs[Name(f)] # NoFile
        /\ \A x \in Leaving(f) : x = w
    BY <2>1 DEF KeepInv, AsideInv
  <2> QED
    BY <1>1, <1>2, <2>1, <2>2, AppliedEffect
<1>5. ASSUME NEW f \in Files PROVE KeptAcross(f)
  <2>1. CASE u.op.from = Tmp(f)
    BY <1>1, <1>3, <2>1, AppliedEffect DEF KeptAcross
  <2>2. CASE u.op.from # Tmp(f)
    BY <1>1, <2>2, AppliedEffect DEF KeptAcross
  <2> QED
    BY <2>1, <2>2
<1>6. ASSUME NEW v \in Files, SafelyAside(v) PROVE SafelyAside(v)'
  <2>1. fs[Tmp(v)] # NoFile /\ Leaving(v) = {}
    BY <1>6 DEF SafelyAside
  <2>2. fs'[Tmp(v)] # NoFile /\ Leaving(v)' = {}
    BY <1>1, <1>2, <2>1, AppliedEffect
  <2> QED
    BY <2>2 DEF SafelyAside
<1>7. ASSUME NEW v \in Files, u.op = RenameOp(Name(v), Tmp(v)) PROVE SafelyAside(v)'
  <2>1. fs[Tmp(v)] = NoFile /\ fs'[Tmp(v)] # NoFile
    BY <1>1, <1>7, AppliedEffect
  <2>2. Leaving(v) = {}
    BY <2>1 DEF KeepInv, AsideInv
  <2> QED
    BY <1>2, <2>1, <2>2 DEF SafelyAside
<1> QED
  BY <1>1, <1>4, <1>5, <1>6, <1>7, AppliedEffect

-----------------------------------------------------------------------------
(***************************************************************************)
(* A completion or a start takes the open calls to rest; what the server   *)
(* may still do stays the same, except for a newly issued operation.       *)
(***************************************************************************)
Handover(rest) ==
  /\ rest \subseteq calls
  /\ Orphans(rest) \cup orphans' = Unresolved
  /\ \A o \in orphans' : o.id < nextOpId
  /\ \A c \in rest, o \in orphans' : c.stage = "sent" => c.id # o.id

\* A call that is answered, timed out included, hands over properly.
LEMMA CompletionHandover ==
  ASSUME KeepInv, NEW c \in calls, orphans' = orphans \cup Orphans({c})
  PROVE  Handover(calls \ {c})
<1>1. Orphans(calls) = Orphans(calls \ {c}) \cup Orphans({c})
  BY DEF Orphans
<1>2. \A o \in Orphans({c}) : o.id = c.id
  BY DEF Orphans
<1> QED
  BY <1>1, <1>2 DEF Handover, Unresolved, KeepInv, IdInv

\* A new call adds at most its own operation.
LEMMA OrphansOfOneMore ==
  ASSUME NEW cs, NEW i, NEW op, NEW g
  PROVE  Orphans(cs \cup {[id |-> i, op |-> op, stage |-> g]})
           \in {Orphans(cs), Orphans(cs) \cup {[id |-> i, op |-> op]}}
<1> DEFINE c == [id |-> i, op |-> op, stage |-> g]
<1>1. CASE g = "sent"
  <2>1. Orphans({c}) = {[id |-> i, op |-> op]}
    <3>1. c.id = i /\ c.op = op /\ c.stage = "sent"
      BY <1>1
    <3> HIDE DEF c
    <3>2. {d \in {c} : d.stage = "sent"} = {c}
      BY <3>1
    <3>3. Orphans({c}) = {[id |-> c.id, op |-> c.op]}
      BY <3>2 DEF Orphans
    <3> QED
      BY <3>1, <3>3
  <2>2. Orphans(cs \cup {c}) = Orphans(cs) \cup Orphans({c})
    BY DEF Orphans
  <2> QED
    BY <2>1, <2>2
<1>2. CASE g # "sent"
  BY <1>2 DEF Orphans
<1> QED
  BY <1>1, <1>2

\* No operation is issued: the end of a run or of the runner, or a completion
\* nobody awaits.
LEMMA QuietKeeps ==
  ASSUME KeepInv, NEW rest, Handover(rest), calls' = rest,
         UNCHANGED <<fs, nextOpId>>, opId' < nextOpId,
         jobs' = <<>> \/ UNCHANGED <<jobs, current, step, opId>>
  PROVE  IdInv' /\ OpInv' /\ AsideInv' /\ StepInv'
<1>1. Unresolved' = Unresolved
  BY DEF Handover, Unresolved, Orphans
<1>2. rest \subseteq calls
  BY DEF Handover
<1>3. IdInv'
  BY <1>2 DEF KeepInv, IdInv, Handover
<1>4. OpInv'
  BY <1>1, <1>2 DEF KeepInv, OpInv, isRunning, job
<1>5. \A f \in Files : Leaving(f)' = Leaving(f)
  BY <1>1 DEF Leaving
<1>6. AsideInv'
  BY <1>5 DEF KeepInv, AsideInv
<1>7. StepInv'
  <2>1. CASE jobs' = <<>>
    BY <2>1 DEF StepInv, isRunning
  <2>2. CASE UNCHANGED <<jobs, current, step, opId>>
    <3> SUFFICES ASSUME isRunning'
                 PROVE  StepInv'
      BY DEF StepInv
    <3>1. isRunning /\ job' = job /\ step' = step /\ opId' = opId
      BY <2>2 DEF isRunning, job
    <3>2. job \in Job /\ job.victim \in Files
      <4>1. job \in Job
        BY <3>1, ElementOfSeq, LenProperties DEF KeepInv, TypeOK, job
      <4> QED
        BY <4>1 DEF Job
    <3>3. SafelyAside(job.victim)' <=> SafelyAside(job.victim)
      BY <1>5, <3>1, <3>2 DEF SafelyAside
    <3> QED
      BY <1>2, <3>1, <3>3 DEF KeepInv, StepInv
  <2> QED
    BY <2>1, <2>2
<1> QED
  BY <1>3, <1>4, <1>6, <1>7

\* An operation is issued for job j, when what it presupposes holds.
LEMMA IssueKeeps ==
  ASSUME KeepInv, NEW rest, Handover(rest), NEW s \in Step, NEW j \in Job,
         Issue(s, j, rest), UNCHANGED fs,
         jobs' # <<>>, jobs'[current'] = j,
         s # "Rename" => SafelyAside(j.victim),
         s = "Unlink" => fs[Name(j.victim)] # NoFile
  PROVE  IdInv' /\ OpInv' /\ AsideInv' /\ StepInv'
<1> DEFINE new == [id |-> nextOpId, op |-> StepOp(s, j)]
<1>1. PICK g \in {"sent", "queued"} :
        calls' = rest \cup {[id |-> nextOpId, op |-> StepOp(s, j), stage |-> g]}
  BY DEF Issue, Submit
<1>2. opId' = nextOpId /\ nextOpId' = nextOpId + 1 /\ step' = s /\ nextOpId \in Nat
  BY DEF Issue, Submit, KeepInv, TypeOK
<1>3. rest \subseteq calls /\ \A c \in rest : c.id < nextOpId /\ c.id \in Nat
  BY DEF Handover, KeepInv, IdInv, TypeOK, Call
<1>4. \A o \in orphans' : o.id < nextOpId /\ o.id \in Nat
  <2>1. orphans' \subseteq Unresolved
    BY DEF Handover
  <2>2. \A o \in Unresolved : o.id \in Nat
    BY DEF Unresolved, Orphans, KeepInv, TypeOK, Call
  <2> QED
    BY <2>1, <2>2 DEF Handover
<1>5. Unresolved' \in {Unresolved, Unresolved \cup {new}}
  <2>1. Unresolved' = Orphans(calls') \cup orphans'
    BY DEF Unresolved, Orphans
  <2>2. Orphans(calls') \in {Orphans(rest), Orphans(rest) \cup {new}}
    BY <1>1, OrphansOfOneMore
  <2> QED
    BY <2>1, <2>2 DEF Handover
<1>6. IdInv'
  <2>1. opId' < nextOpId'
    BY <1>2
  <2>2. \A c \in calls' : c.id < nextOpId'
    BY <1>1, <1>2, <1>3
  <2>3. \A o \in orphans' : o.id < nextOpId'
    BY <1>2, <1>4
  <2>4. \A c, d \in calls' : c.id = d.id => c = d
    BY <1>1, <1>2, <1>3 DEF KeepInv, IdInv
  <2>5. \A c \in calls', o \in orphans' : c.stage = "sent" => c.id # o.id
    BY <1>1, <1>2, <1>4 DEF Handover
  <2> QED
    BY <2>1, <2>2, <2>3, <2>4, <2>5 DEF IdInv
<1>7. job' = j /\ isRunning'
  BY DEF job, isRunning
<1>8. OpInv'
  <2>1. \A u \in Unresolved' : \E t \in Step, k \in Job : u.op = StepOp(t, k)
    BY <1>5 DEF KeepInv, OpInv
  <2>2. \A c \in calls' : c.id = opId' => c.op = StepOp(step', job')
    BY <1>1, <1>2, <1>3, <1>7
  <2> QED
    BY <2>1, <2>2 DEF OpInv
<1>9. j.victim \in Files /\ j.primary \in Files
  BY DEF Job
<1>10. AsideInv'
  <2> SUFFICES ASSUME NEW f \in Files, NEW u \in Leaving(f)'
               PROVE  /\ fs[Tmp(f)] # NoFile
                      /\ u.op.kind = "remove" => fs[Name(f)] # NoFile
                      /\ \A w \in Leaving(f)' : w = u
    BY DEF AsideInv
  <2>1. CASE Leaving(f)' = Leaving(f)
    BY <2>1 DEF KeepInv, AsideInv
  <2>2. CASE Leaving(f)' # Leaving(f)
    <3>1. new.op.from = Tmp(f) /\ Leaving(f)' = Leaving(f) \cup {new}
      BY <1>5, <2>2 DEF Leaving
    <3>2. f = j.victim /\ s # "Rename" /\ (new.op.kind = "remove" => s = "Unlink")
      BY <1>9, <3>1, PathFacts DEF StepOp, Step, RenameOp, LinkOp, RemoveOp
    <3>3. fs[Tmp(f)] # NoFile /\ Leaving(f) = {}
      BY <3>2 DEF SafelyAside
    <3> QED
      BY <3>1, <3>2, <3>3
  <2> QED
    BY <2>1, <2>2
<1>11. StepInv'
  <2>1. \A c \in calls' : ~(c.id = opId' /\ c.stage = "applied")
    BY <1>1, <1>2, <1>3
  <2>2. step' = "Link" => SafelyAside(j.victim)'
    <3> SUFFICES ASSUME s = "Link" PROVE SafelyAside(j.victim)'
      BY <1>2
    <3>1. fs'[Tmp(j.victim)] # NoFile /\ Leaving(j.victim) = {}
      BY DEF SafelyAside
    <3>2. new.op.from # Tmp(j.victim)
      BY <1>9, PathFacts DEF StepOp, LinkOp
    <3>3. Leaving(j.victim)' = {}
      BY <1>5, <3>1, <3>2 DEF Leaving
    <3> QED
      BY <3>1, <3>3 DEF SafelyAside
  <2> QED
    BY <1>7, <2>1, <2>2 DEF StepInv
<1> QED
  BY <1>6, <1>8, <1>10, <1>11

\* The start of a job, or the end of the run.
LEMMA StartJobKeeps ==
  ASSUME KeepInv, NEW js \in Seq(Job), NEW k \in Nat, NEW rest, Handover(rest),
         StartJob(js, k, rest), UNCHANGED fs
  PROVE  IdInv' /\ OpInv' /\ AsideInv' /\ StepInv'
<1>1. CASE k \in DOMAIN js
  <2>1. js[k] \in Job /\ js # <<>>
    BY <1>1, ElementOfSeq, LenProperties, EmptySeq
  <2>2. jobs' = js /\ current' = k /\ Issue("Rename", js[k], rest)
    BY <1>1 DEF StartJob
  <2> QED
    BY <2>1, <2>2, IssueKeeps DEF Step
<1>2. CASE k \notin DOMAIN js
  <2>1. jobs' = <<>> /\ calls' = rest /\ UNCHANGED <<opId, nextOpId>>
    BY <1>2 DEF StartJob
  <2> QED
    BY <2>1, QuietKeeps DEF KeepInv, IdInv
<1> QED
  BY <1>1, <1>2

\* Both completion handlers keep the invariant.
LEMMA HandlersKeep ==
  ASSUME KeepInv, NEW c \in calls, UNCHANGED fs,
         orphans' = orphans \cup Orphans({c}),
         \/ c.stage = "applied" /\ OnOpSucceeded(c.id, calls \ {c})
         \/ OnOpFailed(c.id, calls \ {c})
  PROVE  IdInv' /\ OpInv' /\ AsideInv' /\ StepInv'
<1> DEFINE rest == calls \ {c}
<1>1. Handover(rest)
  BY CompletionHandover
<1>2. CASE ~isRunning \/ c.id # opId
  <2>1. NotMine(rest)
    BY <1>2 DEF OnOpSucceeded, OnOpFailed
  <2> QED
    BY <1>1, <2>1, QuietKeeps DEF NotMine, runner, KeepInv, IdInv
<1>3. CASE ~(~isRunning \/ c.id # opId)
  <2>1. isRunning /\ c.id = opId
    BY <1>3
  <2>2. job \in Job /\ jobs \in Seq(Job) /\ current + 1 \in Nat
    BY <2>1, ElementOfSeq, LenProperties DEF KeepInv, TypeOK, job
  <2>3. ASSUME NEW m, FinishJob(m, rest)
        PROVE  IdInv' /\ OpInv' /\ AsideInv' /\ StepInv'
    BY <1>1, <2>2, <2>3, StartJobKeeps DEF FinishJob
  <2>4. ASSUME NEW s \in Step, NextStep(s, rest),
               s # "Rename" => SafelyAside(job.victim),
               s = "Unlink" => fs[Name(job.victim)] # NoFile
        PROVE  IdInv' /\ OpInv' /\ AsideInv' /\ StepInv'
    <3>1. Issue(s, job, rest) /\ jobs' = jobs /\ current' = current
      BY <2>4 DEF NextStep
    <3> QED
      BY <1>1, <2>1, <2>2, <2>4, <3>1, IssueKeeps DEF isRunning, job
  <2>5. CASE c.stage = "applied" /\ OnOpSucceeded(c.id, rest)
    <3>1. CASE step = "Rename"
      <4>1. SafelyAside(job.victim)
        BY <2>1, <2>5, <3>1 DEF KeepInv, StepInv
      <4>2. NextStep("Link", rest)
        BY <2>1, <2>5, <3>1 DEF OnOpSucceeded
      <4> QED
        BY <2>4, <4>1, <4>2 DEF Step
    <3>2. CASE step = "Link"
      <4>1. SafelyAside(job.victim) /\ fs[Name(job.victim)] # NoFile
        BY <2>1, <2>5, <3>2 DEF KeepInv, StepInv
      <4>2. NextStep("Unlink", rest)
        BY <2>1, <2>5, <3>2 DEF OnOpSucceeded
      <4> QED
        BY <2>4, <4>1, <4>2 DEF Step
    <3>3. CASE step \in {"Unlink", "UndoRename"}
      BY <2>1, <2>3, <2>5, <3>3 DEF OnOpSucceeded
    <3> QED
      BY <3>1, <3>2, <3>3 DEF KeepInv, TypeOK, Step
  <2>6. CASE OnOpFailed(c.id, rest)
    <3>1. CASE step = "Link"
      <4>1. SafelyAside(job.victim)
        BY <2>1, <3>1 DEF KeepInv, StepInv
      <4>2. NextStep("UndoRename", rest)
        BY <2>1, <2>6, <3>1 DEF OnOpFailed
      <4> QED
        BY <2>4, <4>1, <4>2 DEF Step
    <3>2. CASE step # "Link"
      BY <2>1, <2>3, <2>6, <3>2 DEF OnOpFailed
    <3> QED
      BY <3>1, <3>2
  <2> QED
    BY <2>5, <2>6
<1> QED
  BY <1>2, <1>3

-----------------------------------------------------------------------------
\* The operation a call stands for stays open until the server decides it.
LEMMA RestageUnresolved ==
  ASSUME KeepInv, NEW c \in calls, c.stage = "sent", NEW g \in {"applied", "refused"},
         calls' = (calls \ {c}) \cup {[c EXCEPT !.stage = g]}, UNCHANGED orphans
  PROVE  /\ [id |-> c.id, op |-> c.op] \in Unresolved
         /\ Unresolved' = Unresolved \ {[id |-> c.id, op |-> c.op]}
<1> DEFINE u == [id |-> c.id, op |-> c.op]
<1>1. c \in Call
  BY DEF KeepInv, TypeOK
<1>2. Unresolved' = Orphans(calls \ {c}) \cup orphans
  BY <1>1 DEF Unresolved, Orphans, Call
<1>3. u \in Orphans(calls)
  BY DEF Orphans
<1>4. Orphans(calls \ {c}) = Orphans(calls) \ {u}
  BY DEF Orphans, KeepInv, IdInv
<1>5. u \notin orphans
  BY DEF KeepInv, IdInv
<1> QED
  BY <1>2, <1>3, <1>4, <1>5 DEF Unresolved

\* The server carries out a request the client still waits for.
LEMMA ServerAppliesKeeps ==
  ASSUME KeepInv, NEW c \in calls, ServerApplies(c)
  PROVE  IdInv' /\ OpInv' /\ AsideInv' /\ StepInv' /\ \A f \in Files : KeptAcross(f)
<1> DEFINE u == [id |-> c.id, op |-> c.op]
           d == [c EXCEPT !.stage = "applied"]
<1>1. /\ c.stage = "sent" /\ Applicable(fs, u.op) /\ fs' = Applied(fs, u.op)
      /\ calls' = (calls \ {c}) \cup {d}
      /\ UNCHANGED <<jobs, current, step, opId, nextOpId, orphans>>
  BY DEF ServerApplies, runner
<1>2. u \in Unresolved /\ Unresolved' = Unresolved \ {u}
  BY <1>1, RestageUnresolved
<1>3. d.id = c.id /\ d.op = c.op /\ d.stage = "applied"
  BY DEF KeepInv, TypeOK, Call
<1> HIDE DEF u, d
<1>4. AsideInv' /\ \A f \in Files : KeptAcross(f)
  BY <1>1, <1>2, ApplyKeeps
<1>5. IdInv'
  BY <1>1, <1>3 DEF KeepInv, IdInv
<1>6. isRunning' = isRunning /\ job' = job
  BY <1>1 DEF isRunning, job
<1>7. OpInv'
  BY <1>1, <1>2, <1>3, <1>6 DEF KeepInv, OpInv
<1>8. StepInv'
  <2> SUFFICES ASSUME isRunning PROVE StepInv'
    BY <1>6 DEF StepInv
  <2>1. job \in Job
    BY ElementOfSeq, LenProperties DEF KeepInv, TypeOK, job
  <2>2. job.victim \in Files /\ job.primary \in Files
    BY <2>1 DEF Job
  <2>3. PICK v \in Files, p \in Files : v = job.victim /\ p = job.primary
    BY <2>2
  <2>4. SafelyAside(v) => SafelyAside(v)'
    BY <1>1, <1>2, ApplyKeeps
  <2>5. step = "Link" => SafelyAside(v)'
    BY <2>3, <2>4 DEF KeepInv, StepInv
  <2>6. ASSUME NEW e \in calls', e.id = opId, e.stage = "applied"
        PROVE  /\ step = "Rename" => SafelyAside(v)'
               /\ step = "Link" => fs'[Name(v)] # NoFile
    <3>1. CASE e = d
      <4>1. u.op = StepOp(step, job)
        BY <1>3, <2>6, <3>1 DEF KeepInv, OpInv, u
      <4>2. /\ step = "Rename" => u.op = RenameOp(Name(v), Tmp(v))
            /\ step = "Link" => u.op = LinkOp(Name(p), Name(v))
        BY <2>3, <4>1 DEF StepOp
      <4> QED
        BY <1>1, <1>2, <4>2, ApplyKeeps
    <3>2. CASE e \in calls
      <4>1. /\ step = "Rename" => SafelyAside(v)
            /\ step = "Link" => fs[Name(v)] # NoFile /\ fs[Tmp(v)] # NoFile
        BY <2>3, <2>6, <3>2 DEF KeepInv, StepInv, SafelyAside
      <4> QED
        BY <1>1, <1>2, <2>4, <4>1, ApplyKeeps
    <3> QED
      BY <1>1, <3>1, <3>2
  <2>7. v = job.victim' /\ step' = step /\ opId' = opId
    BY <1>1, <1>6, <2>3
  <2> QED
    BY <2>5, <2>6, <2>7 DEF StepInv, SafelyAside
<1> QED
  BY <1>4, <1>5, <1>7, <1>8

\* The server carries out a request the client has given up on.
LEMMA OrphanAppliesKeeps ==
  ASSUME KeepInv, NEW o \in orphans, OrphanApplies(o)
  PROVE  IdInv' /\ OpInv' /\ AsideInv' /\ StepInv' /\ \A f \in Files : KeptAcross(f)
<1>1. /\ Applicable(fs, o.op) /\ fs' = Applied(fs, o.op)
      /\ orphans' = orphans \ {o}
      /\ UNCHANGED <<jobs, current, step, opId, nextOpId, calls>>
  BY DEF OrphanApplies, runner, session
<1>2. o \in Unresolved /\ Unresolved' = Unresolved \ {o}
  <2>1. o \notin Orphans(calls)
    BY DEF Orphans, KeepInv, IdInv
  <2> QED
    BY <1>1, <2>1 DEF Unresolved, Orphans
<1>3. AsideInv' /\ \A f \in Files : KeptAcross(f)
  BY <1>1, <1>2, ApplyKeeps
<1>4. IdInv'
  BY <1>1 DEF KeepInv, IdInv
<1>5. isRunning' = isRunning /\ job' = job
  BY <1>1 DEF isRunning, job
<1>6. OpInv'
  BY <1>1, <1>2, <1>5 DEF KeepInv, OpInv
<1>7. StepInv'
  <2> SUFFICES ASSUME isRunning PROVE StepInv'
    BY <1>5 DEF StepInv
  <2>1. job \in Job
    BY ElementOfSeq, LenProperties DEF KeepInv, TypeOK, job
  <2>2. job.victim \in Files
    BY <2>1 DEF Job
  <2>3. PICK v \in Files : v = job.victim
    BY <2>2
  <2>4. SafelyAside(v) => SafelyAside(v)'
    BY <1>1, <1>2, ApplyKeeps
  <2>5. step = "Link" /\ fs[Name(v)] # NoFile => fs'[Name(v)] # NoFile
    BY <1>1, <1>2, <2>3, ApplyKeeps DEF KeepInv, StepInv, SafelyAside
  <2>6. v = job.victim'
    BY <1>5, <2>3
  <2> QED
    BY <1>1, <2>3, <2>4, <2>5, <2>6 DEF KeepInv, StepInv, SafelyAside
<1> QED
  BY <1>3, <1>4, <1>6, <1>7

\* The runner does nothing and the server does nothing, but fewer operations
\* may be open.
LEMMA FewerKeeps ==
  ASSUME KeepInv, IdInv', Unresolved' \subseteq Unresolved,
         UNCHANGED <<jobs, current, step, opId, fs>>,
         \A d \in calls' : \E c \in calls :
           d.id = c.id /\ d.op = c.op /\ (d.stage = "applied" => c.stage = "applied")
  PROVE  IdInv' /\ OpInv' /\ AsideInv' /\ StepInv'
<1>1. isRunning' = isRunning /\ job' = job
  BY DEF isRunning, job
<1>2. OpInv'
  BY <1>1 DEF KeepInv, OpInv
<1>3. \A f : Leaving(f)' \subseteq Leaving(f)
  BY DEF Leaving
<1>4. AsideInv'
  BY <1>3 DEF KeepInv, AsideInv
<1>5. SafelyAside(job.victim) => SafelyAside(job.victim)'
  BY <1>1 DEF SafelyAside, Leaving
<1>6. StepInv'
  BY <1>1, <1>5 DEF KeepInv, StepInv
<1> QED
  BY <1>2, <1>4, <1>6

\* A request is declined.
LEMMA RefuseKeeps ==
  ASSUME KeepInv, NEW c \in calls, ServerRefuses(c)
  PROVE  IdInv' /\ OpInv' /\ AsideInv' /\ StepInv'
<1> DEFINE d == [c EXCEPT !.stage = "refused"]
<1>1. /\ c.stage = "sent" /\ calls' = (calls \ {c}) \cup {d}
      /\ UNCHANGED <<jobs, current, step, opId, nextOpId, fs, orphans>>
  BY DEF ServerRefuses, runner
<1>2. Unresolved' \subseteq Unresolved
  BY <1>1, RestageUnresolved
<1>3. d.id = c.id /\ d.op = c.op /\ d.stage = "refused"
  BY DEF KeepInv, TypeOK, Call
<1> HIDE DEF d
<1>4. IdInv'
  BY <1>1, <1>3 DEF KeepInv, IdInv
<1> QED
  BY <1>1, <1>2, <1>3, <1>4, FewerKeeps

\* The connection goes away under the open operations.
LEMMA DisconnectKeeps ==
  ASSUME KeepInv, Disconnect
  PROVE  IdInv' /\ OpInv' /\ AsideInv' /\ StepInv'
<1>1. /\ calls' = {[c EXCEPT !.stage = "queued"] : c \in calls}
      /\ orphans' = Unresolved
      /\ UNCHANGED <<jobs, current, step, opId, nextOpId, fs>>
  BY DEF Disconnect, runner, Unresolved
<1>2. \A d \in calls' : /\ d.stage = "queued"
                        /\ \E c \in calls : d.id = c.id /\ d.op = c.op
                                            /\ d = [c EXCEPT !.stage = "queued"]
  BY <1>1 DEF KeepInv, TypeOK, Call
<1>3. Unresolved' = orphans'
  BY <1>2 DEF Orphans, Unresolved
<1>4. \A u \in Unresolved : u.id < nextOpId
  BY DEF Unresolved, Orphans, KeepInv, IdInv
<1>5. IdInv'
  BY <1>1, <1>2, <1>4 DEF KeepInv, IdInv
<1> QED
  BY <1>1, <1>2, <1>3, <1>5, FewerKeeps

\* An abandoned request is dropped by the server.
LEMMA OrphanDiesKeeps ==
  ASSUME KeepInv, NEW o \in orphans, OrphanDies(o)
  PROVE  IdInv' /\ OpInv' /\ AsideInv' /\ StepInv'
<1>1. /\ UNCHANGED <<jobs, current, step, opId, nextOpId, fs, calls>>
      /\ orphans' \subseteq orphans
  BY DEF OrphanDies, runner, session
<1>2. Unresolved' \subseteq Unresolved
  BY <1>1 DEF Unresolved, Orphans
<1>3. IdInv'
  BY <1>1 DEF KeepInv, IdInv
<1> QED
  BY <1>1, <1>2, <1>3, FewerKeeps

\* Another client takes a free name; aside names are none of its business.
LEMMA OtherClientKeeps ==
  ASSUME KeepInv, NEW g \in Files, NEW i \in Inodes, OtherClientCreates(g, i)
  PROVE  IdInv' /\ OpInv' /\ AsideInv' /\ StepInv' /\ \A f \in Files : KeptAcross(f)
<1>1. /\ fs[Name(g)] = NoFile /\ fs' = [fs EXCEPT ![Name(g)] = i]
      /\ UNCHANGED <<jobs, current, step, opId, nextOpId, calls, orphans>>
      /\ fs \in [Path -> Entry]
  BY DEF OtherClientCreates, runner, session, KeepInv, TypeOK
<1>2. \A f \in Files : /\ fs'[Tmp(f)] = fs[Tmp(f)]
                       /\ fs[Name(f)] # NoFile => fs'[Name(f)] = fs[Name(f)]
  BY <1>1, PathFacts
<1>3. \A f \in Files : KeptAcross(f)
  BY <1>1, <1>2 DEF KeptAcross
<1>4. IdInv' /\ OpInv'
  BY <1>1 DEF KeepInv, IdInv, OpInv, Unresolved, Orphans, isRunning, job
<1>5. \A f : Leaving(f)' = Leaving(f)
  BY <1>1 DEF Leaving, Unresolved, Orphans
<1>6. AsideInv'
  BY <1>2, <1>5 DEF KeepInv, AsideInv
<1>7. StepInv'
  <2> SUFFICES ASSUME isRunning PROVE StepInv'
    BY <1>1 DEF StepInv, isRunning
  <2>1. job \in Job /\ job' = job /\ isRunning'
    BY <1>1, ElementOfSeq, LenProperties DEF KeepInv, TypeOK, job, isRunning
  <2>2. PICK v \in Files : v = job.victim
    BY <2>1 DEF Job
  <2>3. SafelyAside(v)' = SafelyAside(v)
    BY <1>2, <1>5 DEF SafelyAside
  <2>4. v = job.victim'
    BY <2>1, <2>2
  <2> QED
    BY <1>1, <1>2, <2>2, <2>3, <2>4 DEF KeepInv, StepInv, SafelyAside
<1> QED
  BY <1>3, <1>4, <1>6, <1>7

\* KeepInv is inductive, and no step that starts in it loses a victim's data.
LEMMA KeepInvStep ==
  ASSUME KeepInv, [Next]_vars
  PROVE  KeepInv' /\ \A f \in Files : KeptAcross(f)
<1> USE DEF runner, session, history
<1>1. TypeOK'
  BY TypeStep DEF KeepInv
<1>2. ASSUME UNCHANGED fs PROVE \A f \in Files : KeptAcross(f)
  BY <1>2 DEF KeptAcross
<1> DEFINE Rest == IdInv /\ OpInv /\ AsideInv /\ StepInv
<1>3. ASSUME NEW js \in JobLists, Start(js)
      PROVE  Rest' /\ \A f \in Files : KeptAcross(f)
  <2>1. PICK n \in Nat : js \in [1..n -> Job]
    BY DEF JobLists
  <2>2. js \in Seq(Job)
    BY <2>1, SeqDef
  <2>3. Handover(calls)
    BY <1>3 DEF Start, Handover, Unresolved, KeepInv, IdInv
  <2>4. StartJob(js, 1, calls) /\ UNCHANGED fs
    BY <1>3 DEF Start
  <2> QED
    BY <1>2, <2>2, <2>3, <2>4, StartJobKeeps
<1>4. ASSUME NEW c \in calls, ServerApplies(c)
      PROVE  Rest' /\ \A f \in Files : KeptAcross(f)
  BY <1>4, ServerAppliesKeeps
<1>5. ASSUME NEW c \in calls, ServerRefuses(c)
      PROVE  Rest' /\ \A f \in Files : KeptAcross(f)
  BY <1>5, <1>2, RefuseKeeps DEF ServerRefuses
<1>6. ASSUME NEW c \in calls, Deliver(c)
      PROVE  Rest' /\ \A f \in Files : KeptAcross(f)
  <2>1. Orphans({c}) = {}
    BY <1>6 DEF Deliver, Orphans
  <2> QED
    BY <1>2, <1>6, <2>1, HandlersKeep DEF Deliver
<1>7. ASSUME NEW c \in calls, Timeout(c)
      PROVE  Rest' /\ \A f \in Files : KeptAcross(f)
  BY <1>2, <1>7, HandlersKeep DEF Timeout
<1>8. ASSUME Disconnect
      PROVE  Rest' /\ \A f \in Files : KeptAcross(f)
  BY <1>2, <1>8, DisconnectKeeps DEF Disconnect
<1>9. ASSUME DestroyPanel
      PROVE  Rest' /\ \A f \in Files : KeptAcross(f)
  <2>1. UNCHANGED <<fs, opId, nextOpId, calls, orphans>> /\ jobs' = <<>>
    BY <1>9 DEF DestroyPanel, RunnerGone
  <2>2. Handover(calls)
    BY <2>1 DEF Handover, Unresolved, KeepInv, IdInv
  <2> QED
    BY <1>2, <2>1, <2>2, QuietKeeps DEF KeepInv, IdInv
<1>10. ASSUME Crash
      PROVE  Rest' /\ \A f \in Files : KeptAcross(f)
  <2>1. /\ UNCHANGED <<fs, opId, nextOpId>> /\ jobs' = <<>> /\ calls' = {}
        /\ orphans' = Unresolved
    BY <1>10 DEF Crash, RunnerGone, Unresolved
  <2>2. \A u \in Unresolved : u.id < nextOpId
    BY DEF Unresolved, Orphans, KeepInv, IdInv
  <2>3. Handover({})
    BY <2>1, <2>2 DEF Handover, Orphans
  <2>4. opId' < nextOpId
    BY <2>1 DEF KeepInv, IdInv
  <2> QED
    BY <1>2, <2>1, <2>3, <2>4, QuietKeeps
<1>11. ASSUME Reconnect
      PROVE  Rest' /\ \A f \in Files : KeptAcross(f)
  <2>1. /\ UNCHANGED <<fs, nextOpId, calls, orphans>>
        /\ jobs' = <<>> /\ opId' = 0 /\ 0 < nextOpId
    BY <1>11 DEF Reconnect, KeepInv, TypeOK, IdInv
  <2>2. Handover(calls)
    BY <2>1 DEF Handover, Unresolved, KeepInv, IdInv
  <2> QED
    BY <1>2, <2>1, <2>2, QuietKeeps
<1>12. ASSUME NEW o \in orphans, OrphanApplies(o)
      PROVE  Rest' /\ \A f \in Files : KeptAcross(f)
  BY <1>12, OrphanAppliesKeeps
<1>13. ASSUME NEW o \in orphans, OrphanDies(o)
      PROVE  Rest' /\ \A f \in Files : KeptAcross(f)
  BY <1>2, <1>13, OrphanDiesKeeps DEF OrphanDies
<1>14. ASSUME NEW g \in Files, NEW i \in Inodes, OtherClientCreates(g, i)
      PROVE  Rest' /\ \A f \in Files : KeptAcross(f)
  BY <1>14, OtherClientKeeps
<1>15. ASSUME UNCHANGED vars
      PROVE  Rest' /\ \A f \in Files : KeptAcross(f)
  <2>1. UNCHANGED <<fs, jobs, current, step, opId, nextOpId, calls, orphans>>
    BY <1>15 DEF vars
  <2>2. Handover(calls)
    BY <2>1 DEF Handover, Unresolved, KeepInv, IdInv
  <2> QED
    BY <1>2, <2>1, <2>2, QuietKeeps DEF KeepInv, IdInv
<1> QED
  BY <1>1, <1>3, <1>4, <1>5, <1>6, <1>7, <1>8, <1>9, <1>10, <1>11, <1>12, <1>13,
     <1>14, <1>15 DEF Next, KeepInv

\* What keeps the victims' data safe holds in every reachable state.
THEOREM KeepInvariance == Spec => []KeepInv
<1>1. Init => TypeOK
  BY EmptySeq DEF Init, TypeOK, isRunning, Step
<1>2. Init => KeepInv
  BY <1>1 DEF Init, KeepInv, IdInv, OpInv, AsideInv, StepInv, Unresolved, Orphans,
              Leaving, isRunning
<1>3. KeepInv /\ [Next]_vars => KeepInv'
  BY KeepInvStep
<1> QED
  BY <1>2, <1>3, PTL DEF Spec

\* LinkRunner.h's promise, for every run and every fate of its operations:
\* the victim's data stays under its name or its aside name until its name is
\* occupied again.
THEOREM NoVictimDataLost == Spec => VictimDataKept
<1>1. KeepInv /\ [Next]_vars => [\A f \in Files : KeptAcross(f)]_vars
  BY KeepInvStep
<1> QED
  BY <1>1, KeepInvariance, PTL DEF Spec, VictimDataKept

-----------------------------------------------------------------------------
(***************************************************************************)
(* A running runner is owed an answer, and needs ever fewer of them.       *)
(***************************************************************************)
\* An operation that is issued is awaited.
LEMMA IssueIsOwed ==
  ASSUME NEW s, NEW j, NEW rest, Issue(s, j, rest)
  PROVE  AnswerOwed'
<1>1. PICK g : calls' = rest \cup {[id |-> nextOpId, op |-> StepOp(s, j), stage |-> g]}
  BY DEF Issue, Submit
<1>2. opId' = nextOpId
  BY DEF Issue, Submit
<1>3. [id |-> nextOpId, op |-> StepOp(s, j), stage |-> g] \in Awaited'
  BY <1>1, <1>2 DEF Awaited
<1> QED
  BY <1>3 DEF AnswerOwed

\* The start of a job leaves its first operation awaited, the end of the run
\* nobody waiting.
LEMMA StartJobIsOwed ==
  ASSUME NEW js, NEW k, NEW rest, StartJob(js, k, rest)
  PROVE  AnswerOwed'
<1>1. CASE k \in DOMAIN js
  BY <1>1, IssueIsOwed DEF StartJob
<1>2. CASE k \notin DOMAIN js
  BY <1>2 DEF StartJob, AnswerOwed, isRunning
<1> QED
  BY <1>1, <1>2

\* A completion the runner awaits has it issue another operation or end; any
\* other leaves the awaited one where it is.
LEMMA HandlersOwe ==
  ASSUME AnswerOwed, NEW c \in calls,
         OnOpSucceeded(c.id, calls \ {c}) \/ OnOpFailed(c.id, calls \ {c})
  PROVE  AnswerOwed'
<1>1. CASE ~isRunning \/ c.id # opId
  <2>1. calls' = calls \ {c} /\ UNCHANGED <<jobs, opId>>
    BY <1>1 DEF OnOpSucceeded, OnOpFailed, NotMine, runner
  <2> QED
    BY <1>1, <2>1 DEF AnswerOwed, Awaited, isRunning
<1>2. CASE ~(~isRunning \/ c.id # opId)
  <2>1. \/ \E s \in Step : NextStep(s, calls \ {c})
        \/ \E m \in Message : FinishJob(m, calls \ {c})
    BY <1>2 DEF OnOpSucceeded, OnOpFailed, Step, Message
  <2> QED
    BY <2>1, IssueIsOwed, StartJobIsOwed DEF NextStep, FinishJob
<1> QED
  BY <1>1, <1>2

\* A request that changes its stage keeps its id.
LEMMA RestageOwes ==
  ASSUME TypeOK, AnswerOwed, NEW c \in calls, NEW g,
         calls' = (calls \ {c}) \cup {[c EXCEPT !.stage = g]}, UNCHANGED <<jobs, opId>>
  PROVE  AnswerOwed'
<1>1. [c EXCEPT !.stage = g].id = c.id
  BY DEF TypeOK, Call
<1> QED
  BY <1>1 DEF AnswerOwed, Awaited, isRunning

\* No step of the program leaves a running runner with nothing to wait for.
LEMMA OwedStep == KeepInv /\ AnswerOwed /\ [Next]_vars => AnswerOwed'
<1> SUFFICES ASSUME KeepInv, AnswerOwed, [Next]_vars PROVE AnswerOwed'
  OBVIOUS
<1> USE DEF runner, session, history
<1>1. TypeOK
  BY DEF KeepInv
<1>2. ASSUME NEW js \in JobLists, Start(js) PROVE AnswerOwed'
  BY <1>2, StartJobIsOwed DEF Start
<1>3. ASSUME NEW c \in calls, ServerApplies(c) \/ ServerRefuses(c) PROVE AnswerOwed'
  BY <1>1, <1>3, RestageOwes DEF ServerApplies, ServerRefuses
<1>4. ASSUME NEW c \in calls, Deliver(c) \/ Timeout(c) PROVE AnswerOwed'
  BY <1>4, HandlersOwe DEF Deliver, Timeout
<1>5. CASE Disconnect
  <2>1. calls' = {[c EXCEPT !.stage = "queued"] : c \in calls} /\ UNCHANGED <<jobs, opId>>
    BY <1>5 DEF Disconnect
  <2>2. \A c \in calls : [c EXCEPT !.stage = "queued"].id = c.id
    BY <1>1 DEF TypeOK, Call
  <2> QED
    BY <2>1, <2>2 DEF AnswerOwed, Awaited, isRunning
<1>6. CASE DestroyPanel \/ Crash \/ Reconnect
  BY <1>6 DEF DestroyPanel, Crash, Reconnect, RunnerGone, AnswerOwed, isRunning
<1>7. CASE \/ \E o \in orphans : OrphanApplies(o) \/ OrphanDies(o)
           \/ \E f \in Files, i \in Inodes : OtherClientCreates(f, i)
           \/ UNCHANGED vars
  <2>1. UNCHANGED <<jobs, opId, calls>>
    BY <1>7 DEF OrphanApplies, OrphanDies, OtherClientCreates, vars
  <2> QED
    BY <2>1 DEF AnswerOwed, Awaited, isRunning
<1> QED
  BY <1>2, <1>3, <1>4, <1>5, <1>6, <1>7 DEF Next

\* The inductive invariant holds in every reachable state; in particular the
\* answer that takes the run on is always owed to the runner, whatever was
\* delivered to it before (LinkRunner.cpp: onOpSucceeded, onOpFailed).
THEOREM Invariance == Spec => []IInv
<1>1. Init => AnswerOwed
  BY DEF Init, AnswerOwed, isRunning
<1>2. KeepInv /\ AnswerOwed /\ [Next]_vars => AnswerOwed'
  BY OwedStep
<1> QED
  BY <1>1, <1>2, KeepInvariance, PTL DEF Spec, IInv

\* A handler that issues another step, or reports the job, brings the run
\* nearer to its end.
LEMMA HandlersAdvance ==
  ASSUME TypeOK, isRunning, NEW c \in calls,
         OnOpSucceeded(c.id, calls \ {c}) \/ OnOpFailed(c.id, calls \ {c})
  PROVE  \/ OperationsLeft' < OperationsLeft
         \/ UNCHANGED <<jobs, current, step, opId>>
<1>1. current \in Nat /\ Len(jobs) \in Nat /\ current \in 1..Len(jobs)
  BY LenProperties DEF TypeOK
<1>2. StepsLeft \in 1..3 /\ OperationsLeft = 3 * (Len(jobs) - current) + StepsLeft
  BY DEF StepsLeft, OperationsLeft, TypeOK, Step
<1>3. CASE c.id # opId
  BY <1>3 DEF OnOpSucceeded, OnOpFailed, NotMine, runner
<1>4. ASSUME NEW s \in Step, NextStep(s, calls \ {c}),
             \/ step = "Rename" /\ s = "Link"
             \/ step = "Link" /\ s \in {"Unlink", "UndoRename"}
      PROVE  OperationsLeft' < OperationsLeft
  <2>1. step' = s /\ UNCHANGED <<jobs, current>>
    BY <1>4 DEF NextStep, Issue
  <2>2. isRunning' /\ StepsLeft' \in Nat /\ StepsLeft' < StepsLeft
    BY <1>4, <2>1 DEF StepsLeft, isRunning
  <2>3. OperationsLeft' = 3 * (Len(jobs) - current) + StepsLeft'
    BY <2>1, <2>2 DEF OperationsLeft
  <2> QED
    BY <1>1, <1>2, <2>2, <2>3
<1>5. ASSUME NEW m, FinishJob(m, calls \ {c}) PROVE OperationsLeft' < OperationsLeft
  <2>1. StartJob(jobs, current + 1, calls \ {c})
    BY <1>5 DEF FinishJob
  <2>2. CASE current + 1 \in DOMAIN jobs
    <3>1. jobs' = jobs /\ current' = current + 1 /\ step' = "Rename"
      BY <2>1, <2>2 DEF StartJob, Issue
    <3>2. OperationsLeft' = 3 * (Len(jobs) - (current + 1)) + 3
      BY <3>1 DEF OperationsLeft, StepsLeft, isRunning
    <3> QED
      BY <1>1, <1>2, <3>2
  <2>3. CASE current + 1 \notin DOMAIN jobs
    <3>1. OperationsLeft' = 0
      BY <2>1, <2>3 DEF StartJob, OperationsLeft, isRunning
    <3> QED
      BY <1>1, <1>2, <3>1
  <2> QED
    BY <2>2, <2>3
<1>6. CASE c.id = opId
  <2>1. \/ NextStep("Link", calls \ {c}) /\ step = "Rename"
        \/ NextStep("Unlink", calls \ {c}) /\ step = "Link"
        \/ NextStep("UndoRename", calls \ {c}) /\ step = "Link"
        \/ \E m \in Message : FinishJob(m, calls \ {c})
    BY <1>6 DEF OnOpSucceeded, OnOpFailed, Message
  <2> QED
    BY <2>1, <1>4, <1>5 DEF Step
<1> QED
  BY <1>3, <1>6

\* No operation of a run is repeated or retried: until its runner is deleted
\* or dies, every step either leaves it waiting as it was, or leaves it fewer
\* of the three operations that each job may take.  With Invariance, a run
\* can fail to end only if an answer that is owed never comes.
THEOREM RunsAdvance == Spec => RunAdvances
<1>1. TypeOK /\ [Next]_vars =>
        [isRunning => \/ OperationsLeft' < OperationsLeft
                      \/ UNCHANGED <<jobs, current, step, opId>>]_vars
  <2> SUFFICES ASSUME TypeOK, Next, isRunning
               PROVE  \/ OperationsLeft' < OperationsLeft
                      \/ UNCHANGED <<jobs, current, step, opId>>
    OBVIOUS
  <2> USE DEF runner, session, history
  <2>1. ASSUME jobs' = <<>> PROVE OperationsLeft' < OperationsLeft
    <3>1. current \in Nat /\ Len(jobs) \in Nat /\ current \in 1..Len(jobs)
      BY LenProperties DEF TypeOK
    <3>2. StepsLeft \in 1..3 /\ OperationsLeft = 3 * (Len(jobs) - current) + StepsLeft
      BY DEF StepsLeft, OperationsLeft, TypeOK, Step
    <3>3. OperationsLeft' = 0
      BY <2>1 DEF OperationsLeft, isRunning
    <3> QED
      BY <3>1, <3>2, <3>3
  <2>2. ASSUME NEW js \in JobLists, Start(js) PROVE FALSE
    BY <2>2 DEF Start
  <2>3. ASSUME NEW c \in calls, Deliver(c) \/ Timeout(c)
        PROVE  \/ OperationsLeft' < OperationsLeft
               \/ UNCHANGED <<jobs, current, step, opId>>
    BY <2>3, HandlersAdvance DEF Deliver, Timeout
  <2>4. CASE DestroyPanel \/ Crash \/ Reconnect
    BY <2>1, <2>4 DEF DestroyPanel, Crash, Reconnect, RunnerGone
  <2>5. CASE \/ \E c \in calls : ServerApplies(c) \/ ServerRefuses(c)
             \/ Disconnect
             \/ \E o \in orphans : OrphanApplies(o) \/ OrphanDies(o)
             \/ \E f \in Files, i \in Inodes : OtherClientCreates(f, i)
    BY <2>5 DEF ServerApplies, ServerRefuses, Disconnect, OrphanApplies, OrphanDies,
                OtherClientCreates
  <2> QED
    BY <2>2, <2>3, <2>4, <2>5 DEF Next
<1> QED
  BY <1>1, TypeCorrect, PTL DEF Spec, RunAdvances

-----------------------------------------------------------------------------
(***************************************************************************)
(* The runner implements LinkRun.  Between runs nothing has been reported, *)
(* whatever outcome still holds of the last run.                           *)
(***************************************************************************)
LEMMA ReportedShown ==
  /\ (Run!Active <=> isRunning) /\ (Run!Active' <=> isRunning')
  /\ Run!Over <=> jobs' = <<>> /\ current' = 0
BY DEF Run!Active, Run!Over, isRunning

\* The start of a job is the start of the next, or the end of the run.
LEMMA FinishRefines ==
  ASSUME TypeOK, isRunning, NEW m \in Message, NEW rest, FinishJob(m, rest)
  PROVE  Run!Finish(m)
<1>1. /\ jobs \in Seq(Job) /\ current \in DOMAIN jobs /\ current \in Nat
      /\ DOMAIN jobs = 1..Len(jobs) /\ Len(jobs) \in Nat
  BY LenProperties DEF TypeOK
<1>2. StartJob(jobs, current + 1, rest) /\ outcome' = Append(outcome, m)
  BY DEF FinishJob
<1>3. CASE current < Len(jobs)
  <2>1. current + 1 \in DOMAIN jobs
    BY <1>1, <1>3
  <2>2. jobs' = jobs /\ current' = current + 1
    BY <1>2, <2>1 DEF StartJob
  <2>3. isRunning'
    BY <2>2 DEF isRunning
  <2> QED
    BY <1>2, <1>3, <2>2, <2>3 DEF Run!Finish, Run!Active, Run!Results, isRunning
<1>4. CASE ~(current < Len(jobs))
  <2>1. current + 1 \notin DOMAIN jobs
    BY <1>1, <1>4
  <2>2. jobs' = <<>> /\ current' = 0
    BY <1>2, <2>1 DEF StartJob
  <2>3. current >= Len(jobs)
    BY <1>1, <1>4
  <2> QED
    BY <2>2, <2>3, ReportedShown DEF Run!Finish
<1> QED
  BY <1>3, <1>4

\* A completion reports the current job, or is none of the owner's business.
LEMMA HandlersRefine ==
  ASSUME TypeOK, NEW id, NEW rest, OnOpSucceeded(id, rest) \/ OnOpFailed(id, rest)
  PROVE  Run!Next \/ UNCHANGED Run!vars
<1>1. CASE ~isRunning \/ id # opId
  <2>1. UNCHANGED <<jobs, current, outcome>>
    BY <1>1 DEF OnOpSucceeded, OnOpFailed, NotMine, runner
  <2> QED
    BY <2>1 DEF Run!vars, isRunning
<1>2. CASE ~(~isRunning \/ id # opId)
  <2>1. \/ \E s \in Step : NextStep(s, rest)
        \/ \E m \in Message : FinishJob(m, rest)
    BY <1>2 DEF OnOpSucceeded, OnOpFailed, Step, Message
  <2>2. ASSUME NEW s \in Step, NextStep(s, rest) PROVE UNCHANGED Run!vars
    BY <2>2 DEF NextStep, Run!vars, isRunning
  <2>3. ASSUME NEW m \in Message, FinishJob(m, rest) PROVE Run!Next
    BY <1>2, <2>3, FinishRefines DEF Run!Next
  <2> QED
    BY <2>1, <2>2, <2>3
<1> QED
  BY <1>1, <1>2

\* Each step of the runner begins a run, reports a job, ends the run with its
\* runner, or does not show.
LEMMA StepRefines == TypeOK /\ [Next]_vars => [Run!Next]_(Run!vars)
<1> SUFFICES ASSUME TypeOK, [Next]_vars PROVE Run!Next \/ UNCHANGED Run!vars
  OBVIOUS
<1> USE DEF runner, session, history
<1>1. ASSUME NEW js \in JobLists, Start(js) PROVE Run!Next
  <2>1. PICK n \in 1..MaxJobs : js \in [1..n -> Job]
    BY DEF JobLists
  <2>2. 1 \in DOMAIN js
    BY <2>1
  <2>3. js # <<>>
    BY <2>2
  <2>4. ~isRunning /\ StartJob(js, 1, calls) /\ outcome' = <<>>
    BY <1>1 DEF Start
  <2>5. jobs' = js /\ current' = 1
    BY <2>2, <2>4 DEF StartJob
  <2>6. isRunning'
    BY <2>3, <2>5 DEF isRunning
  <2>7. Run!Begin
    BY <2>3, <2>4, <2>5, <2>6, ReportedShown DEF Run!Begin
  <2> QED
    BY <2>7 DEF Run!Next
<1>2. ASSUME UNCHANGED <<jobs, current, outcome>> PROVE UNCHANGED Run!vars
  BY <1>2 DEF Run!vars, isRunning
<1>3. ASSUME jobs' = <<>>, current' = 0 PROVE Run!Next
  BY <1>3, ReportedShown DEF Run!Next, Run!Gone
<1>4. ASSUME NEW c \in calls, Deliver(c) \/ Timeout(c)
      PROVE  Run!Next \/ UNCHANGED Run!vars
  BY <1>4, HandlersRefine DEF Deliver, Timeout
<1>5. CASE DestroyPanel \/ Crash \/ Reconnect
  BY <1>3, <1>5 DEF DestroyPanel, Crash, Reconnect, RunnerGone
<1>6. CASE \/ \E c \in calls : ServerApplies(c) \/ ServerRefuses(c)
           \/ Disconnect
           \/ \E o \in orphans : OrphanApplies(o) \/ OrphanDies(o)
           \/ \E f \in Files, i \in Inodes : OtherClientCreates(f, i)
           \/ UNCHANGED vars
  BY <1>2, <1>6 DEF ServerApplies, ServerRefuses, Disconnect, OrphanApplies, OrphanDies,
                    OtherClientCreates, vars
<1> QED
  BY <1>1, <1>4, <1>5, <1>6 DEF Next

\* The runner, with all its operations, late answers, time-outs, disconnects
\* and crashes, is for its owner what LinkRun says: each job reported once
\* and in order, and nothing left of a run when it is over.
THEOREM Refinement == Spec => ImplementsLinkRun
<1>1. Init => Run!Init
  BY DEF Init, Run!Init, isRunning
<1>2. TypeOK /\ [Next]_vars => [Run!Next]_(Run!vars)
  BY StepRefines
<1> QED
  BY <1>1, <1>2, TypeCorrect, PTL DEF Spec, ImplementsLinkRun, Run!Spec
=============================================================================
