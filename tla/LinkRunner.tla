----------------------------- MODULE LinkRunner -----------------------------
(***************************************************************************)
(* LinkRunner (src/src/core/LinkRunner.cpp): replaces files with hard      *)
(* links, one job at a time, by rename-aside, link, unlink, and a rename   *)
(* back when the link fails.  The runner is modelled together with         *)
(*                                                                         *)
(*   - the slice of SmbSession it drives: request ids, replies, timeouts,  *)
(*     the failures a disconnect or an up-front refusal queues;            *)
(*   - the share, which applies a request at some moment between its       *)
(*     sending and its reply, or after the client gave up on it;           *)
(*   - the owner's life: MainWindow deletes the panel, and the runner with *)
(*     it, some time after a disconnect, and the process may die at any    *)
(*     moment.                                                             *)
(***************************************************************************)
EXTENDS Share, MatchConflicts, Naturals, Sequences

CONSTANTS MaxJobs,        \* longest list of jobs a run is started with
          MaxRuns,        \* bound on the number of runs ever started
          InitialShares   \* the contents of the share to begin with

ASSUME LinkRunnerAssumption ==
  /\ MaxJobs \in Nat \ {0}
  /\ MaxRuns \in Nat
  /\ InitialShares \subseteq [Path -> Entry]

VARIABLES
  \* members of LinkRunner
  jobs, current, step, opId, succeeded, failed,
  \* the session, as the runner sees it
  connected, nextOpId, calls,
  \* whether the panel that owns the runner exists
  alive,
  \* the server: the share, and requests the client no longer waits for but
  \* the server may still apply
  fs, orphans,
  \* history, for the properties only: jobs, results and share of the last
  \* run; victims with an operation of unknown outcome; victims some orphan
  \* was still about when the run started; runs started
  ran, outcome, before, unknown, stale, runs

runner  == <<jobs, current, step, opId, succeeded, failed>>
session == <<connected, nextOpId, calls>>
history == <<ran, outcome, before, unknown, stale, runs>>
vars    == <<runner, session, alive, fs, orphans, history>>

Job    == [primary : Files, victim : Files]
Step   == {"Rename", "Link", "Unlink", "UndoRename"}

\* What jobFinished reports of a job, one value per message text.
Message == {"replaced", "renameFailed", "restored", "restoreFailed",
            "tmpNotRemoved"}

\* A request the session owes an answer: waiting at the server, processed
\* there either way, or already failed with its operationFailed queued.
Stage == {"sent", "applied", "refused", "queued"}
Call  == [id : Nat, op : Op, stage : Stage]

isRunning == jobs # <<>>
job       == jobs[current]

\* The server-side operation each step of a job is waiting for.
StepOp(s, j) ==
  CASE s = "Rename"     -> RenameOp(Name(j.victim), Tmp(j.victim))
    [] s = "Link"       -> LinkOp(Name(j.primary), Name(j.victim))
    [] s = "Unlink"     -> RemoveOp(Tmp(j.victim))
    [] s = "UndoRename" -> RenameOp(Tmp(j.victim), Name(j.victim))

JobLists == UNION {[1..n -> Job] : n \in 1..MaxJobs}

Init ==
  /\ jobs = <<>> /\ current = 0 /\ step = "Rename" /\ opId = 0
  /\ succeeded = 0 /\ failed = 0
  /\ connected = TRUE /\ nextOpId = 1 /\ calls = {}
  /\ alive = TRUE
  /\ fs \in InitialShares /\ orphans = {}
  /\ ran = <<>> /\ outcome = <<>> /\ before = fs
  /\ unknown = {} /\ stale = {} /\ runs = 0

-----------------------------------------------------------------------------
(***************************************************************************)
(* SmbSession::renameFile, createHardLink, removeFile.  The id is returned *)
(* at once; the answer always comes in a later step.  Not connected, or    *)
(* refused by libsmb2 on the spot: failOpLater queues the failure.         *)
(***************************************************************************)
Submit(op, rest) ==
  /\ opId' = nextOpId
  /\ nextOpId' = nextOpId + 1
  /\ \E s \in IF connected THEN {"sent", "queued"} ELSE {"queued"} :
       calls' = rest \cup {[id |-> nextOpId, op |-> op, stage |-> s]}

\* Move on to the given step of job j; rest are the calls still open.
Issue(s, j, rest) == step' = s /\ Submit(StepOp(s, j), rest)

\* Mutant of StartJob: m_jobs is not cleared at the end of the run.
StartJobKeepsList(js, k, rest) ==
  \/ /\ k \in DOMAIN js
     /\ jobs' = js /\ current' = k
     /\ Issue("Rename", js[k], rest)
  \/ /\ k \notin DOMAIN js
     /\ jobs' = js /\ current' = k /\ calls' = rest
     /\ UNCHANGED <<step, opId, nextOpId>>

\* LinkRunner::startNextJob, with k the incremented m_current: the first
\* step of job k, or the end of the run.
StartJob(js, k, rest) ==
  \/ /\ k \in DOMAIN js
     /\ jobs' = js /\ current' = k
     /\ Issue("Rename", js[k], rest)
  \/ /\ k \notin DOMAIN js
     /\ jobs' = <<>> /\ current' = 0 /\ calls' = rest
     /\ UNCHANGED <<step, opId, nextOpId>>

\* LinkRunner::finishJob.
FinishJob(message, rest) ==
  /\ IF message = "replaced"
       THEN succeeded' = succeeded + 1 /\ UNCHANGED failed
       ELSE failed' = failed + 1 /\ UNCHANGED succeeded
  /\ outcome' = Append(outcome, message)
  /\ StartJob(jobs, current + 1, rest)

\* A step inside a job: nothing is reported yet.
NextStep(s, rest) ==
  /\ Issue(s, job, rest)
  /\ UNCHANGED <<jobs, current, succeeded, failed, outcome>>

\* A completion the runner is not waiting for: of an earlier runner, or of
\* an operation it gave up on.
NotMine(rest) ==
  calls' = rest /\ UNCHANGED <<runner, nextOpId, outcome>>

\* Mutant of OnOpSucceeded: the successful rename back is forgotten.
UndoSuccessIgnored(id, rest) ==
  IF ~isRunning \/ id # opId THEN NotMine(rest)
  ELSE \/ step = "Rename"     /\ NextStep("Link", rest)
       \/ step = "Link"       /\ NextStep("Unlink", rest)
       \/ step = "Unlink"     /\ FinishJob("replaced", rest)
       \/ step = "UndoRename" /\ NotMine(rest)

OnOpSucceeded(id, rest) ==
  IF ~isRunning \/ id # opId THEN NotMine(rest)
  ELSE \/ step = "Rename"     /\ NextStep("Link", rest)
       \/ step = "Link"       /\ NextStep("Unlink", rest)
       \/ step = "Unlink"     /\ FinishJob("replaced", rest)
       \/ step = "UndoRename" /\ FinishJob("restored", rest)

\* Mutant of OnOpFailed: it does not compare the id.
FailureOfAnyone(id, rest) ==
  IF ~isRunning THEN NotMine(rest)
  ELSE \/ step = "Rename"     /\ FinishJob("renameFailed", rest)
       \/ step = "Link"       /\ NextStep("UndoRename", rest)
       \/ step = "Unlink"     /\ FinishJob("tmpNotRemoved", rest)
       \/ step = "UndoRename" /\ FinishJob("restoreFailed", rest)

\* Mutant of OnOpFailed: a failed link is followed by the clean-up.
CleanUpAfterFailure(id, rest) ==
  IF ~isRunning \/ id # opId THEN NotMine(rest)
  ELSE \/ step = "Rename"     /\ FinishJob("renameFailed", rest)
       \/ step = "Link"       /\ NextStep("Unlink", rest)
       \/ step = "Unlink"     /\ FinishJob("tmpNotRemoved", rest)
       \/ step = "UndoRename" /\ FinishJob("restoreFailed", rest)

\* Mutant of OnOpFailed: a failed clean-up is not reported.
CleanUpNotNeeded(id, rest) ==
  IF ~isRunning \/ id # opId THEN NotMine(rest)
  ELSE \/ step = "Rename"     /\ FinishJob("renameFailed", rest)
       \/ step = "Link"       /\ NextStep("UndoRename", rest)
       \/ step = "Unlink"     /\ FinishJob("replaced", rest)
       \/ step = "UndoRename" /\ FinishJob("restoreFailed", rest)

\* Mutant of OnOpFailed: the rename back is taken to succeed.
UndoAssumed(id, rest) ==
  IF ~isRunning \/ id # opId THEN NotMine(rest)
  ELSE \/ step = "Rename"     /\ FinishJob("renameFailed", rest)
       \/ step = "Link"       /\ NextStep("UndoRename", rest)
       \/ step = "Unlink"     /\ FinishJob("tmpNotRemoved", rest)
       \/ step = "UndoRename" /\ FinishJob("restored", rest)

\* Another: a removal that fails is tried again.
RemoveRetried(id, rest) ==
  IF ~isRunning \/ id # opId THEN NotMine(rest)
  ELSE \/ step = "Rename"     /\ FinishJob("renameFailed", rest)
       \/ step = "Link"       /\ NextStep("UndoRename", rest)
       \/ step = "Unlink"     /\ NextStep("Unlink", rest)
       \/ step = "UndoRename" /\ FinishJob("restoreFailed", rest)

OnOpFailed(id, rest) ==
  IF ~isRunning \/ id # opId THEN NotMine(rest)
  ELSE \/ step = "Rename"     /\ FinishJob("renameFailed", rest)
       \/ step = "Link"       /\ NextStep("UndoRename", rest)
       \/ step = "Unlink"     /\ FinishJob("tmpNotRemoved", rest)
       \/ step = "UndoRename" /\ FinishJob("restoreFailed", rest)

-----------------------------------------------------------------------------
\* LinkRunner::start, called by MatchFinderPanel::onLinkSelectedClicked with
\* the checked rows once they are free of conflicts.
Start(js) ==
  /\ alive /\ ~isRunning
  /\ runs < MaxRuns
  /\ ConflictFree(js)
  /\ succeeded' = 0 /\ failed' = 0
  /\ StartJob(js, 1, calls)
  /\ ran' = js /\ outcome' = <<>> /\ before' = fs /\ unknown' = {}
  /\ stale' = {Victim(o.op) : o \in orphans}
  /\ runs' = runs + 1
  /\ UNCHANGED <<connected, alive, fs, orphans>>

\* The server carries out a request, or declines it (access denied, sharing
\* violation, or simply not applicable).
ServerApplies(c) ==
  /\ c.stage = "sent" /\ Applicable(fs, c.op)
  /\ fs' = Applied(fs, c.op)
  /\ calls' = (calls \ {c}) \cup {[c EXCEPT !.stage = "applied"]}
  /\ UNCHANGED <<runner, connected, nextOpId, alive, orphans, history>>

ServerRefuses(c) ==
  /\ c.stage = "sent"
  /\ calls' = (calls \ {c}) \cup {[c EXCEPT !.stage = "refused"]}
  /\ UNCHANGED <<runner, connected, nextOpId, alive, fs, orphans, history>>

\* The server's reply reaches SmbSession::onOpDone, or a queued
\* operationFailed is delivered by the event loop.
Deliver(c) ==
  /\ \/ c.stage = "applied" /\ OnOpSucceeded(c.id, calls \ {c})
     \/ c.stage \in {"refused", "queued"} /\ OnOpFailed(c.id, calls \ {c})
  /\ UNCHANGED <<connected, alive, fs, orphans, ran, before, unknown, stale, runs>>

\* The operations whose fate at the server is still open when cs are dropped.
Orphans(cs) == {[id |-> c.id, op |-> c.op] : c \in {d \in cs : d.stage = "sent"}}

\* The victims of the calls in cs that die without the server's answer.
Unanswered(cs) == {Victim(c.op) : c \in {d \in cs : d.stage # "queued"}}

\* libsmb2's per-PDU timeout (kPduTimeoutSeconds) fails a request while the
\* connection stays up.
Timeout(c) ==
  /\ c.stage # "queued"
  /\ OnOpFailed(c.id, calls \ {c})
  /\ orphans' = orphans \cup Orphans({c})
  /\ unknown' = unknown \cup Unanswered({c})
  /\ UNCHANGED <<connected, alive, fs, ran, before, stale, runs>>

\* The user disconnects or the connection fails: SmbSession::teardown flushes
\* every open operation into a queued operationFailed.
Disconnect ==
  /\ connected
  /\ connected' = FALSE
  /\ calls' = {[c EXCEPT !.stage = "queued"] : c \in calls}
  /\ orphans' = orphans \cup Orphans(calls)
  /\ unknown' = unknown \cup Unanswered(calls)
  /\ UNCHANGED <<runner, nextOpId, alive, fs, ran, outcome, before, stale, runs>>

\* The runner ceases to exist, whatever it was doing.
RunnerGone ==
  /\ alive' = FALSE
  /\ jobs' = <<>> /\ current' = 0
  /\ UNCHANGED <<step, opId, succeeded, failed>>

\* The deferred deletion of the panel, posted by
\* MainWindow::onSessionStateChanged(Disconnected).
DestroyPanel ==
  /\ ~connected /\ alive
  /\ RunnerGone
  /\ UNCHANGED <<session, fs, orphans, history>>

\* The process dies.  Nothing is persisted, queued failures included; only
\* the share and what is under way there remain.
Crash ==
  /\ alive
  /\ connected' = FALSE /\ calls' = {}
  /\ orphans' = orphans \cup Orphans(calls)
  /\ unknown' = unknown \cup Unanswered(calls)
  /\ RunnerGone
  /\ UNCHANGED <<nextOpId, fs, ran, outcome, before, stale, runs>>

\* MainWindow::onSessionStateChanged(Connected) builds a new panel, and with
\* it a new runner.
Reconnect ==
  /\ ~connected /\ ~alive
  /\ connected' = TRUE /\ alive' = TRUE
  /\ jobs' = <<>> /\ current' = 0 /\ step' = "Rename" /\ opId' = 0
  /\ succeeded' = 0 /\ failed' = 0
  /\ UNCHANGED <<nextOpId, calls, fs, orphans, history>>

\* The server gets to an abandoned request after all, or drops it.
OrphanApplies(o) ==
  /\ Applicable(fs, o.op)
  /\ fs' = Applied(fs, o.op)
  /\ orphans' = orphans \ {o}
  /\ UNCHANGED <<runner, session, alive, history>>

OrphanDies(o) ==
  /\ orphans' = orphans \ {o}
  /\ UNCHANGED <<runner, session, alive, fs, history>>

\* Another client of the share creates a file at a name that is free, for
\* instance the name of a victim that is moved aside just then.
OtherClientCreates(f, i) ==
  /\ fs[Name(f)] = NoFile
  /\ \A p \in Path : fs[p] # i
  /\ fs' = [fs EXCEPT ![Name(f)] = i]
  /\ UNCHANGED <<runner, session, alive, orphans, history>>

Next ==
  \/ \E js \in JobLists : Start(js)
  \/ \E c \in calls : ServerApplies(c)
  \/ \E c \in calls : ServerRefuses(c)
  \/ \E c \in calls : Deliver(c)
  \/ \E c \in calls : Timeout(c)
  \/ Disconnect
  \/ DestroyPanel
  \/ Crash
  \/ Reconnect
  \/ \E o \in orphans : OrphanApplies(o)
  \/ \E o \in orphans : OrphanDies(o)
  \/ \E f \in Files, i \in Inodes : OtherClientCreates(f, i)

Spec == Init /\ [][Next]_vars

\* Every operation is answered: by the server, by the PDU timeout the tick
\* timer drives, or by the event loop that delivers queued failures.
Fairness == WF_vars(\E c \in calls : Deliver(c) \/ Timeout(c))

FairSpec == Spec /\ Fairness
-----------------------------------------------------------------------------
TypeOK ==
  /\ jobs \in Seq(Job) /\ current \in Nat /\ step \in Step
  /\ isRunning => current \in DOMAIN jobs
  /\ opId \in Nat /\ succeeded \in Nat /\ failed \in Nat
  /\ connected \in BOOLEAN /\ nextOpId \in Nat
  /\ calls \subseteq Call
  /\ alive \in BOOLEAN
  /\ fs \in [Path -> Entry]
  /\ orphans \subseteq [id : Nat, op : Op]
  /\ ran \in Seq(Job) /\ outcome \in Seq(Message)
  /\ before \in [Path -> Entry]
  /\ unknown \subseteq Files /\ stale \subseteq Files /\ runs \in Nat

\* "The victim's data still exists (under the tmp name) until the link is in
\* place" (LinkRunner.h): a file leaves its name only for its aside name, and
\* leaves the aside name only back to its name or while its name is occupied,
\* which after a reported link means occupied by the link.  No interleaving
\* of late, lost or repeated operations and crashes may break this.
KeptAcross(f) ==
  /\ fs[Name(f)] # NoFile /\ fs'[Name(f)] # fs[Name(f)]
       => fs'[Tmp(f)] = fs[Name(f)]
  /\ fs[Tmp(f)] # NoFile /\ fs'[Tmp(f)] # fs[Tmp(f)]
       => \/ fs'[Name(f)] = fs[Tmp(f)]
          \/ fs[Name(f)] # NoFile /\ fs'[Name(f)] = fs[Name(f)]

VictimDataKept == [][\A f \in Files : KeptAcross(f)]_vars

\* Job k of the last run is about files that no operation abandoned before
\* that run could still touch.
Undisturbed(k) == ran[k].victim \notin stale /\ ran[k].primary \notin stale

\* The victim's name holds the file the primary's name held when the run
\* began (or some file, if the primary did not exist then).
IsLinked(j) ==
  /\ fs[Name(j.victim)] # NoFile
  /\ before[Name(j.primary)] # NoFile
       => fs[Name(j.victim)] = before[Name(j.primary)]

HoldsOriginal(f) ==
  before[Name(f)] # NoFile => fs[Name(f)] = before[Name(f)]

\* A row that says "replaced with hard link" names the file that was its
\* primary when the user confirmed the run, nothing is left aside, and later
\* jobs of the run do not undo that.
ReplacedIsLinked ==
  \A k \in DOMAIN outcome : outcome[k] = "replaced" /\ Undisturbed(k)
    => IsLinked(ran[k]) /\ fs[Tmp(ran[k].victim)] = NoFile

\* A row that says "(original restored)" has its original back under its own
\* name, also when the link it gave up on reaches the server afterwards.
RestoredIsOriginal ==
  \A k \in DOMAIN outcome : outcome[k] = "restored" /\ Undisturbed(k)
    => HoldsOriginal(ran[k].victim) /\ fs[Tmp(ran[k].victim)] = NoFile

\* A row that says only "failed: ..." has its victim untouched, provided the
\* server did answer the rename.
RenameRefusedIsUntouched ==
  \A k \in DOMAIN outcome :
    /\ outcome[k] = "renameFailed" /\ Undisturbed(k)
    /\ ran[k].victim \notin unknown
    => /\ HoldsOriginal(ran[k].victim)
       /\ fs[Tmp(ran[k].victim)] = before[Tmp(ran[k].victim)]

\* tst_linkrunner.cpp: "If even the first step (rename) fails, the victim is
\* untouched."  The code reports the same failure for a rename whose answer
\* was lost, which the server may have carried out.
RenameFailedIsUntouched ==
  \A k \in DOMAIN outcome : outcome[k] = "renameFailed" /\ Undisturbed(k)
    => HoldsOriginal(ran[k].victim)

\* At every moment of a run, and after it or after a crash, a victim's
\* original is under its name or its aside name, or the link has replaced it.
VictimRecoverable ==
  \A k \in DOMAIN ran :
    LET v == ran[k].victim IN
    Undisturbed(k) /\ before[Name(v)] # NoFile
      => \/ before[Name(v)] \in {fs[Name(v)], fs[Tmp(v)]}
         \/ IsLinked(ran[k])

\* What the panel is built on: each job is reported once and in order, the
\* run ends with its last job, and nothing is left of it then.  No late or
\* foreign completion makes the runner report, skip or repeat a job.
Run == INSTANCE LinkRun WITH reported <- IF isRunning THEN outcome ELSE <<>>
ImplementsLinkRun == Run!Spec

\* A run comes to its end with a result for every job and totals that match,
\* unless its runner is deleted or dies first.
RunEnds ==
  isRunning ~> \/ ~alive
               \/ ~isRunning /\ Len(outcome) = Len(ran)
                             /\ succeeded + failed = Len(ran)
-----------------------------------------------------------------------------
(***************************************************************************)
(* The inductive invariant behind VictimDataKept.  What could destroy the  *)
(* aside copy is an operation that takes it from its aside name and that   *)
(* nobody waits for any more; so the invariant speaks of every operation   *)
(* whose fate at the server is open, abandoned ones included.              *)
(***************************************************************************)
Unresolved == Orphans(calls) \cup orphans

\* Those that would take away what is at f's aside name.
Leaving(f) == {u \in Unresolved : u.op.from = Tmp(f)}

\* Ids are fresh and tell open operations apart.
IdInv ==
  /\ opId < nextOpId
  /\ \A c \in calls : c.id < nextOpId
  /\ \A o \in orphans : o.id < nextOpId
  /\ \A c, d \in calls : c.id = d.id => c = d
  /\ \A c \in calls, o \in orphans : c.stage = "sent" => c.id # o.id

\* The runner only ever issues the operations of its steps, and the open call
\* that carries its id is the one its step waits for.
OpInv ==
  /\ \A u \in Unresolved : \E s \in Step, j \in Job : u.op = StepOp(s, j)
  /\ isRunning => \A c \in calls : c.id = opId => c.op = StepOp(step, job)

\* An open operation that leaves an aside name is alone in that, finds the
\* aside copy there, and if it is a removal the name is occupied.
AsideInv ==
  \A f \in Files : \A u \in Leaving(f) :
    /\ fs[Tmp(f)] # NoFile
    /\ u.op.kind = "remove" => fs[Name(f)] # NoFile
    /\ \A w \in Leaving(f) : w = u

\* v's copy is aside and no open operation will take it away.
SafelyAside(v) == fs[Tmp(v)] # NoFile /\ Leaving(v) = {}

\* The runner is about to issue such an operation only when that is safe.
StepInv ==
  isRunning =>
    /\ step = "Link" => SafelyAside(job.victim)
    /\ \A c \in calls : c.id = opId /\ c.stage = "applied" =>
         /\ step = "Rename" => SafelyAside(job.victim)
         /\ step = "Link" => fs[Name(job.victim)] # NoFile

KeepInv == TypeOK /\ IdInv /\ OpInv /\ AsideInv /\ StepInv

-----------------------------------------------------------------------------
(***************************************************************************)
(* The safety half of RunEnds: a running runner is always owed an answer,  *)
(* and the answers a run can still take are bounded, so a run only fails   *)
(* to end if an answer that is owed never comes.                           *)
(***************************************************************************)
Awaited == {c \in calls : c.id = opId}

\* A runner that waits has a call to wait for.
AnswerOwed == isRunning => Awaited # {}

\* Runner state and session state that fit each other at every moment.
IInv == KeepInv /\ AnswerOwed

\* The most operations the run may still need, the one under way included.
StepsLeft == CASE step = "Rename" -> 3 [] step = "Link" -> 2
               [] step \in {"Unlink", "UndoRename"} -> 1

OperationsLeft == IF isRunning THEN 3 * (Len(jobs) - current) + StepsLeft ELSE 0

\* A step of the program either leaves a running runner waiting for the same
\* answer, or leaves it with fewer operations to go: none is repeated or
\* retried, and a run takes at most three for each of its jobs.
RunAdvances ==
  [][isRunning => \/ OperationsLeft' < OperationsLeft
                  \/ UNCHANGED <<jobs, current, step, opId>>]_vars

-----------------------------------------------------------------------------
(***************************************************************************)
(* The inductive invariant behind the runner's reports.  It follows each   *)
(* victim that nothing of before the run disturbs through the phases of    *)
(* its job, with the operations that may still reach it.                   *)
(***************************************************************************)
Open(v) == {u \in Unresolved : Victim(u.op) = v}

Alone(v) == \A u, w \in Open(v) : u = w

OpenOnly(steps, j) == \A u \in Open(j.victim) : \E s \in steps : u.op = StepOp(s, j)

Untouched(j) ==
  /\ HoldsOriginal(j.victim) /\ fs[Tmp(j.victim)] = before[Tmp(j.victim)]
  /\ OpenOnly({"Rename"}, j) /\ Alone(j.victim)

\* The name may have been taken again: by a late link, or by somebody else.
MovedAside(j) ==
  /\ fs[Tmp(j.victim)] # NoFile
  /\ before[Name(j.victim)] # NoFile => fs[Tmp(j.victim)] = before[Name(j.victim)]
  /\ OpenOnly({"Link", "UndoRename"}, j)

Linked(j) == IsLinked(j) /\ OpenOnly({"Unlink"}, j)

Restored(j) ==
  /\ HoldsOriginal(j.victim) /\ fs[Name(j.victim)] # NoFile
  /\ fs[Tmp(j.victim)] = NoFile
  /\ OpenOnly({"Link"}, j)

InPhase(j) == Untouched(j) \/ MovedAside(j) \/ Linked(j) \/ Restored(j)

\* Requests wait at the server only for the runner's current step, and the
\* run is the one in the history.
CallInv ==
  /\ \A c \in calls : c.stage # "queued" => connected /\ isRunning /\ c.id = opId
  /\ isRunning => jobs = ran /\ current = Len(outcome) + 1
  /\ ConflictFree(ran)

\* What is open is about a victim of an operation abandoned before the run,
\* or of a job that has begun; primaries are nobody's victims.
OpenInv ==
  /\ \A u \in Unresolved :
       \/ Victim(u.op) \in stale
       \/ \E k \in DOMAIN ran : k <= Len(outcome) + 1 /\ ran[k].victim = Victim(u.op)
  /\ \A k \in DOMAIN ran : Undisturbed(k) => HoldsOriginal(ran[k].primary)

PhaseInv ==
  \A k \in DOMAIN ran : Undisturbed(k) =>
    LET j == ran[k] IN
    /\ InPhase(j)
    /\ k > Len(outcome) + 1 => Untouched(j)

\* What step and answer tell the runner of the current victim.
StepTells(j, c) ==
  /\ step = "Rename" =>
       /\ OpenOnly({"Rename"}, j)
       /\ c.stage = "sent" => Untouched(j)
       /\ c.stage = "refused" \/ (c.stage = "queued" /\ j.victim \notin unknown)
            => Untouched(j) /\ Open(j.victim) = {}
       /\ c.stage = "applied" => MovedAside(j) /\ Open(j.victim) = {}
  /\ step = "Link" =>
       /\ MovedAside(j) /\ OpenOnly({"Link"}, j) /\ Alone(j.victim)
       /\ c.stage = "applied" => IsLinked(j) /\ Open(j.victim) = {}
  /\ step = "Unlink" =>
       /\ Linked(j)
       /\ c.stage = "applied" => fs[Tmp(j.victim)] = NoFile /\ Open(j.victim) = {}
  /\ step = "UndoRename" /\ c.stage = "applied" => Restored(j)

RunnerInv ==
  isRunning /\ Undisturbed(current) =>
    \A c \in calls : c.id = opId => StepTells(job, c)

\* What a report says of its victim, for good.
ReportTells(j, message) ==
  /\ message = "replaced" =>
       Linked(j) /\ fs[Tmp(j.victim)] = NoFile /\ Open(j.victim) = {}
  /\ message = "restored" => Restored(j)
  /\ message = "renameFailed" /\ j.victim \notin unknown =>
       Untouched(j) /\ Open(j.victim) = {}

ToldInv ==
  /\ Len(outcome) <= Len(ran)
  /\ \A k \in DOMAIN outcome : Undisturbed(k) => ReportTells(ran[k], outcome[k])

\* Whatever is late, lost or repeated: each victim is in a phase its job
\* accounts for, the runner's step fits that phase, and its reports stay true.
ReportInv == CallInv /\ OpenInv /\ PhaseInv /\ RunnerInv /\ ToldInv
=============================================================================
