------------------------------- MODULE LinkRun -------------------------------
(***************************************************************************)
(* What the owner of a LinkRunner can count on, without a word of how a    *)
(* job is done: a run takes its jobs in order, reports each once, and ends *)
(* with the last; or it is gone, with the panel or the process.  Nothing   *)
(* of a run is left when it is over, so the next one starts afresh.        *)
(*                                                                         *)
(* LinkRunner implements this, and MatchFinderPanel is built on it.        *)
(***************************************************************************)
EXTENDS Naturals, Sequences

CONSTANT Message  \* what may be reported of a job; one value is "replaced"

VARIABLES jobs,      \* the jobs of the run, <<>> between runs
          current,   \* the job under way, 0 between runs
          reported   \* what this run has reported, one message per job

vars == <<jobs, current, reported>>

Active == jobs # <<>>

Init == jobs = <<>> /\ current = 0 /\ reported = <<>>

Begin == ~Active /\ jobs' # <<>> /\ current' = 1 /\ reported' = <<>>

Over == jobs' = <<>> /\ current' = 0 /\ reported' = <<>>

\* The results of the run once the current job is reported too.
Results(message) == Append(reported, message)

\* jobFinished, followed by the start of the next job or by allFinished.
Finish(message) ==
  /\ Active
  /\ \/ /\ current < Len(jobs)
        /\ current' = current + 1 /\ reported' = Results(message)
        /\ UNCHANGED jobs
     \/ current >= Len(jobs) /\ Over

Gone == Over

Next == Begin \/ (\E message \in Message : Finish(message)) \/ Gone

Spec == Init /\ [][Next]_vars
=============================================================================
