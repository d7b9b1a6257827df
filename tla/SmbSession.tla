----------------------------- MODULE SmbSession -----------------------------
(***************************************************************************)
(* SmbSession (src/src/smb/SmbSession.cpp): one connection to an SMB share *)
(* on libsmb2's asynchronous interface.  Everything runs on the GUI        *)
(* thread, so what interleaves are events: user actions, timers, socket    *)
(* notifications that enter smb2_service(), and the callbacks made from    *)
(* inside it, whose handlers call back into the session.                   *)
(*                                                                         *)
(* Three kinds of requests: listings and stats, of which only the fate is  *)
(* told apart, and mutating operations, which carry ids.  What libsmb2     *)
(* answers and when is left open.                                          *)
(***************************************************************************)
EXTENDS Naturals

CONSTANTS Lists,    \* listing requests that may be made
          Stats,    \* stat requests that may be made
          MaxOps    \* bound on the mutating operations requested

ASSUME SmbSessionAssumption == MaxOps \in Nat

VARIABLES
  state,             \* m_state
  lookup,            \* the host lookup: "none", "running" (m_lookupId # -1), or
                     \* "stale": aborted with its result already posted
  ctx,               \* m_ctx exists
  connecting,        \* smb2_connect_share_async is not answered yet
  where,             \* what is on the stack: nothing ("idle"), smb2_service(),
                     \* a callback it made, or a failure with its stateChanged
                     \* out and its errorOccurred to come ("failing")
  teardownPending,   \* m_teardownPending
  pendingError,      \* m_pendingError is not empty
  lastSignal,        \* the state last announced by stateChanged, or "Error":
                     \* what MainWindow's status bar says of the session
  failed,            \* history: the attempt or connection last made has failed
  nextOpId,          \* m_nextOpId
  ops, lists, stats  \* the fate of every request made

requests == <<ops, lists, stats>>
signals == <<lastSignal, failed>>
vars == <<state, lookup, ctx, connecting, where, teardownPending, pendingError,
          signals, nextOpId, requests>>

OpIds == 1..MaxOps

\* "pending": known to libsmb2; "queued": its failure waits in the event
\* loop; "delayed": held back by the stat throttle; "dropped": freed by a
\* teardown without an answer.
OpFate   == {"unused", "pending", "queued", "answered"}
ReadFate == {"unused", "delayed", "pending", "answered", "dropped"}

inService == where \in {"service", "callback"}

\* Code outside the session runs between events, inside a callback, or on a
\* stateChanged that an errorOccurred follows.
CallersRun == where \in {"idle", "callback", "failing"}

Init ==
  /\ state = "Disconnected" /\ lookup = "none" /\ ctx = FALSE /\ connecting = FALSE
  /\ where = "idle" /\ teardownPending = FALSE /\ pendingError = FALSE
  /\ lastSignal = "Disconnected" /\ failed = FALSE
  /\ nextOpId = 1
  /\ ops = [id \in OpIds |-> "unused"]
  /\ lists = [r \in Lists |-> "unused"] /\ stats = [r \in Stats |-> "unused"]

-----------------------------------------------------------------------------
Flushed(fates, to) ==
  [r \in DOMAIN fates |-> IF fates[r] = "pending" THEN to ELSE fates[r]]

\* Mutants of Teardown: it forgets the flags, the stats, the operations.
TeardownKeepsFlags ==
  /\ lookup' = "none" /\ ctx' = FALSE /\ connecting' = FALSE
  /\ ops' = Flushed(ops, "queued")
  /\ lists' = Flushed(lists, "dropped") /\ stats' = Flushed(stats, "dropped")
  /\ UNCHANGED <<teardownPending, pendingError>>

TeardownKeepsStats ==
  /\ lookup' = "none" /\ ctx' = FALSE /\ connecting' = FALSE
  /\ teardownPending' = FALSE /\ pendingError' = FALSE
  /\ ops' = Flushed(ops, "queued") /\ lists' = Flushed(lists, "dropped")
  /\ UNCHANGED stats

TeardownLosesOps ==
  /\ lookup' = "none" /\ ctx' = FALSE /\ connecting' = FALSE
  /\ teardownPending' = FALSE /\ pendingError' = FALSE
  /\ lists' = Flushed(lists, "dropped") /\ stats' = Flushed(stats, "dropped")
  /\ UNCHANGED ops

\* SmbSession::teardown.  Destroying the context flushes the callbacks of
\* pending requests: listings and stats are only freed, operations queue
\* their failure.  The abort of a lookup may come too late for its result.
Teardown ==
  /\ lookup' \in IF lookup = "running" THEN {"none", "stale"} ELSE {lookup}
  /\ ctx' = FALSE /\ connecting' = FALSE
  /\ teardownPending' = FALSE /\ pendingError' = FALSE
  /\ ops' = Flushed(ops, "queued")
  /\ lists' = Flushed(lists, "dropped") /\ stats' = Flushed(stats, "dropped")

-----------------------------------------------------------------------------
\* setState: announces a change, and nothing else.
SetState(s) ==
  /\ state' = s
  /\ lastSignal' = IF state = s THEN lastSignal ELSE s

\* A connecting session fails before libsmb2 is at work: stateChanged goes
\* out, errorOccurred is next.
FailToStart ==
  /\ state' = "Disconnected" /\ lastSignal' = "Disconnected"
  /\ failed' = TRUE /\ where' = "failing"
  /\ UNCHANGED <<ctx, connecting>>

\* startSmbConnect, called in the given state: the context cannot be set up,
\* or libsmb2 now works on the connection.
StartSmbConnect(s) ==
  \/ FailToStart
  \/ /\ SetState(s) /\ failed' = FALSE
     /\ ctx' = TRUE /\ connecting' = TRUE
     /\ UNCHANGED where

\* connectToShare, from MainWindow::onConnectActionTriggered, with a host
\* that is a name or an address.  The password prompt comes first; its event
\* loop hands over whatever result was posted by then.
ConnectToShare ==
  /\ where = "idle" /\ state = "Disconnected" /\ lookup # "stale"
  /\ \/ /\ lookup' = "running" /\ SetState("Connecting") /\ failed' = FALSE
        /\ UNCHANGED <<where, ctx, connecting>>
     \/ UNCHANGED lookup /\ StartSmbConnect("Connecting")
  /\ UNCHANGED <<teardownPending, pendingError, nextOpId, requests>>

\* Mutant of OnHostResolved: it trusts the abort of the lookup.
StaleResultUsed ==
  /\ where = "idle" /\ lookup # "none"
  /\ lookup' = "none"
  /\ StartSmbConnect(state)
  /\ UNCHANGED <<teardownPending, pendingError, nextOpId, requests>>

\* onHostResolved: of a lookup given up, unknown host (which ends like a
\* context that cannot be set up), or an address.
OnHostResolved ==
  /\ where = "idle" /\ lookup # "none"
  /\ lookup' = "none"
  /\ IF state # "Connecting" \/ ctx
       THEN UNCHANGED <<state, signals, where, ctx, connecting>>
       ELSE FailToStart \/ StartSmbConnect(state)
  /\ UNCHANGED <<teardownPending, pendingError, nextOpId, requests>>

\* Mutant of DropConnection: it does not wait for smb2_service() to unwind.
DropAtOnce ==
  SetState("Disconnected") /\ Teardown /\ UNCHANGED <<where, failed, nextOpId>>

\* Give up the connection: at once, or when smb2_service() has unwound.
DropConnection ==
  /\ SetState("Disconnected")
  /\ IF inService
       THEN /\ teardownPending' = TRUE
            /\ UNCHANGED <<lookup, ctx, connecting, pendingError, requests>>
       ELSE Teardown
  /\ UNCHANGED <<where, failed, nextOpId>>

\* abortConnect; a user action, as there are no callbacks before the one that
\* ends the attempt.
AbortConnect == where = "idle" /\ state = "Connecting" /\ DropConnection

\* disconnectFromShare.
DisconnectFromShare == CallersRun /\ state = "Connected" /\ DropConnection

-----------------------------------------------------------------------------
\* listDirectory and statFileNow: fail in the call itself when there is no
\* connection or libsmb2 declines, else wait for the callback.
ReadOutcome ==
  IF state # "Connected" THEN {"answered"} ELSE {"answered", "pending"}

ListDirectory(r) ==
  /\ CallersRun /\ lists[r] = "unused"
  /\ \E fate \in ReadOutcome : lists' = [lists EXCEPT ![r] = fate]
  /\ UNCHANGED <<state, lookup, ctx, connecting, where, teardownPending,
                 pendingError, signals, nextOpId, ops, stats>>

\* statFile; the throttle (HLM_STAT_DELAY_MS) may hold a stat back.
StatFile(r) ==
  /\ CallersRun /\ stats[r] = "unused"
  /\ \E fate \in ReadOutcome \cup (IF state = "Connected" THEN {"delayed"} ELSE {}) :
       stats' = [stats EXCEPT ![r] = fate]
  /\ UNCHANGED <<state, lookup, ctx, connecting, where, teardownPending,
                 pendingError, signals, nextOpId, ops, lists>>

\* Mutant of StatFileNow: without a connection it returns in silence.
ThrottledStatForgotten(r) ==
  /\ where = "idle" /\ stats[r] = "delayed"
  /\ state = "Connected" /\ \E fate \in ReadOutcome : stats' = [stats EXCEPT ![r] = fate]
  /\ UNCHANGED <<state, lookup, ctx, connecting, where, teardownPending,
                 pendingError, signals, nextOpId, ops, lists>>

\* The throttle's timer fires, whatever has become of the connection.
StatFileNow(r) ==
  /\ where = "idle" /\ stats[r] = "delayed"
  /\ \E fate \in ReadOutcome : stats' = [stats EXCEPT ![r] = fate]
  /\ UNCHANGED <<state, lookup, ctx, connecting, where, teardownPending,
                 pendingError, signals, nextOpId, ops, lists>>

\* Mutant of NewOp: an operation may fail inside the call, like a read.
FailsInTheCall == IF state # "Connected" THEN {"answered"} ELSE {"answered", "pending"}

\* What a new operation starts as: pending at libsmb2 (newOpRequest), or
\* failed already, with the completion queued (failOpLater).
NewOp == IF state # "Connected" THEN {"queued"} ELSE {"queued", "pending"}

\* renameFile, createHardLink, removeFile.
SubmitOp ==
  /\ CallersRun /\ nextOpId \in OpIds
  /\ \E fate \in NewOp : ops' = [ops EXCEPT ![nextOpId] = fate]
  /\ nextOpId' = nextOpId + 1
  /\ UNCHANGED <<state, lookup, ctx, connecting, where, teardownPending,
                 pendingError, signals, lists, stats>>

\* The event loop delivers a queued operationFailed.
QueuedFailure(id) ==
  /\ where = "idle" /\ ops[id] = "queued"
  /\ ops' = [ops EXCEPT ![id] = "answered"]
  /\ UNCHANGED <<state, lookup, ctx, connecting, where, teardownPending,
                 pendingError, signals, nextOpId, lists, stats>>

-----------------------------------------------------------------------------
\* service(): a socket is ready or the tick timer fires.
ServiceBegin ==
  /\ where = "idle" /\ ctx
  /\ where' = "service"
  /\ UNCHANGED <<state, lookup, ctx, connecting, teardownPending, pendingError,
                 signals, nextOpId, requests>>

\* Mutant of OnConnectDone: a failure is noted, but no teardown asked for.
ConnectErrorOnlyNoted ==
  /\ where = "service" /\ connecting
  /\ connecting' = FALSE
  /\ \/ /\ SetState("Connected") /\ where' = "callback"
        /\ UNCHANGED <<pendingError, failed>>
     \/ /\ pendingError' = TRUE /\ failed' = TRUE
        /\ UNCHANGED <<state, lastSignal, where>>
  /\ UNCHANGED <<lookup, ctx, teardownPending, nextOpId, requests>>

\* onConnectDone: success, or an error left for the end of service().
OnConnectDone ==
  /\ where = "service" /\ connecting
  /\ connecting' = FALSE
  /\ \/ /\ SetState("Connected")
        /\ where' = "callback"
        /\ UNCHANGED <<teardownPending, pendingError, failed>>
     \/ /\ teardownPending' = TRUE /\ pendingError' = TRUE /\ failed' = TRUE
        /\ UNCHANGED <<state, lastSignal, where>>
  /\ UNCHANGED <<lookup, ctx, nextOpId, requests>>

\* onOpendirDone, onStatDone, onOpDone outside a teardown: the server's
\* reply or the PDU timeout.
OnOpendirDone(r) ==
  /\ where = "service" /\ lists[r] = "pending"
  /\ lists' = [lists EXCEPT ![r] = "answered"]
  /\ where' = "callback"
  /\ UNCHANGED <<state, lookup, ctx, connecting, teardownPending, pendingError,
                 signals, nextOpId, ops, stats>>

OnStatDone(r) ==
  /\ where = "service" /\ stats[r] = "pending"
  /\ stats' = [stats EXCEPT ![r] = "answered"]
  /\ where' = "callback"
  /\ UNCHANGED <<state, lookup, ctx, connecting, teardownPending, pendingError,
                 signals, nextOpId, ops, lists>>

OnOpDone(id) ==
  /\ where = "service" /\ ops[id] = "pending"
  /\ ops' = [ops EXCEPT ![id] = "answered"]
  /\ where' = "callback"
  /\ UNCHANGED <<state, lookup, ctx, connecting, teardownPending, pendingError,
                 signals, nextOpId, lists, stats>>

\* The handlers of a callback are done.
CallbackReturns ==
  /\ where = "callback"
  /\ where' = "service"
  /\ UNCHANGED <<state, lookup, ctx, connecting, teardownPending, pendingError,
                 signals, nextOpId, requests>>

\* Mutant of ServiceEnd: the error goes out before the change of the state.
ErrorBeforeState ==
  /\ where = "service" /\ where' = "idle"
  /\ \E broken \in BOOLEAN :
       /\ failed' = (failed \/ broken)
       /\ IF broken \/ teardownPending
            THEN /\ Teardown
                 /\ state' = "Disconnected"
                 /\ lastSignal' = IF state # "Disconnected" THEN "Disconnected"
                                  ELSE IF broken \/ pendingError THEN "Error"
                                  ELSE lastSignal
            ELSE UNCHANGED <<state, lastSignal, lookup, ctx, connecting,
                             teardownPending, pendingError, requests>>
  /\ UNCHANGED nextOpId

\* smb2_service() returns, with an error or without, and service() goes on to
\* the teardown that is due.  The error, noted by a callback or found here, is
\* copied before the teardown and emitted after the change of the state.
ServiceEnd ==
  /\ where = "service"
  /\ \E broken \in BOOLEAN :
       /\ failed' = (failed \/ broken)
       /\ IF broken \/ teardownPending
            THEN /\ Teardown /\ SetState("Disconnected")
                 /\ where' = IF broken \/ pendingError THEN "failing" ELSE "idle"
            ELSE /\ where' = "idle"
                 /\ UNCHANGED <<state, lastSignal, lookup, ctx, connecting,
                                teardownPending, pendingError, requests>>
  /\ UNCHANGED nextOpId

\* errorOccurred, the handlers of stateChanged having returned.
ErrorOccurred ==
  /\ where = "failing"
  /\ where' = "idle" /\ lastSignal' = "Error"
  /\ UNCHANGED <<state, lookup, ctx, connecting, teardownPending, pendingError,
                 failed, nextOpId, requests>>

-----------------------------------------------------------------------------
Next ==
  \/ ConnectToShare \/ OnHostResolved \/ AbortConnect \/ DisconnectFromShare
  \/ \E r \in Lists : ListDirectory(r)
  \/ \E r \in Stats : StatFile(r)
  \/ \E r \in Stats : StatFileNow(r)
  \/ SubmitOp
  \/ \E id \in OpIds : QueuedFailure(id)
  \/ ServiceBegin \/ OnConnectDone
  \/ \E r \in Lists : OnOpendirDone(r)
  \/ \E r \in Stats : OnStatDone(r)
  \/ \E id \in OpIds : OnOpDone(id)
  \/ CallbackReturns \/ ServiceEnd \/ ErrorOccurred

Spec == Init /\ [][Next]_vars

\* While there is a context the tick timer enters service() again and again;
\* what the event loop or a timer owes is done at some time; libsmb2 ends a
\* request by its reply or its timeout (kPduTimeoutSeconds, the TCP phase of
\* a connect by the OS) in one of the passes through smb2_service().
Fairness ==
  /\ WF_vars(ServiceBegin) /\ WF_vars(CallbackReturns) /\ WF_vars(ServiceEnd)
  /\ WF_vars(ErrorOccurred)
  /\ WF_vars(OnHostResolved) /\ SF_vars(OnConnectDone)
  /\ \A id \in OpIds : SF_vars(QueuedFailure(id)) /\ SF_vars(OnOpDone(id))
  /\ \A r \in Lists : SF_vars(OnOpendirDone(r))
  /\ \A r \in Stats : SF_vars(StatFileNow(r)) /\ SF_vars(OnStatDone(r))

FairSpec == Spec /\ Fairness
-----------------------------------------------------------------------------
TypeOK ==
  /\ state \in {"Disconnected", "Connecting", "Connected"}
  /\ lookup \in {"none", "running", "stale"}
  /\ ctx \in BOOLEAN /\ connecting \in BOOLEAN
  /\ where \in {"idle", "service", "callback", "failing"}
  /\ teardownPending \in BOOLEAN /\ pendingError \in BOOLEAN
  /\ lastSignal \in {"Disconnected", "Connecting", "Connected", "Error"}
  /\ failed \in BOOLEAN
  /\ nextOpId \in Nat
  /\ ops \in [OpIds -> OpFate]
  /\ lists \in [Lists -> ReadFate] /\ stats \in [Stats -> ReadFate]

\* Between events the libsmb2 context exists exactly while the session is
\* connected or past the host lookup of an attempt.  No order of aborts,
\* disconnects from inside callbacks, late lookup results and errors leaves a
\* context behind or loses one that is in use.
ContextMatchesState ==
  where = "idle" =>
    /\ ctx <=> state = "Connected" \/ (state = "Connecting" /\ lookup # "running")
    /\ lookup = "running" => state = "Connecting"
    /\ connecting <=> ctx /\ state = "Connecting"

\* "left stale, they would tear down the *next* connection on its first
\* service() pass" (teardown): no flag survives the connection it was set for.
NoStaleTeardown ==
  where = "idle" \/ ~ctx => ~teardownPending /\ ~pendingError

\* "Must never run while inside smb2_service()" (teardown): the context is
\* destroyed only as smb2_service() has unwound, also when the handler of a
\* callback disconnects.
NeverDestroyedInService == [][ctx /\ ~ctx' => ~inService']_vars

\* "a failed attempt emits stateChanged(Disconnected) followed by
\* errorOccurred()" (SmbSession.h), so that "the error lands after (and
\* overwrites) the plain "Disconnected." message" (MainWindow.cpp).  When an
\* event is over, the last signal is the error if the attempt or connection
\* last made has failed, at whatever point, and announces the state if not: no
\* failure ends in silence or under a later stateChanged, and no attempt given
\* up by the user, or made after a failure, is reported as failed.
EndIsExplained ==
  where = "idle" => lastSignal = IF failed THEN "Error" ELSE state

\* Nothing waits for an answer of a connection that is gone: a teardown
\* settles every request that was pending.
NothingOutlivesContext ==
  ~ctx => /\ \A id \in OpIds : ops[id] # "pending"
          /\ \A r \in Lists : lists[r] # "pending"
          /\ \A r \in Stats : stats[r] # "pending"

\* The ids whose completion is still to come, and what SessionOps says of them.
Owed == {id \in OpIds : ops[id] \in {"pending", "queued"}}
Ops  == INSTANCE SessionOps WITH Ids <- OpIds, owed <- Owed

\* renameFile, createHardLink and removeFile keep the promise of SessionOps,
\* teardowns inside and outside callbacks included: each id is completed at
\* most once, in a step of its own and never inside the call.
ImplementsSessionOps == Ops!Spec

\* ... and each is completed in the end, whatever becomes of the connection.
OpsCompleted == Ops!FairSpec

\* Every listing and stat leaves the session in the end, answered or dropped
\* by a teardown; none is waited for by libsmb2 or the throttle for ever.
ReadsSettle ==
  /\ \A r \in Lists : lists[r] = "pending" ~> lists[r] # "pending"
  /\ \A r \in Stats : stats[r] \in {"pending", "delayed"}
                        ~> stats[r] \notin {"pending", "delayed"}

\* An attempt to connect ends, in a connection or without one, though the
\* failure inside a callback is only noted there and acted on later.
AttemptEnds == state = "Connecting" ~> state # "Connecting"

\* SmbSession.h: a listing is "Answered by directoryListed() or
\* directoryListFailed() with the same path".  The code drops the listings a
\* teardown finds pending without a signal.
ListAnswered ==
  \A r \in Lists : lists[r] = "pending" ~> lists[r] = "answered"
-----------------------------------------------------------------------------
(***************************************************************************)
(* The inductive invariant behind the safety properties: ContextMatches-   *)
(* State and NoStaleTeardown, with what holds inside smb2_service().       *)
(***************************************************************************)

\* A lookup runs before the context exists, and is given up with the attempt.
LookupInv ==
  /\ lookup = "running" => state = "Connecting" /\ ~ctx
  /\ lookup = "stale" => state = "Disconnected" /\ ~ctx

\* A context the state has no use for has its teardown pending.
ContextInv ==
  /\ state = "Connected" => ctx
  /\ state = "Connecting" => ctx \/ lookup = "running"
  /\ connecting => ctx /\ state = "Connecting"
  /\ ctx /\ ~connecting /\ state # "Connected" => teardownPending

\* A pending teardown is carried out before service() is left.
TeardownInv ==
  /\ inService => ctx
  /\ teardownPending => inService
  /\ pendingError => teardownPending

\* EndIsExplained, with what holds on the way there: inside smb2_service() a
\* failure is known by m_pendingError alone, and is not announced.
SignalInv ==
  /\ EndIsExplained
  /\ inService => lastSignal = state /\ (failed <=> pendingError)
  /\ where = "failing" => failed
  /\ failed /\ ~inService => state = "Disconnected"

IInv == /\ TypeOK /\ LookupInv /\ ContextInv /\ TeardownInv /\ SignalInv
        /\ NothingOutlivesContext
=============================================================================
