-------------------------- MODULE SmbSessionProofs --------------------------
(***************************************************************************)
(* Proofs about SmbSession, for any sets of listings and stats and any     *)
(* number of operations and connections:                                   *)
(*   - the invariant IInv is inductive, and implies that a context exists  *)
(*     exactly when the state calls for one and that no flag survives its  *)
(*     connection;                                                         *)
(*   - what it signals explains how each attempt and connection ended;     *)
(*   - the context is never destroyed inside smb2_service();               *)
(*   - the session implements SessionOps.                                  *)
(***************************************************************************)
EXTENDS SmbSession, TLAPS

USE SmbSessionAssumption

\* The initial state satisfies the invariant.
LEMMA InitIInv == Init => IInv
<1> SUFFICES ASSUME Init PROVE IInv
  OBVIOUS
<1>1. TypeOK
  BY DEF Init, TypeOK, OpFate, ReadFate
<1>2. LookupInv /\ ContextInv /\ TeardownInv /\ SignalInv
  BY DEF Init, LookupInv, ContextInv, TeardownInv, SignalInv, EndIsExplained, inService
<1>3. NothingOutlivesContext
  BY DEF Init, NothingOutlivesContext
<1> QED
  BY <1>1, <1>2, <1>3 DEF IInv

\* A teardown settles what was pending and leaves well-typed requests behind.
LEMMA TeardownSettles ==
  ASSUME TypeOK, Teardown
  PROVE  /\ ops' \in [OpIds -> OpFate]
         /\ lists' \in [Lists -> ReadFate] /\ stats' \in [Stats -> ReadFate]
         /\ \A id \in OpIds : ops'[id] # "pending"
         /\ \A r \in Lists : lists'[r] # "pending"
         /\ \A r \in Stats : stats'[r] # "pending"
BY DEF TypeOK, Teardown, Flushed, OpFate, ReadFate

\* The variables keep their types.
LEMMA TypeStep ==
  ASSUME TypeOK, [Next]_vars
  PROVE  TypeOK'
<1> USE DEF TypeOK, signals
<1>1. CASE ConnectToShare
  BY <1>1 DEF ConnectToShare, StartSmbConnect, FailToStart, SetState, requests
<1>2. CASE OnHostResolved
  BY <1>2 DEF OnHostResolved, StartSmbConnect, FailToStart, SetState, requests
<1>3. CASE AbortConnect
  BY <1>3, TeardownSettles
     DEF AbortConnect, DropConnection, SetState, Teardown, inService, requests
<1>4. CASE DisconnectFromShare
  BY <1>4, TeardownSettles
     DEF DisconnectFromShare, DropConnection, SetState, Teardown, inService, requests
<1>5. ASSUME NEW r \in Lists, ListDirectory(r) PROVE TypeOK'
  BY <1>5 DEF ListDirectory, ReadOutcome, ReadFate
<1>6. ASSUME NEW r \in Stats, StatFile(r) PROVE TypeOK'
  BY <1>6 DEF StatFile, ReadOutcome, ReadFate
<1>7. ASSUME NEW r \in Stats, StatFileNow(r) PROVE TypeOK'
  BY <1>7 DEF StatFileNow, ReadOutcome, ReadFate
<1>8. CASE SubmitOp
  BY <1>8 DEF SubmitOp, NewOp, OpFate
<1>9. ASSUME NEW id \in OpIds, QueuedFailure(id) PROVE TypeOK'
  BY <1>9 DEF QueuedFailure, OpFate
<1>10. CASE ServiceBegin
  BY <1>10 DEF ServiceBegin, requests
<1>11. CASE OnConnectDone
  BY <1>11 DEF OnConnectDone, SetState, requests
<1>12. ASSUME NEW r \in Lists, OnOpendirDone(r) PROVE TypeOK'
  BY <1>12 DEF OnOpendirDone, ReadFate
<1>13. ASSUME NEW r \in Stats, OnStatDone(r) PROVE TypeOK'
  BY <1>13 DEF OnStatDone, ReadFate
<1>14. ASSUME NEW id \in OpIds, OnOpDone(id) PROVE TypeOK'
  BY <1>14 DEF OnOpDone, OpFate
<1>15. CASE CallbackReturns
  BY <1>15 DEF CallbackReturns, requests
<1>16. CASE ServiceEnd
  <2>1. failed' \in BOOLEAN
    BY <1>16, Zenon DEF ServiceEnd
  <2>2. CASE Teardown
    BY <1>16, <2>1, <2>2, TeardownSettles DEF ServiceEnd, SetState, Teardown
  <2>3. CASE UNCHANGED <<state, lastSignal, lookup, ctx, connecting, teardownPending,
                         pendingError, requests>>
    BY <1>16, <2>1, <2>3 DEF ServiceEnd, SetState, requests
  <2> QED
    BY <1>16, <2>2, <2>3 DEF ServiceEnd
<1>17. CASE ErrorOccurred
  BY <1>17 DEF ErrorOccurred, requests
<1>18. CASE UNCHANGED vars
  BY <1>18 DEF vars, requests
<1> QED
  BY <1>1, <1>2, <1>3, <1>4, <1>5, <1>6, <1>7, <1>8, <1>9, <1>10, <1>11,
     <1>12, <1>13, <1>14, <1>15, <1>16, <1>17, <1>18 DEF Next

\* The context, the state, the lookup and the pending teardown stay in step.
LEMMA LifeStep ==
  ASSUME IInv, [Next]_vars
  PROVE  LookupInv' /\ ContextInv' /\ TeardownInv'
<1> USE DEF IInv, TypeOK, LookupInv, ContextInv, TeardownInv, inService
<1>1. CASE ConnectToShare
  BY <1>1 DEF ConnectToShare, StartSmbConnect, FailToStart, SetState
<1>2. CASE OnHostResolved
  BY <1>2 DEF OnHostResolved, StartSmbConnect, FailToStart, SetState
<1>3. CASE AbortConnect
  BY <1>3 DEF AbortConnect, DropConnection, SetState, Teardown
<1>4. CASE DisconnectFromShare
  BY <1>4 DEF DisconnectFromShare, DropConnection, SetState, Teardown, CallersRun,
              SignalInv
<1>5. ASSUME UNCHANGED <<state, lookup, ctx, connecting, where, teardownPending,
                         pendingError>>
      PROVE  LookupInv' /\ ContextInv' /\ TeardownInv'
  BY <1>5
<1>6. CASE ServiceBegin
  BY <1>6 DEF ServiceBegin
<1>7. CASE OnConnectDone
  BY <1>7 DEF OnConnectDone, SetState
<1>8. ASSUME where = "service", where' = "callback",
             UNCHANGED <<state, lookup, ctx, connecting, teardownPending, pendingError>>
      PROVE  LookupInv' /\ ContextInv' /\ TeardownInv'
  BY <1>8
<1>9. CASE CallbackReturns
  BY <1>9 DEF CallbackReturns
<1>10. CASE ServiceEnd
  BY <1>10 DEF ServiceEnd, SetState, Teardown
<1>11. CASE ErrorOccurred
  BY <1>11 DEF ErrorOccurred
<1>12. CASE UNCHANGED vars
  BY <1>5, <1>12 DEF vars
<1> QED
  BY <1>1, <1>2, <1>3, <1>4, <1>5, <1>6, <1>7, <1>8, <1>9, <1>10, <1>11, <1>12
     DEF Next, ListDirectory, StatFile, StatFileNow, SubmitOp, QueuedFailure,
         OnOpendirDone, OnStatDone, OnOpDone

\* What has been signalled and noted stays in step with the state: a failure
\* is announced once stateChanged is out, by the path that ended the attempt.
LEMMA SignalStep ==
  ASSUME IInv, [Next]_vars
  PROVE  SignalInv'
<1> USE DEF IInv, TypeOK, SignalInv, EndIsExplained, inService
<1>1. CASE ConnectToShare
  BY <1>1 DEF ConnectToShare, StartSmbConnect, FailToStart, SetState
<1>2. CASE OnHostResolved
  BY <1>2 DEF OnHostResolved, StartSmbConnect, FailToStart, SetState, signals
<1>3. CASE AbortConnect
  BY <1>3 DEF AbortConnect, DropConnection, SetState, Teardown
<1>4. CASE DisconnectFromShare
  BY <1>4 DEF DisconnectFromShare, DropConnection, SetState, Teardown, CallersRun
<1>5. ASSUME UNCHANGED <<state, signals, where, pendingError>>
      PROVE  SignalInv'
  BY <1>5 DEF signals
<1>6. CASE ServiceBegin
  BY <1>6 DEF ServiceBegin, ContextInv, TeardownInv, signals
<1>7. CASE OnConnectDone
  BY <1>7 DEF OnConnectDone, ContextInv, SetState
<1>8. ASSUME inService, inService', UNCHANGED <<state, signals, pendingError>>
      PROVE  SignalInv'
  BY <1>8 DEF signals
<1>9. CASE ServiceEnd
  BY <1>9 DEF ServiceEnd, SetState, Teardown, TeardownInv
<1>10. CASE ErrorOccurred
  BY <1>10 DEF ErrorOccurred
<1>11. CASE UNCHANGED vars
  BY <1>5, <1>11 DEF vars
<1> QED
  BY <1>1, <1>2, <1>3, <1>4, <1>5, <1>6, <1>7, <1>8, <1>9, <1>10, <1>11
     DEF Next, ListDirectory, StatFile, StatFileNow, SubmitOp, QueuedFailure,
         OnOpendirDone, OnStatDone, OnOpDone, CallbackReturns

\* Whoever takes the context away settles what was pending; whoever makes a
\* request pending has a context.
LEMMA PendingStep ==
  ASSUME IInv, [Next]_vars
  PROVE  NothingOutlivesContext'
<1> USE DEF NothingOutlivesContext
<1>1. ASSUME UNCHANGED requests, ctx => ctx'
      PROVE  NothingOutlivesContext'
  BY <1>1 DEF requests, IInv
<1>2. ASSUME Teardown PROVE NothingOutlivesContext'
  BY <1>2, TeardownSettles DEF IInv
<1>3. state = "Connected" => ctx
  BY DEF IInv, ContextInv
<1>4. CASE ConnectToShare \/ OnHostResolved
  BY <1>1, <1>4 DEF ConnectToShare, OnHostResolved, StartSmbConnect, FailToStart, SetState
<1>5. CASE AbortConnect \/ DisconnectFromShare
  <2>1. Teardown \/ UNCHANGED <<ctx, requests>>
    BY <1>5 DEF AbortConnect, DisconnectFromShare, DropConnection
  <2> QED
    BY <1>1, <1>2, <2>1
<1>6. ASSUME NEW r \in Lists, ListDirectory(r) PROVE NothingOutlivesContext'
  BY <1>3, <1>6 DEF ListDirectory, ReadOutcome, IInv, TypeOK
<1>7. ASSUME NEW r \in Stats, StatFile(r) \/ StatFileNow(r)
      PROVE  NothingOutlivesContext'
  BY <1>3, <1>7 DEF StatFile, StatFileNow, ReadOutcome, IInv, TypeOK
<1>8. CASE SubmitOp
  BY <1>3, <1>8 DEF SubmitOp, NewOp, IInv, TypeOK
<1>9. ASSUME NEW id \in OpIds, QueuedFailure(id) PROVE NothingOutlivesContext'
  BY <1>9 DEF QueuedFailure, IInv, TypeOK
<1>10. CASE ServiceBegin \/ OnConnectDone \/ CallbackReturns \/ ErrorOccurred
              \/ UNCHANGED vars
  BY <1>1, <1>10
     DEF ServiceBegin, OnConnectDone, CallbackReturns, ErrorOccurred, vars
<1>11. ASSUME where = "service", UNCHANGED ctx PROVE NothingOutlivesContext'
  BY <1>11 DEF IInv, TeardownInv, inService
<1>12. CASE ServiceEnd
  <2>1. Teardown \/ UNCHANGED <<ctx, requests>>
    BY <1>12 DEF ServiceEnd
  <2> QED
    BY <1>1, <1>2, <2>1
<1> QED
  BY <1>4, <1>5, <1>6, <1>7, <1>8, <1>9, <1>10, <1>11, <1>12
     DEF Next, OnOpendirDone, OnStatDone, OnOpDone

\* IInv holds in every reachable state: requests, context, state and flags
\* agree whatever the order of events.
THEOREM Invariance == Spec => []IInv
<1>1. IInv /\ [Next]_vars => IInv'
  BY TypeStep, LifeStep, SignalStep, PendingStep DEF IInv
<1> QED
  BY InitIInv, <1>1, PTL DEF Spec

\* A context exists between events exactly when the session is connected or
\* past the host lookup of an attempt.
THEOREM ContextCorrect == Spec => []ContextMatchesState
<1>1. IInv => ContextMatchesState
  BY DEF IInv, TypeOK, LookupInv, ContextInv, TeardownInv, ContextMatchesState,
         inService
<1> QED
  BY Invariance, <1>1, PTL

\* No pending teardown or error is left for the next connection.
THEOREM NothingStale == Spec => []NoStaleTeardown
<1>1. IInv => NoStaleTeardown
  BY DEF IInv, TypeOK, TeardownInv, NoStaleTeardown, inService
<1> QED
  BY Invariance, <1>1, PTL

\* When an event is over, the last signal tells how the attempt or connection
\* stands: an error comes after the change of the state, and comes exactly when
\* there was a failure, whichever path of the code it took.
THEOREM EndsExplained == Spec => []EndIsExplained
<1>1. IInv => EndIsExplained
  BY DEF IInv, SignalInv
<1> QED
  BY Invariance, <1>1, PTL

\* The context is destroyed only as smb2_service() has unwound.
THEOREM DestroyedOutsideService == Spec => NeverDestroyedInService
<1>1. IInv /\ [Next]_vars => [ctx /\ ~ctx' => ~inService']_vars
  <2> SUFFICES ASSUME IInv, Next, ctx, ~ctx' PROVE ~inService'
    BY DEF vars
  <2>1. CASE AbortConnect \/ DisconnectFromShare
    BY <2>1 DEF AbortConnect, DisconnectFromShare, DropConnection, inService
  <2>2. CASE ServiceEnd
    BY <2>2 DEF ServiceEnd, inService
  <2>3. CASE ConnectToShare \/ OnHostResolved
    BY <2>3 DEF ConnectToShare, OnHostResolved, StartSmbConnect, FailToStart, SetState
  <2> QED
    BY <2>1, <2>2, <2>3
       DEF Next, ListDirectory, StatFile, StatFileNow, SubmitOp, QueuedFailure,
           ServiceBegin, OnConnectDone, OnOpendirDone, OnStatDone, OnOpDone,
           CallbackReturns, ErrorOccurred
<1> QED
  BY Invariance, <1>1, PTL DEF NeverDestroyedInService, Spec

\* A teardown turns pending operations into queued failures: the ids still
\* owed a completion are the same.
LEMMA TeardownOwed ==
  ASSUME TypeOK, Teardown
  PROVE  Owed' = Owed
BY DEF TypeOK, Teardown, Flushed, Owed

\* The session implements SessionOps: each id returned by renameFile,
\* createHardLink or removeFile is completed at most once, never inside the
\* call that returned it, and only by a step that completes nothing else.
THEOREM Refinement == Spec => ImplementsSessionOps
<1>1. Init => Ops!Init
  BY DEF Init, Ops!Init, Owed
<1>2. IInv /\ [Next]_vars => [Ops!Next]_(Ops!vars)
  <2> SUFFICES ASSUME IInv, [Next]_vars
               PROVE  [Ops!Next]_(Ops!vars)
    OBVIOUS
  <2>1. ASSUME UNCHANGED nextOpId, Owed' = Owed
        PROVE  UNCHANGED Ops!vars
    BY <2>1 DEF Ops!vars, Owed
  <2>2. ASSUME UNCHANGED <<nextOpId, ops>> PROVE UNCHANGED Ops!vars
    BY <2>1, <2>2 DEF Owed
  <2>3. CASE SubmitOp
    <3>1. PICK fate \in {"queued", "pending"} : ops' = [ops EXCEPT ![nextOpId] = fate]
      BY <2>3 DEF SubmitOp, NewOp
    <3>2. Owed' = Owed \cup {nextOpId}
      BY <2>3, <3>1 DEF SubmitOp, IInv, TypeOK, Owed
    <3> QED
      BY <2>3, <3>2 DEF SubmitOp, Ops!Next, Ops!Call, Owed
  <2>4. ASSUME NEW id \in OpIds, QueuedFailure(id) \/ OnOpDone(id)
        PROVE  Ops!Next
    <3>1. id \in Owed /\ Owed' = Owed \ {id} /\ UNCHANGED nextOpId
      BY <2>4 DEF QueuedFailure, OnOpDone, IInv, TypeOK, Owed
    <3> QED
      BY <3>1 DEF Ops!Next, Ops!Complete, Owed
  <2>5. CASE ConnectToShare \/ OnHostResolved \/ ServiceBegin \/ OnConnectDone
             \/ CallbackReturns \/ ErrorOccurred \/ UNCHANGED vars
    BY <2>2, <2>5 DEF ConnectToShare, OnHostResolved, ServiceBegin, OnConnectDone,
                      CallbackReturns, ErrorOccurred, vars, requests
  <2>6. CASE AbortConnect \/ DisconnectFromShare \/ ServiceEnd
    <3>1. UNCHANGED nextOpId /\ (Teardown \/ UNCHANGED ops)
      BY <2>6 DEF AbortConnect, DisconnectFromShare, DropConnection, ServiceEnd, requests
    <3> QED
      BY <2>1, <2>2, <3>1, TeardownOwed DEF IInv
  <2> QED
    BY <2>2, <2>3, <2>4, <2>5, <2>6
       DEF Next, ListDirectory, StatFile, StatFileNow, OnOpendirDone, OnStatDone
<1> QED
  BY Invariance, <1>1, <1>2, PTL DEF ImplementsSessionOps, Ops!Spec, Spec
=============================================================================
