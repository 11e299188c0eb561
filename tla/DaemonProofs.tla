---------------------------- MODULE DaemonProofs ----------------------------
(***************************************************************************)
(* Theorems about Daemon, for every set of connections, every set of       *)
(* requests and every number of sessions.                                  *)
(***************************************************************************)
EXTENDS Daemon, FiniteSetTheorems, TLAPS

-----------------------------------------------------------------------------
(* Types *)

\* The initial state has the declared types.
LEMMA TypeInit == Init => TypeOK
<1> SUFFICES ASSUME Init PROVE TypeOK
  OBVIOUS
<1> USE DEF Init, Nil, NoError
<1>1. DaemonTypes BY DEF DaemonTypes, States, ErrorCodes
<1>2. GoroutineTypes BY DEF GoroutineTypes, LoopPCs, ErrorCodes, ServePCs
<1>3. NoResult \in Results BY DEF NoResult, Results
<1>4. HandlerTypes BY <1>3 DEF HandlerTypes, HandlerPCs, Commands
<1>5. QED BY <1>1, <1>2, <1>4 DEF TypeOK

\* Every step of the connection loop keeps the types.
LEMMA TypeLoop ==
  ASSUME TypeOK, ConnectionLoop
  PROVE  TypeOK'
<1> USE DEF LoopStep, Nil, NoError, Free, Loop, status, acquired, loopLocals
<1> USE ConnectionLoop DEF ConnectionLoop
<1> USE DEF TypeOK, LoopHead, LoopTest, LoopAnnounce, EstablishLock,
            EstablishUnless, EstablishConnecting, EstablishActive,
            EstablishFailed, EstablishFails, LoopAfter, LoopSleep,
            LoopPick, LoopPanic, LoopSelect, LoseSession, Lose,
            CloseLostSession, CloseLost
<1>1. HandlerTypes' /\ cancelled' \in BOOLEAN /\ serve' \in ServePCs
  BY DEF HandlerTypes, handlerVars, DaemonTypes, GoroutineTypes
<1>2. state' \in States /\ lastErrorCode' \in ErrorCodes
  BY DEF DaemonTypes, GoroutineTypes, SetState, States, WarmStates, ErrorCodes
<1>3. /\ generation' \in Nat /\ sessionLosses' \in Nat /\ session' \in Nat
      /\ installCount' \in Nat /\ uninstallCount' \in Nat
  BY DEF DaemonTypes, appCounts
<1>4. operationMu' \in Connections \cup {Free, Loop, Serve}
  BY DEF DaemonTypes
<1>5. stopped' \subseteq Nat /\ closed' \subseteq Nat
  BY DEF DaemonTypes, GoroutineTypes
<1>6. loop' \in LoopPCs
  BY DEF LoopPCs
<1>7. loopSession' \in Nat /\ loopGeneration' \in Nat
  BY DEF DaemonTypes, GoroutineTypes
<1>8. loopError' \in ErrorCodes
  BY DEF DaemonTypes, GoroutineTypes, ErrorCodes
<1>9. QED
  BY <1>1, <1>2, <1>3, <1>4, <1>5, <1>6, <1>7, <1>8
  DEF DaemonTypes, GoroutineTypes

\* Every step of a handler keeps the types.
LEMMA TypeHandler ==
  ASSUME TypeOK, NEW c \in Connections, Handle(c)
  PROVE  TypeOK'
<1> USE Handle(c) DEF Handle, HandlerStep, Answer, SetState, Serviced, Status,
        StopAnswer, StopCancel, OwnSession, Own, Busy, NoSession, Refuse, Begin,
        AppSucceeds, AppFails, Recover, AppReport, CaptureEnds, TypeOK, Free,
        NoError, status, appCounts, acquired
<1>1. GoroutineTypes'
  BY DEF GoroutineTypes, loopVars, loopLocals
<1>2. state' \in States /\ lastErrorCode' \in ErrorCodes
  BY DEF DaemonTypes, States, WarmStates, ErrorCodes
<1>3. /\ installCount' \in Nat /\ uninstallCount' \in Nat
      /\ operationMu' \in Connections \cup {Free, Loop, Serve}
  BY DEF DaemonTypes
<1>4. cancelled' \in BOOLEAN
  BY Zenon DEF DaemonTypes
<1>5. handler' \in [Connections -> HandlerPCs]
  BY DEF HandlerTypes, HandlerPCs
<1>6. /\ command' \in [Connections -> Commands]
      /\ using' \in [Connections -> Nat]
  BY DEF HandlerTypes, DaemonTypes
<1>7. result' \in [Connections -> Results]
  <2>1. PICK r \in Results : result' = [result EXCEPT ![c] = r]
    <3>1. result[c] \in Results /\ NoResult \in Results
      BY DEF HandlerTypes, NoResult, Results
    <3>2. CASE UNCHANGED result BY <3>1, <3>2 DEF HandlerTypes
    <3>3. CASE \E code : /\ result' = [result EXCEPT ![c] = ErrorResult(code)]
                         /\ code \in {"error", "session_not_active",
                                      "session_busy", "stopping"}
      BY <3>3 DEF ErrorResult, NoResult, Results
    <3>4. CASE Status(c) \/ AppReport(c)
      BY <3>4 DEF DaemonTypes, Results
    <3>5. CASE Begin(c) BY <3>5, <3>2 DEF DaemonTypes, NoResult, Results
    <3>6. CASE CaptureEnds(c)
      BY <3>6, <3>3, <3>1 DEF DaemonTypes, NoResult, Results
    <3>7. QED BY <3>2, <3>3, <3>4, <3>5, <3>6
  <2>2. QED BY <2>1 DEF HandlerTypes
<1>8. DaemonTypes'
  BY <1>2, <1>3, <1>4 DEF DaemonTypes, sessionVars
<1>9. QED
  BY <1>1, <1>5, <1>6, <1>7, <1>8 DEF HandlerTypes

\* Every other step keeps the types.
LEMMA TypeOther ==
  ASSUME TypeOK,
         \/ \E c \in Connections :
               Reject(c) \/ \E cmd \in Requests : Accept(c, cmd)
         \/ Shutdown \/ AcceptFails \/ Signal
         \/ \E s \in 1..MaxGenerations : PumpStops(s)
         \/ UNCHANGED vars
  PROVE  TypeOK'
<1> USE RequestsAssumption, MaxGenerationsAssumption
    DEF TypeOK, DaemonTypes, GoroutineTypes, HandlerTypes, status, appCounts,
        acquired, daemonVars, sessionVars, loopLocals, loopVars, handlerVars,
        NoError
<1>1. ASSUME NEW c \in Connections, Reject(c) PROVE TypeOK'
  BY <1>1 DEF Reject, HandlerStep, Answer, ErrorResult, NoResult, Results,
              HandlerPCs
<1>2. ASSUME NEW c \in Connections, NEW cmd \in Requests, Accept(c, cmd)
      PROVE  TypeOK'
  BY <1>2 DEF Accept, HandlerStep, HandlerPCs
<1>3. CASE Shutdown
  <2> USE DEF ServeStep, ServePCs, Free, Serve
  <2>1. CASE StopListening BY <2>1 DEF StopListening
  <2>2. CASE AnnounceStopping
    BY <2>2 DEF AnnounceStopping, SetState, States, ErrorCodes
  <2>3. CASE ShutdownClose BY <2>3 DEF ShutdownClose, ShutdownWhen
  <2>4. CASE ShutdownClear BY <2>4 DEF ShutdownClear, Nil
  <2>5. QED BY <1>3, <2>1, <2>2, <2>3, <2>4 DEF Shutdown
<1>4. CASE AcceptFails BY <1>4 DEF AcceptFails, ServeStep, ServePCs
<1>5. CASE Signal BY <1>5 DEF Signal
<1>6. ASSUME NEW s \in 1..MaxGenerations, PumpStops(s) PROVE TypeOK'
  BY <1>6 DEF PumpStops
<1>7. CASE UNCHANGED vars BY <1>7 DEF vars
<1>8. QED BY <1>1, <1>2, <1>3, <1>4, <1>5, <1>6, <1>7

\* The variables always have the types TypeOK declares.
THEOREM TypeCorrect == Spec => []TypeOK
<1>1. TypeOK /\ [Next]_vars => TypeOK'
  BY TypeLoop, TypeHandler, TypeOther DEF Next, Terminated
<1>2. QED BY <1>1, TypeInit, PTL DEF Spec

-----------------------------------------------------------------------------
(* The inductive invariant *)

\* The owners of operationMu are different.
LEMMA Owners ==
  /\ Free # Loop /\ Free # Serve /\ Loop # Serve
  /\ \A c \in Connections : c # Free /\ c # Loop /\ c # Serve
BY ConnectionsAssumption DEF Free, Loop, Serve

\* The initial state satisfies the invariant.
LEMMA InvInit == Init => IInv
<1> SUFFICES ASSUME Init PROVE IInv
  OBVIOUS
<1> USE DEF Init, Nil, NoError
<1>1. TypeOK BY TypeInit
<1>2. MutexOwner BY Owners DEF MutexOwner
<1>3. SessionIds /\ Publication BY DEF SessionIds, Publication
<1>4. Recorded /\ CaptureNamesItsSession
  BY DEF Recorded, CaptureNamesItsSession, NoResult
<1>5. NoSessionLeak /\ LossAccounting BY DEF NoSessionLeak, LossAccounting
<1>6. StateMatchesSession
  BY DEF StateMatchesSession, WarmStates
<1>7. QED BY <1>1, <1>2, <1>3, <1>4, <1>5, <1>6 DEF IInv

\* A step of the connection loop keeps the invariant.
LEMMA InvLoop ==
  ASSUME IInv, ConnectionLoop
  PROVE  IInv'
<1> USE ConnectionLoop DEF IInv, TypeOK, ConnectionLoop, LoopStep, LoopHead,
        LoopTest, LoopAnnounce, EstablishLock, EstablishUnless,
        EstablishConnecting, EstablishActive, EstablishFailed, EstablishFails,
        LoopAfter, LoopSleep, LoopPick, LoopPanic, LoopSelect,
        LoseSession, Lose, CloseLostSession, CloseLost, status,
        acquired, loopLocals, handlerVars, appCounts, DaemonTypes, GoroutineTypes
<1>1. TypeOK' BY TypeLoop
<1>2. MutexOwner' BY Owners DEF MutexOwner
<1>3. SessionIds'
  <2> USE DEF SessionIds, Publication, Nil
  <2>1. CASE EstablishActive BY <2>1
  <2>2. CASE LoseSession BY <2>2
  <2>3. CASE CloseLostSession BY <2>3
  <2>4. CASE EstablishLock BY <2>4
  <2>5. CASE EstablishConnecting \/ EstablishFailed BY <2>5
  <2>6. CASE LoopHead \/ LoopTest \/ LoopAnnounce BY <2>6
  <2>7. CASE LoopAfter \/ LoopSleep BY <2>7
  <2>8. CASE LoopPick \/ LoopPanic \/ LoopSelect BY <2>8
  <2>9. QED BY <2>1, <2>2, <2>3, <2>4, <2>5, <2>6, <2>7, <2>8
<1>4. Publication'
  <2> USE Owners DEF SessionIds, Publication, MutexOwner, Nil
  <2>1. CASE EstablishActive BY <2>1
  <2>2. CASE LoseSession BY <2>2
  <2>3. CASE CloseLostSession BY <2>3
  <2>4. CASE EstablishLock BY <2>4
  <2>5. CASE EstablishConnecting \/ EstablishFailed BY <2>5
  <2>6. CASE LoopHead \/ LoopTest \/ LoopAnnounce BY <2>6
  <2>7. CASE LoopAfter \/ LoopSleep BY <2>7
  <2>8. CASE LoopPick \/ LoopPanic \/ LoopSelect BY <2>8
  <2>9. QED BY <2>1, <2>2, <2>3, <2>4, <2>5, <2>6, <2>7, <2>8
<1>5. Recorded' BY Owners DEF Recorded, MutexOwner
<1>6. CaptureNamesItsSession' BY DEF CaptureNamesItsSession
<1>7. NoSessionLeak' BY DEF NoSessionLeak, SessionIds, Publication, Nil
<1>8. LossAccounting' BY DEF LossAccounting, SessionIds, Publication, Nil
<1>9. StateMatchesSession'
  <2> USE Owners DEF StateMatchesSession, SessionIds, Publication, MutexOwner,
                     SetState, WarmStates, Nil
  <2>1. CASE EstablishActive BY <2>1
  <2>2. CASE LoseSession BY <2>2
  <2>3. CASE CloseLostSession BY <2>3
  <2>4. CASE EstablishLock BY <2>4
  <2>5. CASE EstablishConnecting \/ EstablishFailed BY <2>5
  <2>6. CASE LoopHead \/ LoopTest \/ LoopAnnounce BY <2>6
  <2>7. CASE LoopAfter \/ LoopSleep BY <2>7
  <2>8. CASE LoopPick \/ LoopPanic \/ LoopSelect BY <2>8
  <2>9. QED BY <2>1, <2>2, <2>3, <2>4, <2>5, <2>6, <2>7, <2>8
<1>10. QED
  BY <1>1, <1>2, <1>3, <1>4, <1>5, <1>6, <1>7, <1>8, <1>9

\* A step of a handler keeps the invariant.
LEMMA InvHandler ==
  ASSUME IInv, NEW c \in Connections, Handle(c)
  PROVE  IInv'
<1> USE Handle(c) DEF IInv, Handle, HandlerStep, Answer, SetState, Serviced,
        Status, StopAnswer, StopCancel, OwnSession, Own, Busy, NoSession, Refuse,
        Begin, AppSucceeds, AppFails, Recover, AppReport, CaptureEnds, status,
        appCounts, acquired, sessionVars, loopVars, loopLocals, TypeOK,
        HandlerTypes
<1>1. TypeOK' BY TypeHandler
<1>2. MutexOwner' BY Owners DEF MutexOwner
<1>3. SessionIds' BY DEF SessionIds
<1>4. Publication' BY Zenon DEF Publication
<1>5. Recorded'
  <2> USE DEF Recorded, NoResult, ErrorResult, Results
  <2>1. CASE AppSucceeds(c)
    <3>1. using[c] \in 1..generation
      BY <2>1 DEF Publication, SessionIds, DaemonTypes, Nil
    <3>2. QED BY <2>1, <3>1
  <2>2. CASE Handle(c) /\ ~AppSucceeds(c)
    <3>1. handler'[c] # "report" /\ generation' = generation
      BY <2>2
    <3>2. QED BY <2>2, <3>1
  <2>3. QED BY <2>1, <2>2
<1>6. CaptureNamesItsSession'
  <2> USE DEF CaptureNamesItsSession, Recorded, Publication, SessionIds,
              CaptureCommands, NoResult, ErrorResult, Results, Nil
  <2>1. CASE Status(c) BY <2>1
  <2>2. CASE StopAnswer(c) \/ StopCancel(c) BY <2>2
  <2>3. CASE OwnSession(c) BY <2>3
  <2>4. CASE Busy(c) \/ NoSession(c) BY <2>4
  <2>5. CASE Begin(c) BY <2>5
  <2>6. CASE AppSucceeds(c) BY <2>6
  <2>7. CASE AppFails(c) BY <2>7
  <2>8. CASE AppReport(c) BY <2>8
  <2>9. CASE CaptureEnds(c)
    <3>1. using[c] = generation /\ using[c] # Nil BY <2>9
    <3>2. command[c] = "run-tests" => result[c].generation = generation
      BY <2>9
    <3>3. result'[c].event \in {"screenshot", "tests_finished"} =>
             result'[c].generation = generation
      BY <2>9, <3>2
    <3>4. \A d \in Connections : /\ using'[d] = using[d]
                                /\ d # c => result'[d] = result[d]
      BY <2>9
    <3>5. QED BY <3>1, <3>3, <3>4
  <2>10. QED
    BY <2>1, <2>2, <2>3, <2>4, <2>5, <2>6, <2>7, <2>8, <2>9
<1>7. NoSessionLeak' BY DEF NoSessionLeak
<1>8. LossAccounting' BY DEF LossAccounting
<1>9. StateMatchesSession'
  <2> USE Owners DEF StateMatchesSession, MutexOwner, Publication, AppCommands,
                     CaptureCommands, WarmStates, Nil
  <2>1. CASE Status(c) BY <2>1
  <2>2. CASE StopAnswer(c) \/ StopCancel(c) BY <2>2
  <2>3. CASE OwnSession(c) BY <2>3
  <2>4. CASE Busy(c) \/ NoSession(c) BY <2>4
  <2>5. CASE Begin(c) BY <2>5
  <2>6. CASE AppSucceeds(c) BY <2>6
  <2>7. CASE AppFails(c) BY <2>7
  <2>8. CASE AppReport(c) BY <2>8
  <2>9. CASE CaptureEnds(c) BY <2>9
  <2>10. QED
    BY <2>1, <2>2, <2>3, <2>4, <2>5, <2>6, <2>7, <2>8, <2>9
<1>10. QED
  BY <1>1, <1>2, <1>3, <1>4, <1>5, <1>6, <1>7, <1>8, <1>9

\* Every other step keeps the invariant.
LEMMA InvOther ==
  ASSUME IInv,
         \/ \E c \in Connections :
               Reject(c) \/ \E cmd \in Requests : Accept(c, cmd)
         \/ Shutdown \/ AcceptFails \/ Signal
         \/ \E s \in 1..MaxGenerations : PumpStops(s)
         \/ UNCHANGED vars
  PROVE  IInv'
<1>1. TypeOK' BY TypeOther DEF IInv
<1> DEFINE Rest == /\ MutexOwner /\ SessionIds /\ Publication /\ Recorded
                   /\ NoSessionLeak /\ LossAccounting /\ StateMatchesSession
                   /\ CaptureNamesItsSession
<1> USE Owners DEF IInv, MutexOwner, SessionIds, Publication, Recorded,
        NoSessionLeak, LossAccounting, StateMatchesSession,
        CaptureNamesItsSession, TypeOK, DaemonTypes, HandlerTypes, status,
        appCounts, acquired, daemonVars, sessionVars, loopVars, loopLocals,
        handlerVars
<1>2. ASSUME NEW c \in Connections, Reject(c) PROVE Rest'
  BY <1>2 DEF Reject, HandlerStep, Answer, ErrorResult, NoResult
<1>3. ASSUME NEW c \in Connections, NEW cmd \in Requests, Accept(c, cmd)
      PROVE  Rest'
  BY <1>3 DEF Accept, HandlerStep
<1>4. ASSUME StopListening PROVE Rest'
  BY <1>4 DEF StopListening, ServeStep
<1>5. ASSUME AnnounceStopping PROVE Rest'
  BY <1>5 DEF AnnounceStopping, ServeStep, SetState
<1>6. ASSUME ShutdownClose PROVE Rest'
  <2> USE <1>6 DEF ShutdownClose, ShutdownWhen, ServeStep, Nil
  <2>1. CASE session = Nil
    <3>1. Publication' BY <2>1
    <3>2. MutexOwner' BY <2>1
    <3>3. SessionIds'
      <4>1. generation \in Nat /\ UNCHANGED <<generation, stopped, session>>
        BY <2>1
      <4>2. closed' \subseteq 1..generation BY <2>1, <4>1
      <4>3. UNCHANGED <<loop, loopSession, loopGeneration>> BY <2>1
      <4>4. QED BY <4>1, <4>2, <4>3
    <3>4. LossAccounting' /\ NoSessionLeak' BY <2>1
    <3>5. Recorded' /\ CaptureNamesItsSession' BY <2>1
    <3>6. StateMatchesSession' BY <2>1
    <3>7. QED BY <3>1, <3>2, <3>3, <3>4, <3>5, <3>6
  <2>2. CASE session # Nil
    <3>1. Publication' BY <2>2
    <3>2. MutexOwner' BY <2>2
    <3>3. SessionIds'
      <4>1. generation \in Nat /\ UNCHANGED <<generation, stopped, session>>
        BY <2>2
      <4>2. closed' \subseteq 1..generation
        <5>1. closed' = closed \cup {session} BY <2>2
        <5>2. session \in 1..generation BY <2>2, <4>1
        <5>3. closed \subseteq 1..generation OBVIOUS
        <5>4. QED BY <5>1, <5>2, <5>3
      <4>3. UNCHANGED <<loop, loopSession, loopGeneration>> BY <2>2
      <4>4. QED BY <4>1, <4>2, <4>3
    <3>4. LossAccounting' /\ NoSessionLeak' BY <2>2
    <3>5. Recorded' /\ CaptureNamesItsSession' BY <2>2
    <3>6. StateMatchesSession' BY <2>2
    <3>7. QED BY <3>1, <3>2, <3>3, <3>4, <3>5, <3>6
  <2>3. QED BY <2>1, <2>2
<1>7. ASSUME ShutdownClear PROVE Rest'
  BY <1>7 DEF ShutdownClear, ServeStep, Nil
<1>8. ASSUME AcceptFails PROVE Rest'
  BY <1>8 DEF AcceptFails, ServeStep
<1>9. ASSUME Signal PROVE Rest'
  BY <1>9 DEF Signal
<1>10. ASSUME NEW s \in 1..MaxGenerations, PumpStops(s) PROVE Rest'
  BY <1>10 DEF PumpStops
<1>11. ASSUME UNCHANGED vars PROVE Rest'
  BY <1>11 DEF vars
<1>12. QED
  BY <1>1, <1>2, <1>3, <1>4, <1>5, <1>6, <1>7, <1>8, <1>9, <1>10, <1>11
  DEF Shutdown

\* The invariant holds in every reachable state.
THEOREM Invariant == Spec => []IInv
<1>1. IInv /\ [Next]_vars => IInv'
  BY InvLoop, InvHandler, InvOther DEF Next, Terminated
<1>2. QED BY <1>1, InvInit, PTL DEF Spec

-----------------------------------------------------------------------------
(* The properties that the runs check *)

\* No session is closed under the operation that runs on it.
THEOREM OperationOnOpenSessionHolds == Spec => []OperationOnOpenSession
<1>1. IInv => OperationOnOpenSession
  BY Owners DEF IInv, OperationOnOpenSession, MutexOwner, Publication
<1>2. QED BY <1>1, Invariant, PTL

\* Every session that was opened is current, about to be closed, or closed.
THEOREM NoSessionLeakHolds == Spec => []NoSessionLeak
<1>1. IInv => NoSessionLeak BY DEF IInv
<1>2. QED BY <1>1, Invariant, PTL

\* The generation and loss counters account for every session.
THEOREM LossAccountingHolds == Spec => []LossAccounting
<1>1. IInv => LossAccounting BY DEF IInv
<1>2. QED BY <1>1, Invariant, PTL

\* Before shutdown the published state agrees with the session.
THEOREM StateMatchesSessionHolds == Spec => []StateMatchesSession
<1>1. IInv => StateMatchesSession BY DEF IInv
<1>2. QED BY <1>1, Invariant, PTL

\* A capture reports the generation of the session it ran on.
THEOREM CaptureNamesItsSessionHolds == Spec => []CaptureNamesItsSession
<1>1. IInv => CaptureNamesItsSession BY DEF IInv
<1>2. QED BY <1>1, Invariant, PTL

\* Once Serve has returned, every session ever opened is closed.
THEOREM ReturnedCleanHolds == Spec => []ReturnedClean
<1>1. IInv => ReturnedClean
  <2> SUFFICES ASSUME IInv, serve = "returned" PROVE ReturnedClean
    BY DEF ReturnedClean
  <2> USE DEF IInv, Publication, SessionIds, MutexOwner, NoSessionLeak
  <2>1. session = Nil /\ operationMu # Serve OBVIOUS
  <2>2. closed \subseteq 1..generation OBVIOUS
  <2>3. ASSUME NEW s \in 1..generation PROVE s \in closed
    <3>1. s # session BY <2>1 DEF Nil, TypeOK, DaemonTypes
    <3>2. QED BY <3>1
  <2>4. QED BY <2>1, <2>2, <2>3 DEF ReturnedClean
<1>2. QED BY <1>1, Invariant, PTL

\* The nil session is only met once Serve has released it.
THEOREM PanicOnlyWhenStoppingHolds == Spec => []PanicOnlyWhenStopping
<1>1. IInv => PanicOnlyWhenStopping
  BY DEF IInv, Publication, PanicOnlyWhenStopping
<1>2. QED BY <1>1, Invariant, PTL

\* Only a pump loss, noticed by the loop, or Serve's shutdown releases a
\* session.
THEOREM OnlyPumpLossReleasesHolds == Spec => OnlyPumpLossReleases
<1> DEFINE Kept == session # Nil /\ session' # session =>
                       /\ session' = Nil
                       /\ session \in stopped \/ serve = "clearing"
<1>1. IInv /\ [Next]_vars => [Kept]_vars
  <2> SUFFICES ASSUME IInv, [Next]_vars PROVE Kept
    OBVIOUS
  <2>1. CASE ConnectionLoop
    <3>1. CASE LoseSession
      BY <3>1 DEF LoseSession, Lose, LoopStep, IInv, SessionIds, acquired, Nil,
                  TypeOK, DaemonTypes
    <3>2. CASE EstablishActive
      BY <3>2 DEF EstablishActive, LoopStep, IInv, Publication
    <3>3. CASE ConnectionLoop /\ ~LoseSession /\ ~EstablishActive
      BY <3>3 DEF ConnectionLoop, LoopHead, LoopTest, LoopAnnounce,
           EstablishLock, EstablishUnless, EstablishConnecting, EstablishFailed,
           EstablishFails, LoopAfter, LoopSleep, LoopPick,
           LoopPanic, LoopSelect, CloseLostSession, CloseLost, acquired
    <3>4. QED BY <2>1, <3>1, <3>2, <3>3
  <2>2. ASSUME NEW c \in Connections,
               \/ Handle(c) \/ Reject(c)
               \/ \E cmd \in Requests : Accept(c, cmd)
        PROVE  Kept
    BY <2>2 DEF Handle, Reject, Accept, HandlerStep, acquired, Status,
         StopAnswer, StopCancel, OwnSession, Own, Busy, NoSession, Refuse, Begin,
         AppSucceeds, AppFails, Recover, AppReport, CaptureEnds
  <2>3. CASE Shutdown \/ AcceptFails
    BY <2>3 DEF Shutdown, AcceptFails, StopListening, AnnounceStopping,
         ShutdownClose, ShutdownWhen, ShutdownClear, ServeStep
  <2>4. CASE Signal \/ (\E s \in 1..MaxGenerations : PumpStops(s))
    BY <2>4 DEF Signal, PumpStops, daemonVars, acquired
  <2>5. CASE UNCHANGED vars BY <2>5 DEF vars, daemonVars, acquired
  <2>6. QED BY <2>1, <2>2, <2>3, <2>4, <2>5 DEF Next, Terminated
<1>2. QED BY <1>1, Invariant, PTL DEF Spec, OnlyPumpLossReleases

-----------------------------------------------------------------------------
(* Accounting for installs and uninstalls *)

\* The connections behind a counter can be counted.
LEMMA CompletedFinite ==
  ASSUME NEW cmd, NEW event
  PROVE  /\ IsFiniteSet(Completed(cmd, event))
         /\ Cardinality(Completed(cmd, event)) \in 0..Cardinality(Connections)
<1>1. Completed(cmd, event) \subseteq Connections BY DEF Completed
<1>2. IsFiniteSet(Connections) BY ConnectionsAssumption
<1>3. /\ IsFiniteSet(Completed(cmd, event))
      /\ Cardinality(Completed(cmd, event)) <= Cardinality(Connections)
  BY <1>1, <1>2, FS_Subset
<1>4. QED BY <1>2, <1>3, FS_CardinalityType

\* A counter that a connection stands behind is positive.
LEMMA CompletedPositive ==
  ASSUME NEW cmd, NEW event, NEW c \in Completed(cmd, event)
  PROVE  Cardinality(Completed(cmd, event)) \in 1..Cardinality(Connections)
<1>1. Cardinality(Completed(cmd, event)) # 0
  BY CompletedFinite, FS_EmptySet
<1>2. Cardinality(Connections) \in Nat
  BY ConnectionsAssumption, FS_CardinalityType
<1>3. QED BY <1>1, <1>2, CompletedFinite

\* The connections that installed and those that uninstalled.
Installed == Completed("install", "installed")
Uninstalled == Completed("uninstall", "uninstalled")

\* A step that leaves the counters, the completed operations and their
\* responses alone keeps the accounts.
LEMMA AccountsStutter ==
  ASSUME AppAccounting, UNCHANGED appCounts,
         Installed' = Installed, Uninstalled' = Uninstalled,
         \A d \in Connections :
             result'[d].event \in {"installed", "uninstalled"} =>
                 result'[d] = result[d] /\ using'[d] = using[d]
  PROVE  AppAccounting'
BY DEF AppAccounting, Installed, Uninstalled, appCounts

\* A handler that neither succeeds nor reports completes nothing.
LEMMA NothingCompleted ==
  ASSUME IInv, NEW c \in Connections,
         \/ Status(c) \/ StopAnswer(c) \/ StopCancel(c) \/ OwnSession(c)
         \/ Busy(c) \/ NoSession(c) \/ Begin(c) \/ AppFails(c) \/ CaptureEnds(c)
         \/ Reject(c) \/ \E cmd \in Requests : Accept(c, cmd)
  PROVE  /\ UNCHANGED appCounts
         /\ Installed' = Installed /\ Uninstalled' = Uninstalled
         /\ \A d \in Connections :
                result'[d].event \in {"installed", "uninstalled"} =>
                    result'[d] = result[d] /\ using'[d] = using[d]
<1> USE DEF IInv, TypeOK, HandlerTypes, HandlerStep, Recorded
<1>1. UNCHANGED appCounts
  BY DEF Status, StopAnswer, StopCancel, OwnSession, Own, Busy, NoSession,
     Refuse, Begin, AppFails, Recover, CaptureEnds, Reject, Accept
<1>2. /\ handler' = [handler EXCEPT ![c] = handler'[c]]
      /\ handler[c] # "report" /\ handler'[c] # "report"
  BY DEF Status, StopAnswer, StopCancel, OwnSession, Own, Busy, NoSession,
     Refuse, Begin, AppFails, Recover, CaptureEnds, Reject, Accept
<1>3. /\ result' = [result EXCEPT ![c] = result'[c]]
      /\ command' = [command EXCEPT ![c] = command'[c]]
      /\ using' = [using EXCEPT ![c] = using'[c]]
  BY DEF Status, StopAnswer, StopCancel, OwnSession, Own, Busy, NoSession,
     Refuse, Begin, AppFails, Recover, CaptureEnds, Reject, Accept, Answer,
     Serviced
<1>4. \/ /\ result[c].event \notin {"installed", "uninstalled"}
         /\ result'[c].event \notin {"installed", "uninstalled"}
      \/ UNCHANGED <<result, using>>
  <2> USE DEF Answer, ErrorResult, NoResult, Results
  <2>1. CASE StopCancel(c)
    BY <2>1 DEF StopCancel
  <2>2. CASE ~StopCancel(c)
    <3>1. result[c].event = "none"
      BY <2>2 DEF Status, StopAnswer, OwnSession, Own, Busy, NoSession, Refuse,
         Begin, AppFails, Recover, CaptureEnds, Reject, Accept
    <3>2. CASE Status(c) \/ StopAnswer(c) \/ Busy(c) \/ NoSession(c)
      BY <3>1, <3>2 DEF Status, StopAnswer, Busy, NoSession, Refuse
    <3>3. CASE OwnSession(c) \/ AppFails(c) \/ Reject(c)
      BY <3>1, <3>3 DEF OwnSession, Own, AppFails, Recover, Reject
    <3>4. CASE Begin(c)
      BY <3>1, <3>4 DEF Begin
    <3>5. CASE CaptureEnds(c)
      BY <3>1, <3>5 DEF CaptureEnds
    <3>6. CASE \E cmd \in Requests : Accept(c, cmd)
      BY <3>1, <3>6 DEF Accept
    <3>7. QED BY <2>2, <3>2, <3>3, <3>4, <3>5, <3>6
  <2>3. QED BY <2>1, <2>2
<1>5. QED
  BY <1>1, <1>2, <1>3, <1>4 DEF Installed, Uninstalled, Completed

\* A success adds its connection to those its counter stands for.
LEMMA SuccessCounted ==
  ASSUME IInv, AppAccounting, NEW c \in Connections, AppSucceeds(c)
  PROVE  AppAccounting'
<1> USE DEF IInv, TypeOK, HandlerTypes, DaemonTypes, HandlerStep, Recorded,
            AppSucceeds, Serviced, AppCommands
<1>1. /\ handler[c] = "calling" /\ result[c].event = "none"
      /\ handler' = [handler EXCEPT ![c] = "report"]
      /\ UNCHANGED <<command, using, result>>
  OBVIOUS
<1>2. c \notin Installed /\ c \notin Uninstalled
  BY <1>1 DEF Installed, Uninstalled, Completed
<1>3. CASE command[c] = "install"
  <2>1. Installed' = Installed \cup {c} /\ Uninstalled' = Uninstalled
    BY <1>1, <1>3 DEF Installed, Uninstalled, Completed
  <2>2. Cardinality(Installed') = Cardinality(Installed) + 1
    BY <1>2, <2>1, CompletedFinite, FS_AddElement DEF Installed
  <2>3. installCount' = installCount + 1 /\ uninstallCount' = uninstallCount
    BY <1>3
  <2>4. QED BY <1>1, <2>1, <2>2, <2>3 DEF AppAccounting, Installed, Uninstalled
<1>4. CASE command[c] = "uninstall"
  <2>1. Uninstalled' = Uninstalled \cup {c} /\ Installed' = Installed
    BY <1>1, <1>4 DEF Installed, Uninstalled, Completed
  <2>2. Cardinality(Uninstalled') = Cardinality(Uninstalled) + 1
    BY <1>2, <2>1, CompletedFinite, FS_AddElement DEF Uninstalled
  <2>3. uninstallCount' = uninstallCount + 1 /\ installCount' = installCount
    BY <1>4
  <2>4. QED BY <1>1, <2>1, <2>2, <2>3 DEF AppAccounting, Installed, Uninstalled
<1>5. QED BY <1>3, <1>4

\* A report shows the counter that its own connection already stands behind,
\* so it is at least one, and a generation no older than its session.
LEMMA ReportCounted ==
  ASSUME IInv, AppAccounting, NEW c \in Connections, AppReport(c)
  PROVE  AppAccounting'
<1> USE DEF IInv, TypeOK, HandlerTypes, DaemonTypes, HandlerStep, Recorded,
            AppReport, Answer, AppCommands, Results
<1>1. /\ handler[c] = "report" /\ result[c].event = "none"
      /\ handler' = [handler EXCEPT ![c] = "done"]
      /\ result' = [result EXCEPT ![c] = result'[c]]
      /\ UNCHANGED <<command, using, installCount, uninstallCount>>
  BY DEF appCounts
<1>2. using[c] \in 1..generation /\ command[c] \in AppCommands
  BY <1>1
<1>3. Installed' = Installed /\ Uninstalled' = Uninstalled
  <2>1. /\ command[c] = "install" => result'[c].event = "installed"
        /\ command[c] = "uninstall" => result'[c].event = "uninstalled"
    OBVIOUS
  <2>2. QED BY <1>1, <1>2, <2>1 DEF Installed, Uninstalled, Completed
<1>4. result'[c].count \in 1..Cardinality(Connections)
  <2>1. CASE command[c] = "install"
    <3>1. c \in Completed("install", "installed")
      BY <1>1, <2>1 DEF Completed
    <3>2. QED BY <2>1, <3>1, CompletedPositive DEF AppAccounting
  <2>2. CASE command[c] = "uninstall"
    <3>1. c \in Completed("uninstall", "uninstalled")
      BY <1>1, <2>2 DEF Completed
    <3>2. result'[c].count = uninstallCount
      BY <2>2
    <3>3. QED BY <3>1, <3>2, CompletedPositive DEF AppAccounting
  <2>3. QED BY <1>2, <2>1, <2>2
<1>5. result'[c].generation = generation
  OBVIOUS
<1>6. QED
  BY <1>1, <1>2, <1>3, <1>4, <1>5 DEF AppAccounting, Installed, Uninstalled

\* Installs and uninstalls are counted once each, and shown when counted.
THEOREM AppAccountingHolds == Spec => []AppAccounting
<1>1. Init => AppAccounting
  <2> SUFFICES ASSUME Init PROVE AppAccounting
    OBVIOUS
  <2>1. \A c \in Connections : result[c].event = "none" /\ handler[c] = "idle"
    BY DEF Init, NoResult
  <2>2. Installed = {} /\ Uninstalled = {}
    BY <2>1 DEF Installed, Uninstalled, Completed
  <2>3. QED
    BY <2>1, <2>2, FS_EmptySet DEF AppAccounting, Installed, Uninstalled, Init
<1>2. IInv /\ AppAccounting /\ [Next]_vars => AppAccounting'
  <2> SUFFICES ASSUME IInv, AppAccounting, [Next]_vars PROVE AppAccounting'
    OBVIOUS
  <2>1. ASSUME NEW c \in Connections,
               \/ Handle(c) \/ Reject(c)
               \/ \E cmd \in Requests : Accept(c, cmd)
        PROVE  AppAccounting'
    BY <2>1, SuccessCounted, ReportCounted, NothingCompleted, AccountsStutter
       DEF Handle
  <2>2. CASE \/ ConnectionLoop \/ Shutdown \/ AcceptFails \/ Signal
             \/ \E s \in 1..MaxGenerations : PumpStops(s)
             \/ UNCHANGED vars
    <3>1. UNCHANGED <<appCounts, handlerVars>>
      BY <2>2 DEF ConnectionLoop, LoopStep, LoopHead, LoopTest, LoopAnnounce,
         EstablishLock, EstablishUnless, EstablishConnecting, EstablishActive,
         EstablishFailed, EstablishFails, LoopAfter, LoopSleep, LoopPick,
         LoopPanic, LoopSelect, LoseSession, Lose, CloseLostSession,
         CloseLost, Shutdown, StopListening, AnnounceStopping, ShutdownClose,
         ShutdownWhen, ShutdownClear, ServeStep, AcceptFails, Signal, PumpStops,
         vars, daemonVars
    <3>2. QED
      BY <3>1, AccountsStutter DEF Installed, Uninstalled, Completed, handlerVars
  <2>3. QED BY <2>1, <2>2 DEF Next, Terminated
<1>3. QED BY <1>1, <1>2, Invariant, PTL DEF Spec

-----------------------------------------------------------------------------
(* Refinement of SessionLifecycle *)

\* A handler runs on the session only as its single owner, so Begin maps to
\* Hold and the end of a call to Release; nothing else changes the mapping.
LEMMA HandlerRefines ==
  ASSUME IInv, NEW c \in Connections, Handle(c)
  PROVE  Lifecycle!Next \/ UNCHANGED Lifecycle!vars
<1> USE Owners DEF IInv, MutexOwner, Publication, TypeOK, DaemonTypes,
        HandlerTypes, Lifecycle!vars, HandlerStep, status, appCounts, acquired,
        Serviced
<1>1. CASE Status(c) \/ StopAnswer(c) \/ StopCancel(c)
  BY <1>1 DEF Status, StopAnswer, StopCancel
<1>2. CASE OwnSession(c) \/ Busy(c) \/ NoSession(c)
  BY <1>2 DEF OwnSession, Own, Busy, NoSession, Refuse
<1>3. CASE Begin(c)
  BY <1>3 DEF Begin, Lifecycle!Next, Lifecycle!Hold
<1>4. CASE AppSucceeds(c)
  BY <1>4 DEF AppSucceeds, Lifecycle!Next, Lifecycle!Release
<1>5. CASE AppFails(c)
  BY <1>5 DEF AppFails, Recover, Lifecycle!Next, Lifecycle!Release
<1>6. CASE AppReport(c)
  BY <1>6 DEF AppReport
<1>7. CASE CaptureEnds(c)
  BY <1>7 DEF CaptureEnds, Lifecycle!Next, Lifecycle!Release
<1>8. QED
  BY Handle(c), <1>1, <1>2, <1>3, <1>4, <1>5, <1>6, <1>7 DEF Handle

\* The loop acquires and loses sessions only while no operation holds one.
LEMMA LoopRefines ==
  ASSUME IInv, ConnectionLoop
  PROVE  Lifecycle!Next \/ UNCHANGED Lifecycle!vars
<1> USE DEF LoopStep, appCounts, handlerVars, acquired, Lifecycle!vars
<1>1. CASE EstablishActive
  <2>1. /\ session = Nil /\ session' # Nil /\ serve # "returned"
        /\ generation' = generation + 1
    BY <1>1 DEF EstablishActive, IInv, Publication, TypeOK, DaemonTypes, Nil
  <2>2. QED BY <1>1, <2>1 DEF EstablishActive, Lifecycle!Next, Lifecycle!Acquire
<1>2. CASE LoseSession
  <2>1. CASE session = Nil \/ generation # loopGeneration
    BY <1>2, <2>1 DEF LoseSession, Lose
  <2>2. CASE session # Nil /\ generation = loopGeneration
    <3>1. \A c \in Connections : handler[c] # "calling"
      BY <1>2, Owners DEF LoseSession, Lose, IInv, MutexOwner
    <3>2. QED
      BY <1>2, <2>2, <3>1 DEF LoseSession, Lose, Lifecycle!Next, Lifecycle!Lose
  <2>3. QED BY <2>1, <2>2
<1>3. CASE ConnectionLoop /\ ~LoseSession /\ ~EstablishActive
  BY <1>3 DEF ConnectionLoop, LoopHead, LoopTest, LoopAnnounce,
       EstablishLock, EstablishUnless, EstablishConnecting, EstablishFailed,
       EstablishFails, LoopAfter, LoopSleep, LoopPick, LoopPanic,
       LoopSelect, CloseLostSession, CloseLost
<1>4. QED BY ConnectionLoop, <1>1, <1>2, <1>3

\* Serve's return maps to End; what is left is invisible to the lifecycle.
LEMMA OtherRefines ==
  ASSUME IInv,
         \/ \E c \in Connections :
               Reject(c) \/ \E cmd \in Requests : Accept(c, cmd)
         \/ Shutdown \/ AcceptFails \/ Signal
         \/ \E s \in 1..MaxGenerations : PumpStops(s)
         \/ UNCHANGED vars
  PROVE  Lifecycle!Next \/ UNCHANGED Lifecycle!vars
<1> USE DEF status, appCounts, acquired, daemonVars, handlerVars, loopVars,
            Lifecycle!vars
<1>1. ASSUME NEW c \in Connections,
             Reject(c) \/ \E cmd \in Requests : Accept(c, cmd)
      PROVE  UNCHANGED Lifecycle!vars
  BY <1>1 DEF Reject, Accept, HandlerStep, IInv, TypeOK, HandlerTypes
<1>2. CASE StopListening \/ AnnounceStopping \/ AcceptFails
  BY <1>2 DEF StopListening, AnnounceStopping, AcceptFails, ServeStep
<1>3. CASE ShutdownClose
  <2>1. \A c \in Connections : handler[c] # "calling"
    BY <1>3, Owners DEF ShutdownClose, ShutdownWhen, IInv, MutexOwner
  <2>2. QED
    BY <1>3, <2>1 DEF ShutdownClose, ShutdownWhen, ServeStep, Lifecycle!Next,
                      Lifecycle!End
<1>4. CASE ShutdownClear
  <2>1. \A c \in Connections : handler[c] # "calling"
    BY <1>4, Owners DEF ShutdownClear, ServeStep, IInv, MutexOwner
  <2>2. QED
    BY <1>4, <2>1 DEF ShutdownClear, ServeStep, Lifecycle!Next,
                      Lifecycle!End
<1>5. CASE Signal \/ (\E s \in 1..MaxGenerations : PumpStops(s))
  BY <1>5 DEF Signal, PumpStops
<1>6. CASE UNCHANGED vars BY <1>6 DEF vars
<1>7. QED BY <1>1, <1>2, <1>3, <1>4, <1>5, <1>6 DEF Shutdown

\* The daemon implements the session lifecycle of architecture.md.
THEOREM ImplementsLifecycleHolds == Spec => ImplementsLifecycle
<1>1. Init => Lifecycle!Init
  BY DEF Init, Lifecycle!Init, Nil
<1>2. IInv /\ [Next]_vars => [Lifecycle!Next]_(Lifecycle!vars)
  BY HandlerRefines, LoopRefines, OtherRefines DEF Next, Terminated
<1>3. QED
  BY <1>1, <1>2, Invariant, PTL DEF Spec, ImplementsLifecycle, Lifecycle!Spec

=============================================================================
