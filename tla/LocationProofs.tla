--------------------------- MODULE LocationProofs ---------------------------
(***************************************************************************)
(* Theorems about Location, for every number of requests, all coordinates  *)
(* and every number of sessions and of abandoned dials.                    *)
(***************************************************************************)
EXTENDS Location, TLAPS

\* The initial state satisfies the invariant.
LEMMA InvInit == Init => IInv
<1> SUFFICES ASSUME Init PROVE IInv
  OBVIOUS
<1> USE WritersAssumption, TargetsAssumption
    DEF Init, Actors, Nil, None, Real, Free, Serve, Pulse, Lost
<1>1. TypeOK BY DEF TypeOK
<1>2. LockOwner /\ CallRecorded /\ SessionIds
  BY DEF LockOwner, CallRecorded, SessionIds
<1>3. PhaseMeaning /\ Quiet /\ Applied
  BY DEF PhaseMeaning, Quiet, Cleared, Applied
<1>4. UncertainTargetRetained /\ OneConnectionInUse /\ DriverFollowsSession
  BY DEF UncertainTargetRetained, OneConnectionInUse, OpenDrivers, DriverFollowsSession
<1>5. QED BY <1>1, <1>2, <1>3, <1>4 DEF IInv

\* The end of an abandoned dial keeps the invariant.
LEMMA InvDials ==
  ASSUME IInv, AbandonedDials
  PROVE  IInv'
<1> USE DEF AbandonedDials, DialEnds, StrayCloses, daemon, sessions, phoneVars
<1>1. /\ TypeOK /\ OneConnectionInUse
      /\ UNCHANGED <<phase, target, driver, mu, pc, want, dialled, daemon, phoneVars>>
  BY DEF IInv
<1>2. /\ open = OpenDrivers + strays /\ open \in Nat
      /\ dials \in Nat /\ strays \in Nat
      /\ OpenDrivers \in 0..1 /\ OpenDrivers' = OpenDrivers
  BY <1>1 DEF TypeOK, OneConnectionInUse, OpenDrivers
<1>3. open' \in Nat /\ dials' \in Nat /\ strays' \in Nat /\ OneConnectionInUse'
  BY <1>2 DEF OneConnectionInUse
<1>4. TypeOK'
  BY <1>1, <1>3 DEF TypeOK
<1>5. /\ LockOwner' /\ CallRecorded' /\ PhaseMeaning' /\ SessionIds' /\ Quiet'
      /\ Applied' /\ UncertainTargetRetained' /\ DriverFollowsSession'
  BY <1>1 DEF IInv, LockOwner, CallRecorded, PhaseMeaning, SessionIds, Quiet, Cleared,
     Applied, UncertainTargetRetained, DriverFollowsSession
<1>6. QED BY <1>3, <1>4, <1>5 DEF IInv

\* An operation of a request, of Serve or of the pulse keeps the invariant.
LEMMA InvOperation ==
  ASSUME IInv, NEW a \in Actors, Operation(a)
  PROVE  IInv'
<1> USE WritersAssumption, TargetsAssumption
    DEF Actors, Nil, None, Real, Free, Serve, Pulse, Lost, Goto, Waiting, Fail,
        MayOpen, OpenStart, OpenRefused, OpenFails, OpenError, Opened,
        OpenedThen, Started, Reuse, Acknowledged,
        NotConfirmed, Unconfirmed, location, operations, dialVars, sessions, daemon,
        phoneVars
<1> DEFINE Op == \/ OpenStart(a) \/ OpenRefused(a) \/ OpenFails(a) \/ Opened(a)
                 \/ Reuse(a) \/ Acknowledged(a) \/ NotConfirmed(a)
<1>0. /\ TypeOK /\ LockOwner /\ CallRecorded /\ PhaseMeaning /\ SessionIds
      /\ Quiet /\ Applied /\ UncertainTargetRetained /\ OneConnectionInUse
      /\ DriverFollowsSession /\ Op
  BY DEF IInv, Operation
<1> HIDE DEF Op
<1>1. TypeOK'
  <2>1. open' \in Nat
    BY <1>0 DEF Op, TypeOK, OneConnectionInUse, OpenDrivers, CallRecorded
  <2>2. phase' \in {"idle", "applying", "active", "lost"} /\ driver' \in Nat
    BY <1>0 DEF Op, TypeOK
  <2>3. target' \in Targets \cup {None}
    BY <1>0 DEF Op, TypeOK
  <2>4. /\ mu' \in Actors \cup {Free} /\ dialled' \in Nat
        /\ pc' \in [Actors -> {"idle", "waiting", "opening", "calling", "exited"}]
    BY <1>0 DEF Op, TypeOK
  <2>5. late' \in Targets \cup {Real, None} /\ phone' \in Targets \cup {Real}
    BY <1>0 DEF Op, TypeOK
  <2>6. UNCHANGED <<want, session, generation, stopped, loop, serve, cancelled>>
    BY <1>0 DEF Op
  <2>7. dials' \in Nat /\ UNCHANGED strays
    BY <1>0 DEF Op, TypeOK
  <2>8. QED
    BY <1>0, <2>1, <2>2, <2>3, <2>4, <2>5, <2>6, <2>7 DEF TypeOK
<1>2. LockOwner'
  BY <1>0 DEF Op, LockOwner, TypeOK
<1>3. CallRecorded'
  BY <1>0 DEF Op, CallRecorded, LockOwner, TypeOK, SessionIds
<1>4. PhaseMeaning'
  BY <1>0 DEF Op, PhaseMeaning, CallRecorded, LockOwner, TypeOK, SessionIds
<1>5. SessionIds'
  BY <1>0 DEF Op, SessionIds, LockOwner, TypeOK
<1>6. Quiet'
  BY <1>0 DEF Op, Quiet, Cleared, LockOwner, CallRecorded, TypeOK
<1>7. Applied'
  BY <1>0 DEF Op, Applied, PhaseMeaning, LockOwner, CallRecorded, TypeOK
<1>8. UncertainTargetRetained'
  BY <1>0 DEF Op, UncertainTargetRetained, PhaseMeaning, LockOwner,
     CallRecorded, TypeOK
<1>9. OneConnectionInUse'
  BY <1>0 DEF Op, OneConnectionInUse, OpenDrivers, CallRecorded, SessionIds, TypeOK
<1>10. DriverFollowsSession'
  BY <1>0 DEF Op, DriverFollowsSession, SessionIds, TypeOK
<1>11. QED
  BY <1>1, <1>2, <1>3, <1>4, <1>5, <1>6, <1>7, <1>8, <1>9, <1>10 DEF IInv

\* The connection loop keeps the invariant.
LEMMA InvLoop ==
  ASSUME IInv, ConnectionLoop
  PROVE  IInv'
<1> USE WritersAssumption, TargetsAssumption
    DEF Actors, Nil, None, Real, Free, Serve, Pulse, Lost, Fail, Establish,
        LoseSession, LocationLost, LostWhen, LoopExits, location, operations, dialVars,
        sessions, daemon, phoneVars
<1>0. /\ TypeOK /\ LockOwner /\ CallRecorded /\ PhaseMeaning /\ SessionIds
      /\ Quiet /\ Applied /\ UncertainTargetRetained /\ OneConnectionInUse
      /\ DriverFollowsSession /\ ConnectionLoop
  BY DEF IInv
<1>1. TypeOK'
  <2>1. /\ phase' \in {"idle", "applying", "active", "lost"}
        /\ driver' \in Nat /\ open' \in Nat
    BY <1>0 DEF ConnectionLoop, TypeOK, OneConnectionInUse, OpenDrivers
  <2>2. /\ session' \in Nat /\ generation' \in Nat
        /\ loop' \in {"running", "losing", "exited"}
    BY <1>0 DEF ConnectionLoop, TypeOK
  <2>3. UNCHANGED <<target, mu, pc, want, dialVars, stopped, serve, cancelled,
                    phone, late>>
    BY <1>0 DEF ConnectionLoop
  <2>4. QED BY <1>0, <2>1, <2>2, <2>3 DEF TypeOK
<1>2. LockOwner'
  BY <1>0 DEF ConnectionLoop, LockOwner
<1>3. CallRecorded'
  BY <1>0 DEF ConnectionLoop, CallRecorded, LockOwner, TypeOK
<1>4. PhaseMeaning'
  BY <1>0 DEF ConnectionLoop, PhaseMeaning, TypeOK
<1>5. SessionIds'
  BY <1>0 DEF ConnectionLoop, SessionIds, LockOwner, TypeOK
<1>6. Quiet'
  BY <1>0 DEF ConnectionLoop, Quiet, Cleared
<1>7. Applied'
  BY <1>0 DEF ConnectionLoop, Applied
<1>8. UncertainTargetRetained'
  BY <1>0 DEF ConnectionLoop, UncertainTargetRetained
<1>9. OneConnectionInUse'
  BY <1>0 DEF ConnectionLoop, OneConnectionInUse, OpenDrivers, TypeOK
<1>10. DriverFollowsSession'
  BY <1>0 DEF ConnectionLoop, DriverFollowsSession, SessionIds, TypeOK
<1>11. QED
  BY <1>1, <1>2, <1>3, <1>4, <1>5, <1>6, <1>7, <1>8, <1>9, <1>10 DEF IInv

\* The end of Serve, and what makes it end, keep the invariant.
LEMMA InvServe ==
  ASSUME IInv, Shutdown \/ AcceptFails \/ Cancel
  PROVE  IInv'
<1> USE WritersAssumption, TargetsAssumption
    DEF Actors, Nil, None, Real, Free, Serve, Pulse, Lost, Goto, ServeStep,
        StopListening, Snapshot, ClearIf, ShutdownCleared, ShutdownClose,
        AcceptFails, Cancel, location, operations, dialVars, sessions,
        phoneVars
<1>0. /\ TypeOK /\ LockOwner /\ CallRecorded /\ PhaseMeaning /\ SessionIds
      /\ Quiet /\ Applied /\ UncertainTargetRetained /\ OneConnectionInUse
      /\ DriverFollowsSession /\ (Shutdown \/ AcceptFails \/ Cancel)
  BY DEF IInv
<1>1. TypeOK'
  <2>1. /\ pc' \in [Actors -> {"idle", "waiting", "opening", "calling", "exited"}]
        /\ serve' \in {"listening", "stopping", "clearing", "closing",
                       "returned", "failed"}
    BY <1>0 DEF Shutdown, TypeOK
  <2>2. session' \in Nat /\ stopped' \subseteq Nat
    <3>1. session' \in {session, Nil} /\ stopped' \in {stopped, stopped \cup ({session} \ {Nil})}
      BY <1>0 DEF Shutdown
    <3>2. session \in Nat /\ stopped \subseteq Nat
      BY <1>0 DEF TypeOK
    <3>3. QED BY <3>1, <3>2
  <2>3. cancelled' \in BOOLEAN
    BY <1>0, Zenon DEF Shutdown, TypeOK
  <2>4. UNCHANGED <<phase, target, driver, open, mu, want, dialVars, generation,
                    loop, phone, late>>
    BY <1>0 DEF Shutdown
  <2>5. QED BY <1>0, <2>1, <2>2, <2>3, <2>4 DEF TypeOK
<1>2. LockOwner'
  BY <1>0 DEF Shutdown, LockOwner, TypeOK
<1>3. CallRecorded'
  BY <1>0 DEF Shutdown, CallRecorded, TypeOK
<1>4. PhaseMeaning'
  BY <1>0 DEF Shutdown, PhaseMeaning
<1>5. SessionIds'
  BY <1>0 DEF Shutdown, SessionIds, LockOwner, Quiet, Cleared, TypeOK
<1>6. Quiet'
  BY <1>0 DEF Shutdown, Quiet, Cleared, PhaseMeaning, LockOwner, TypeOK
<1>7. Applied'
  BY <1>0 DEF Shutdown, Applied
<1>8. UncertainTargetRetained'
  BY <1>0 DEF Shutdown, UncertainTargetRetained
<1>9. OneConnectionInUse'
  BY <1>0 DEF Shutdown, OneConnectionInUse, OpenDrivers
<1>10. DriverFollowsSession'
  BY <1>0 DEF Shutdown, DriverFollowsSession, Quiet, Cleared
<1>11. QED
  BY <1>1, <1>2, <1>3, <1>4, <1>5, <1>6, <1>7, <1>8, <1>9, <1>10 DEF IInv

\* Requests, the pulse, the phone and the link keep the invariant.
LEMMA InvOther ==
  ASSUME IInv,
         \/ \E w \in Writers, l \in Targets \cup {Real} : Request(w, l)
         \/ Refresh \/ PulseExits
         \/ \E s \in 1..MaxGenerations : PumpStops(s)
         \/ \E a \in Actors : Obey(a)
         \/ LateEffect \/ PhoneResets
         \/ UNCHANGED vars
  PROVE  IInv'
<1> USE WritersAssumption, TargetsAssumption, MaxGenerationsAssumption
    DEF Actors, Nil, None, Real, Free, Serve, Pulse, Lost, Goto, Request,
        Refresh, Tick, Started, PulseExits, PumpStops, Obey, LateEffect,
        PhoneResets, location, operations, dialVars, sessions, daemon, phoneVars, vars
<1> DEFINE Step == \/ \E w \in Writers, l \in Targets \cup {Real} : Request(w, l)
                   \/ Refresh \/ PulseExits
                   \/ \E s \in 1..MaxGenerations : PumpStops(s)
                   \/ \E a \in Actors : Obey(a)
                   \/ LateEffect \/ PhoneResets
                   \/ UNCHANGED vars
<1>0. /\ TypeOK /\ LockOwner /\ CallRecorded /\ PhaseMeaning /\ SessionIds
      /\ Quiet /\ Applied /\ UncertainTargetRetained /\ OneConnectionInUse
      /\ DriverFollowsSession /\ Step
  BY DEF IInv
<1> HIDE DEF Step
<1>1. TypeOK'
  <2>1. /\ phase' \in {"idle", "applying", "active", "lost"}
        /\ target' \in Targets \cup {None}
        /\ mu' \in Actors \cup {Free}
    BY <1>0 DEF Step, TypeOK, PhaseMeaning
  <2>2. /\ pc' \in [Actors -> {"idle", "waiting", "opening", "calling", "exited"}]
        /\ want' \in [Actors -> Targets \cup {Real}]
    BY <1>0 DEF Step, TypeOK, PhaseMeaning
  <2>3. phone' \in Targets \cup {Real} /\ late' \in Targets \cup {Real, None}
    BY <1>0 DEF Step, TypeOK
  <2>4. stopped' \subseteq Nat
    <3>1. stopped' = stopped \/ \E s \in Nat : stopped' = stopped \cup {s}
      BY <1>0 DEF Step
    <3>2. QED BY <1>0, <3>1 DEF TypeOK
  <2>5. UNCHANGED <<driver, open, dialVars, session, generation, loop, serve,
                    cancelled>>
    BY <1>0 DEF Step
  <2>6. QED BY <1>0, <2>1, <2>2, <2>3, <2>4, <2>5 DEF TypeOK
<1>2. LockOwner'
  BY <1>0 DEF Step, LockOwner, TypeOK
<1>3. CallRecorded'
  BY <1>0 DEF Step, CallRecorded, LockOwner, TypeOK
<1>4. PhaseMeaning'
  BY <1>0 DEF Step, PhaseMeaning, LockOwner, TypeOK
<1>5. SessionIds'
  BY <1>0 DEF Step, SessionIds, LockOwner, TypeOK
<1>6. Quiet'
  BY <1>0 DEF Step, Quiet, Cleared, LockOwner, TypeOK
<1>7. Applied'
  BY <1>0 DEF Step, Applied, LockOwner, CallRecorded, PhaseMeaning, TypeOK
<1>8. UncertainTargetRetained'
  BY <1>0 DEF Step, UncertainTargetRetained, LockOwner, CallRecorded,
     PhaseMeaning, TypeOK
<1>9. OneConnectionInUse'
  BY <1>0 DEF Step, OneConnectionInUse, OpenDrivers
<1>10. DriverFollowsSession'
  BY <1>0 DEF Step, DriverFollowsSession
<1>11. QED
  BY <1>1, <1>2, <1>3, <1>4, <1>5, <1>6, <1>7, <1>8, <1>9, <1>10 DEF IInv

\* The invariant holds in every reachable state.
THEOREM Invariant == Spec => []IInv
<1>1. IInv /\ [Next]_vars => IInv'
  <2> SUFFICES ASSUME IInv, [Next]_vars PROVE IInv'
    OBVIOUS
  <2>1. CASE \E a \in Actors : Operation(a) BY <2>1, InvOperation
  <2>2. CASE ConnectionLoop BY <2>2, InvLoop
  <2>3. CASE Shutdown \/ AcceptFails \/ Cancel BY <2>3, InvServe
  <2>4. CASE \/ \E w \in Writers, l \in Targets \cup {Real} : Request(w, l)
             \/ Refresh \/ PulseExits
             \/ \E s \in 1..MaxGenerations : PumpStops(s)
             \/ \E a \in Actors : Obey(a)
             \/ LateEffect \/ PhoneResets
             \/ UNCHANGED vars
    BY <2>4, InvOther
  <2>5. CASE AbandonedDials BY <2>5, InvDials
  <2>6. QED BY <2>1, <2>2, <2>3, <2>4, <2>5 DEF Next, Terminated
<1>2. QED BY InvInit, <1>1, PTL DEF Spec

\* The location, the requests and the phone stay within their types.
THEOREM TypeCorrect == Spec => []TypeOK
<1>1. IInv => TypeOK BY DEF IInv
<1>2. QED BY Invariant, <1>1, PTL

\* A location the phone simulates, or may yet, is never forgotten.
THEOREM UncertainTargetRetainedHolds == Spec => []UncertainTargetRetained
<1>1. IInv => UncertainTargetRetained BY DEF IInv
<1>2. QED BY Invariant, <1>1, PTL

\* One LocationSimulation connection is in use; every other one that is open
\* is held by an abandoned dial, which closes it.
THEOREM OneConnectionInUseHolds == Spec => []OneConnectionInUse
<1>1. IInv => OneConnectionInUse BY DEF IInv
<1>2. QED BY Invariant, <1>1, PTL

\* The connection does not outlive its session unnoticed.
THEOREM DriverFollowsSessionHolds == Spec => []DriverFollowsSession
<1>1. IInv => DriverFollowsSession BY DEF IInv
<1>2. QED BY Invariant, <1>1, PTL

\* What a snapshot calls active is applied, or its tunnel has just died.
THEOREM ActiveIsAppliedHolds == Spec => []ActiveIsApplied
<1>1. IInv => ActiveIsApplied
  BY DEF IInv, ActiveIsApplied, Applied, PhaseMeaning
<1>2. QED BY Invariant, <1>1, PTL

\* Serve closes the session only after the location was given up.
THEOREM ClearedBeforeCloseHolds == Spec => []ClearedBeforeClose
<1>1. IInv => ClearedBeforeClose
  BY DEF IInv, ClearedBeforeClose, Quiet, Cleared, UncertainTargetRetained
<1>2. QED BY Invariant, <1>1, PTL

\* Serve skips its clear only if the phone is where it really is.
THEOREM ClearSkippedOnlyIfRealHolds == Spec => ClearSkippedOnlyIfReal
<1>1. IInv /\ [Next]_vars =>
        [serve = "stopping" /\ serve' = "closing" =>
             phone = Real /\ late \notin Targets]_vars
  <2> SUFFICES ASSUME IInv, Next, serve = "stopping", serve' = "closing"
               PROVE  phone = Real /\ late \notin Targets
    OBVIOUS
  <2>1. Snapshot
    <3>1. CASE \E a \in Actors : Operation(a) \/ Obey(a)
      BY <3>1 DEF Operation, OpenStart, OpenRefused, OpenFails, OpenError,
         Opened, OpenedThen, Reuse, Acknowledged, NotConfirmed,
         Unconfirmed, Obey, daemon
    <3>2. CASE ConnectionLoop
      BY <3>2 DEF ConnectionLoop, Establish, LoseSession, LocationLost,
         LostWhen, LoopExits, sessions
    <3>3. CASE Shutdown \/ AcceptFails \/ Cancel
      BY <3>3 DEF Shutdown, ServeStep, StopListening, ShutdownCleared,
         ShutdownClose, AcceptFails, Cancel
    <3>4. CASE \/ \E w \in Writers, l \in Targets \cup {Real} : Request(w, l)
               \/ Refresh \/ PulseExits \/ LateEffect \/ PhoneResets
               \/ \E s \in 1..MaxGenerations : PumpStops(s)
               \/ AbandonedDials \/ Terminated
      BY <3>4 DEF Request, Refresh, Tick, PulseExits, LateEffect, PhoneResets,
         PumpStops, AbandonedDials, DialEnds, StrayCloses, Terminated, daemon,
         vars
    <3>5. QED BY <3>1, <3>2, <3>3, <3>4 DEF Next
  <2>2. target = None
    BY <2>1 DEF Snapshot, ClearIf, ServeStep
  <2>3. QED
    BY <2>2 DEF IInv, UncertainTargetRetained, TypeOK
<1>2. QED BY Invariant, <1>1, PTL DEF Spec, ClearSkippedOnlyIfReal

\* Nothing but a request or a call just abandoned makes the phone simulate.
THEOREM NoSilentReapplyHolds == Spec => NoSilentReapply
<1>1. IInv /\ [Next]_vars =>
        [phone' \notin {phone, Real} =>
             \/ late = phone'
             \/ \E w \in Writers : pc[w] = "calling" /\ want[w] = phone']_vars
  <2> SUFFICES ASSUME IInv, Next, phone' \notin {phone, Real}
               PROVE  \/ late = phone'
                      \/ \E w \in Writers : pc[w] = "calling" /\ want[w] = phone'
    OBVIOUS
  <2>1. LateEffect \/ \E a \in Actors : Obey(a)
    <3>1. CASE \E a \in Actors : Operation(a)
      BY <3>1 DEF Operation, OpenStart, OpenRefused, OpenFails, OpenError,
         Opened, OpenedThen, Reuse, Acknowledged, NotConfirmed,
         Unconfirmed, phoneVars
    <3>2. CASE ConnectionLoop \/ Shutdown \/ AcceptFails \/ Cancel
      BY <3>2 DEF ConnectionLoop, Establish, LoseSession, LocationLost,
         LostWhen, LoopExits, Shutdown, ServeStep, StopListening, Snapshot,
         ClearIf, ShutdownCleared, ShutdownClose, AcceptFails, Cancel, phoneVars
    <3>3. CASE \/ \E w \in Writers, l \in Targets \cup {Real} : Request(w, l)
               \/ Refresh \/ PulseExits \/ PhoneResets
               \/ \E s \in 1..MaxGenerations : PumpStops(s)
               \/ AbandonedDials \/ Terminated
      BY <3>3 DEF Request, Refresh, Tick, PulseExits, PhoneResets, PumpStops,
         AbandonedDials, DialEnds, StrayCloses, Terminated, phoneVars, vars
    <3>4. QED BY <3>1, <3>2, <3>3 DEF Next
  <2>2. CASE LateEffect BY <2>2 DEF LateEffect
  <2>3. ASSUME NEW a \in Actors, Obey(a)
        PROVE  a \in Writers /\ pc[a] = "calling" /\ want[a] = phone'
    <3>1. pc[a] = "calling" /\ want[a] = phone' /\ driver \notin stopped
          /\ phone # want[a]
      BY <2>3 DEF Obey
    <3>2. a # Serve
      BY <3>1 DEF IInv, LockOwner
    <3>3. a # Pulse
      BY <3>1 DEF IInv, LockOwner, CallRecorded, Applied, Actors
    <3>4. QED BY <3>1, <3>2, <3>3 DEF Actors
  <2>4. QED BY <2>1, <2>2, <2>3
<1>2. QED BY Invariant, <1>1, PTL DEF Spec, NoSilentReapply

-----------------------------------------------------------------------------
(* Refinement of SimulatedLocation *)

\* An operation asks, is answered or gives the connection up.
LEMMA OperationSimulates ==
  ASSUME IInv, NEW a \in Actors, Operation(a)
  PROVE  Simulation!Next \/ UNCHANGED Simulation!vars
<1> USE WritersAssumption, TargetsAssumption
    DEF Actors, Nil, None, Real, Free, Serve, Pulse, Lost, Goto, Waiting, Fail,
        location, sessions, daemon, phoneVars, IInv, TypeOK, LockOwner,
        CallRecorded, PhaseMeaning
<1>1. CASE OpenStart(a)
  BY <1>1 DEF OpenStart, Simulation!vars
<1>2. CASE OpenRefused(a) \/ OpenFails(a)
  <2>1. driver = Nil /\ phase # "active"
    BY <1>2 DEF OpenRefused, OpenFails, OpenError
  <2>2. driver' = Nil /\ phase' # "active"
    BY <1>2 DEF OpenRefused, OpenFails, OpenError
  <2>3. QED
    BY <1>2, <2>1, <2>2 DEF OpenRefused, OpenFails, OpenError, Simulation!vars
<1>3. CASE Opened(a)
  <2> USE <1>3 DEF Opened, OpenedThen, Started, SessionIds
  <2>1. driver = Nil /\ driver' # Nil /\ driver' \notin stopped'
    OBVIOUS
  <2>2. serve \notin {"closing", "returned"}
    BY DEF Quiet, Cleared
  <2>3. Simulation!Ask
    BY <2>1 DEF Simulation!Ask
  <2>4. Simulation!AskAnew
    BY <2>1, <2>2, <2>3 DEF Simulation!AskAnew
  <2>5. QED BY <2>4 DEF Simulation!Next
<1>4. CASE Reuse(a)
  <2> USE <1>4 DEF Reuse, Started
  <2>1. Simulation!Ask
    BY DEF Simulation!Ask
  <2>2. Simulation!AskAgain
    BY <2>1 DEF Simulation!AskAgain
  <2>3. QED BY <2>2 DEF Simulation!Next
<1>5. CASE Acknowledged(a)
  <2> USE <1>5 DEF Acknowledged
  <2>1. driver # Nil
    OBVIOUS
  <2>2. CASE want[a] = Real
    BY <2>1, <2>2 DEF Simulation!ConfirmClear, Simulation!Next
  <2>3. CASE want[a] # Real
    <3>1. want[a] = target /\ target # None
      BY <2>3
    <3>2. Simulation!ConfirmSet
      BY <2>1, <2>3, <3>1 DEF Simulation!ConfirmSet
    <3>3. QED BY <3>2 DEF Simulation!Next
  <2>4. QED BY <2>2, <2>3
<1>6. CASE NotConfirmed(a)
  <2> USE <1>6 DEF NotConfirmed, Unconfirmed
  <2>1. driver # Nil /\ driver' = Nil /\ phase' = "lost"
    OBVIOUS
  <2>2. want[a] \in {target, Real} \ {None}
    OBVIOUS
  <2>3. Simulation!GiveUp
    BY <2>1, <2>2 DEF Simulation!GiveUp
  <2>4. QED BY <2>3 DEF Simulation!Next
<1>7. QED
  BY Operation(a), <1>1, <1>2, <1>3, <1>4, <1>5, <1>6 DEF Operation

\* The loop gives the connection of a lost session up.
LEMMA LoopSimulates ==
  ASSUME IInv, ConnectionLoop
  PROVE  Simulation!Next \/ UNCHANGED Simulation!vars
<1>1. CASE Establish \/ LoseSession \/ LoopExits
  BY <1>1 DEF Establish, LoseSession, LoopExits, location, sessions, phoneVars,
     Simulation!vars
<1>2. CASE LocationLost
  <2> USE <1>2 DEF LocationLost, LostWhen, Fail, location, sessions, phoneVars
  <2>1. CASE driver # Nil
    BY <2>1 DEF Simulation!GiveUp, Simulation!Next
  <2>2. CASE driver = Nil
    <3>1. phase # "active"
      BY <2>2 DEF IInv, PhaseMeaning
    <3>2. QED BY <2>2, <3>1 DEF Simulation!vars
  <2>3. QED BY <2>1, <2>2
<1>3. QED BY ConnectionLoop, <1>1, <1>2 DEF ConnectionLoop

\* Serve clears, or has nothing to clear, and only then closes.
LEMMA ServeSimulates ==
  ASSUME IInv, Shutdown \/ AcceptFails \/ Cancel
  PROVE  Simulation!Next \/ UNCHANGED Simulation!vars
<1> USE DEF ServeStep, location, sessions, phoneVars
<1>1. CASE StopListening \/ AcceptFails \/ Cancel
  BY <1>1 DEF StopListening, AcceptFails, Cancel, Simulation!vars
<1>2. CASE Snapshot
  <2> USE <1>2 DEF Snapshot, ClearIf
  <2>1. CASE target # None
    BY <2>1 DEF Simulation!Clear, Simulation!Next
  <2>2. CASE target = None
    <3>1. driver = Nil /\ phase # "active"
      BY <2>2 DEF IInv, PhaseMeaning
    <3>2. QED BY <2>2, <3>1 DEF Simulation!End, Simulation!Next
  <2>3. QED BY <2>1, <2>2
<1>3. CASE ShutdownCleared
  <2>1. driver = Nil /\ phase # "active"
    BY <1>3 DEF ShutdownCleared, IInv, Quiet, Cleared
  <2>2. QED
    BY <1>3, <2>1 DEF ShutdownCleared, Simulation!End, Simulation!Next
<1>4. CASE ShutdownClose
  <2>1. driver = Nil
    BY <1>4 DEF ShutdownClose, IInv, Quiet, Cleared
  <2>2. QED
    BY <1>4, <2>1 DEF ShutdownClose, Simulation!vars
<1>5. QED BY <1>1, <1>2, <1>3, <1>4 DEF Shutdown

\* The phone and the link: what is left is invisible to the promise.
LEMMA PhoneSimulates ==
  ASSUME IInv,
         \/ \E w \in Writers, l \in Targets \cup {Real} : Request(w, l)
         \/ Refresh \/ PulseExits
         \/ \E s \in 1..MaxGenerations : PumpStops(s)
         \/ \E a \in Actors : Obey(a)
         \/ AbandonedDials \/ LateEffect \/ PhoneResets
         \/ UNCHANGED vars
  PROVE  Simulation!Next \/ UNCHANGED Simulation!vars
<1> USE DEF location, sessions, daemon, phoneVars
<1>1. CASE \/ \E w \in Writers, l \in Targets \cup {Real} : Request(w, l)
           \/ Refresh \/ PulseExits \/ AbandonedDials \/ UNCHANGED vars
  BY <1>1 DEF Request, Refresh, Tick, Started, PulseExits, AbandonedDials, DialEnds,
     StrayCloses, vars, Simulation!vars
<1>2. ASSUME NEW s \in 1..MaxGenerations, PumpStops(s)
      PROVE  Simulation!Next \/ UNCHANGED Simulation!vars
  <2> USE <1>2 DEF PumpStops
  <2>1. CASE s = driver
    BY <2>1 DEF Simulation!Cut, Simulation!Next, Nil
  <2>2. CASE s # driver
    BY <2>2 DEF Simulation!vars
  <2>3. QED BY <2>1, <2>2
<1>3. ASSUME NEW a \in Actors, Obey(a)
      PROVE  Simulation!Next
  <2> USE WritersAssumption, TargetsAssumption, <1>3
      DEF Obey, Actors, Real, None, IInv, LockOwner, CallRecorded
  <2>1. driver # Nil /\ driver \notin stopped
    OBVIOUS
  <2>2. \/ phone' = Real
        \/ target # None /\ phase # "active" /\ phone' = target
    <3>1. a # Serve \/ want[a] = Real
      OBVIOUS
    <3>2. a # Pulse
      BY DEF Applied
    <3>3. a \in Writers /\ want[a] # Real => target # None
      BY DEF TypeOK
    <3>4. QED BY <3>1, <3>2, <3>3
  <2>3. Simulation!Obey
    BY <2>1, <2>2 DEF Simulation!Obey
  <2>4. QED BY <2>3 DEF Simulation!Next
<1>4. CASE LateEffect
  BY <1>4 DEF LateEffect, Simulation!Arrive, Simulation!Next
<1>5. CASE PhoneResets
  BY <1>5 DEF PhoneResets, Simulation!Reset, Simulation!Next
<1>6. QED BY <1>1, <1>2, <1>3, <1>4, <1>5

\* The location session keeps what architecture.md promises of the simulation.
THEOREM ImplementsSimulationHolds == Spec => ImplementsSimulation
<1>1. Init => Simulation!Init
  BY DEF Init, Simulation!Init, Nil
<1>2. IInv /\ [Next]_vars => [Simulation!Next]_(Simulation!vars)
  BY OperationSimulates, LoopSimulates, ServeSimulates, PhoneSimulates
     DEF Next, Terminated
<1>3. QED
  BY <1>1, <1>2, Invariant, PTL DEF Spec, ImplementsSimulation, Simulation!Spec

=============================================================================
