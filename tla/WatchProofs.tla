---------------------------- MODULE WatchProofs ----------------------------
(***************************************************************************)
(* Theorems about Watch, for every number of sessions and of restarts.     *)
(***************************************************************************)
EXTENDS Watch, TLAPS

\* The initial state satisfies the invariant.
LEMMA InvInit == Init => IInv
<1> SUFFICES ASSUME Init PROVE IInv
  OBVIOUS
<1>1. TypeOK
  <2>1. /\ previous \in Signatures /\ answer \in Signatures
        /\ up \in BOOLEAN /\ warmObserved \in BOOLEAN
    BY DEF Init, Signatures
  <2>2. 0 \in 0..MaxRestarts /\ 0 \in 0..MaxGenerations /\ 0 \in 0..0
    BY BoundsAssumption
  <2>3. QED
    BY <2>1, <2>2 DEF Init, TypeOK, WarmStates, ColdStates
<1>2. Remembered /\ EventIsCurrent
  BY DEF Init, Remembered, EventIsCurrent, NoSnapshot, PollFailed, Snapshots,
     WarmStates, ColdStates
<1>3. Counted /\ Observed
  BY DEF Init, Counted, Observed, IsWarm, NoSnapshot, Snapshots, WarmStates, ColdStates, None
<1>4. QED BY <1>1, <1>2, <1>3 DEF IInv

\* What the daemon does keeps a session held while the run goes on: it cannot
\* acquire another one before it loses it, and then it is lost.
LEMMA HeldKept ==
  ASSUME IInv, Daemon, run' = run, firstRun = run,
         NEW g \in 1..MaxGenerations, NEW losses \in Nat,
         losses <= sessionLosses, Held(g, losses)
  PROVE  Held(g, losses)'
<1> USE DEF Held, DaemonStep, Acquire, Operate, Lose, Wait, Stop, Exit, Restart,
            WarmStates
<1>1. /\ sessionLosses \in Nat /\ run \in Nat /\ firstRun # None
  BY BoundsAssumption DEF IInv, TypeOK, None
<1>2. UNCHANGED seen
  BY DEF Daemon, history
<1>3. CASE Lose
  <2>1. lost' = lost \cup {<<run, generation>>} /\ sessionLosses' = sessionLosses + 1
    BY <1>1, <1>3
  <2>2. <<run, g>> \in lost'
    BY <1>1, <2>1
  <2>3. sessionLosses' # losses
    BY <1>1, <2>1
  <2>4. QED BY <1>2, <2>2, <2>3
<1>4. CASE Acquire \/ Wait
  BY <1>1, <1>2, <1>4
<1>5. CASE Operate \/ Stop
  BY <1>1, <1>2, <1>5
<1>6. CASE Exit
  BY <1>2, <1>6 DEF history
<1>7. CASE Restart
  BY <1>1, <1>7
<1>8. QED BY <1>3, <1>4, <1>5, <1>6, <1>7 DEF Daemon

\* What the daemon does keeps the invariant.
LEMMA InvDaemon ==
  ASSUME IInv, Daemon PROVE IInv'
<1> USE BoundsAssumption
    DEF IInv, Daemon, DaemonStep, Acquire, Operate, Lose, Wait,
        Stop, Exit, Restart, locals, history
<1>1. TypeOK'
  <2>1. /\ run' \in 0..MaxRestarts /\ (up' \/ run' < MaxRestarts)
        /\ state' \in WarmStates \cup ColdStates
        /\ generation' \in 0..MaxGenerations /\ sessionLosses' \in 0..generation'
        /\ state' \in WarmStates => sessionLosses' < generation'
    BY DEF TypeOK, WarmStates, ColdStates
  <2>2. up' \in BOOLEAN
    BY Zenon DEF TypeOK
  <2>3. lost' \subseteq (0..MaxRestarts) \X (1..MaxGenerations)
    BY DEF TypeOK, WarmStates
  <2>4. UNCHANGED <<previous, answer, warmObserved, lossBaseline, watch, event,
                    firstRun, seen>>
    OBVIOUS
  <2>5. QED BY <2>1, <2>2, <2>3, <2>4 DEF TypeOK
<1>2. Remembered'
  <2>1. answer.sessionLosses \in Nat
    BY DEF TypeOK, Signatures, Snapshots, PollFailed, NoSnapshot
  <2>2. UNCHANGED <<answer, lossBaseline, firstRun>>
    OBVIOUS
  <2>3. \/ UNCHANGED <<sessionLosses, lost>>
        \/ sessionLosses' = 0 /\ UNCHANGED lost
        \/ firstRun = None /\ UNCHANGED lost
        \/ lost' # {}
    OBVIOUS
  <2>4. lossBaseline # None => lossBaseline \in Nat
    BY DEF TypeOK
  <2>5. QED BY <2>1, <2>2, <2>3, <2>4 DEF Remembered
<1>3. EventIsCurrent'
  BY DEF EventIsCurrent
<1>4. Counted'
  <2>1. UNCHANGED <<answer, lossBaseline, warmObserved, seen, firstRun>>
    OBVIOUS
  <2>2. Baseline' = Baseline
    BY <2>1 DEF Baseline
  <2>3. /\ sessionLosses \in Nat /\ run \in Nat
        /\ firstRun # None => firstRun \in Nat
    BY DEF TypeOK
  <2>4. firstRun # None => Baseline \in Nat
    BY DEF TypeOK, Counted, Baseline, Snapshots
  <2>5. CASE Lose
    <3>1. firstRun = None => UNCHANGED lost
      BY <2>5
    <3>2. UNCHANGED run /\ sessionLosses' = sessionLosses + 1
      BY <2>5
    <3>3. firstRun = run => Baseline < sessionLosses'
      BY <2>3, <2>4, <3>2 DEF Counted, None
    <3>4. QED
      BY <2>1, <2>2, <2>3, <2>4, <3>1, <3>2, <3>3 DEF Counted, IsWarm, None
  <2>6. CASE Restart
    <3>1. run' = run + 1 /\ UNCHANGED lost
      BY <2>6
    <3>2. firstRun # run'
      BY <2>3, <3>1 DEF Counted, None
    <3>3. QED
      BY <2>1, <2>3, <3>1, <3>2 DEF Counted, IsWarm
  <2>7. CASE Acquire \/ Operate \/ Wait \/ Stop \/ Exit
    <3>1. UNCHANGED <<run, sessionLosses, lost>>
      BY <2>7
    <3>2. QED
      BY <2>1, <2>2, <3>1 DEF Counted, IsWarm
  <2>8. QED BY <2>5, <2>6, <2>7
<1>5. Observed'
  <2>1. UNCHANGED <<answer, lossBaseline, warmObserved, watch, firstRun, seen>>
    OBVIOUS
  <2>2. Baseline' = Baseline
    BY <2>1 DEF Baseline
  <2>3. SUFFICES ASSUME firstRun = run'
        PROVE /\ answer \in Snapshots =>
                     Baseline <= answer.sessionLosses
                     /\ answer.sessionLosses <= sessionLosses'
              /\ IsWarm(answer) =>
                     Held(answer.generation, answer.sessionLosses)'
              /\ watch = "running" /\ warmObserved =>
                     \E g \in 1..MaxGenerations : Held(g, lossBaseline)'
    BY <2>1, <2>2 DEF Observed, IsWarm
  <2>4. run' = run /\ firstRun = run
    <3>1. firstRun \in Nat /\ run \in Nat
      BY <2>3 DEF TypeOK, None
    <3>2. firstRun <= run
      BY <3>1 DEF Counted, None
    <3>3. QED BY <2>3, <3>1, <3>2
  <2>5. sessionLosses \in Nat /\ sessionLosses' \in Nat /\ sessionLosses <= sessionLosses'
    BY <2>4 DEF TypeOK
  <2>6. answer \in Snapshots =>
            /\ Baseline <= answer.sessionLosses
            /\ answer.sessionLosses <= sessionLosses'
    BY <2>4, <2>5 DEF Observed, Snapshots
  <2>7. ASSUME IsWarm(answer)
        PROVE  Held(answer.generation, answer.sessionLosses)'
    <3>1. answer \in Snapshots
      BY <2>7 DEF TypeOK, Signatures, IsWarm, PollFailed, NoSnapshot
    <3>2. /\ answer.sessionLosses \in Nat /\ answer.sessionLosses <= sessionLosses
          /\ Held(answer.generation, answer.sessionLosses)
      BY <2>4, <2>7, <3>1 DEF Observed, Snapshots
    <3>3. answer.generation \in 1..MaxGenerations
      BY <3>2 DEF Held, TypeOK
    <3>4. QED BY <2>1, <2>4, <3>2, <3>3, HeldKept DEF Held
  <2>8. ASSUME watch = "running", warmObserved
        PROVE  \E g \in 1..MaxGenerations : Held(g, lossBaseline)'
    <3>1. /\ lossBaseline # None
          /\ \E g \in 1..MaxGenerations : Held(g, lossBaseline)
      BY <2>4, <2>8 DEF Observed
    <3>2. lossBaseline \in Nat /\ lossBaseline <= sessionLosses
      BY <2>4, <3>1 DEF TypeOK, Counted, Baseline
    <3>3. PICK g \in 1..MaxGenerations : Held(g, lossBaseline)
      BY <3>1
    <3>4. Held(g, lossBaseline)'
      BY <2>1, <2>4, <3>2, <3>3, HeldKept DEF Held
    <3>5. QED BY <3>4
  <2>9. QED BY <2>6, <2>7, <2>8
<1>6. QED BY <1>1, <1>2, <1>3, <1>4, <1>5

\* A poll keeps the invariant.
LEMMA InvPoll ==
  ASSUME IInv, Poll \/ PollError \/ Cancel PROVE IInv'
<1> USE BoundsAssumption
    DEF IInv, Poll, PollError, Cancel, WatchStep, daemon, locals
<1>1. TypeOK'
  <2>1. answer' \in Signatures
    BY DEF TypeOK, Signatures, Snapshots
  <2>2. firstRun' \in {None} \cup 0..MaxRestarts
    BY DEF TypeOK
  <2>3. seen' \subseteq (0..MaxRestarts) \X (1..MaxGenerations)
    BY DEF TypeOK, IsWarm
  <2>4. watch' \in {"running", "cold", "cancelled"}
    BY DEF TypeOK
  <2>5. UNCHANGED <<up, run, state, generation, sessionLosses, previous,
                    warmObserved, lossBaseline, event, lost>>
    OBVIOUS
  <2>6. QED BY <2>1, <2>2, <2>3, <2>4, <2>5 DEF TypeOK
<1>2. Remembered'
  <2>1. /\ sessionLosses \in Nat /\ generation \in Nat /\ run # None
        /\ lossBaseline # None => lossBaseline \in Nat
    BY DEF TypeOK, None
  <2>2. CASE Poll
    <3>1. /\ answer'.sessionLosses = sessionLosses
          /\ UNCHANGED <<sessionLosses, lossBaseline, lost>>
      BY <2>2
    <3>2. firstRun' # None
      BY <2>1, <2>2
    <3>3. QED
      BY <2>1, <3>1, <3>2 DEF Remembered
  <2>3. CASE PollError
    BY <2>1, <2>3 DEF Remembered, PollFailed, Snapshots, WarmStates, ColdStates
  <2>4. CASE Cancel
    BY <2>4 DEF Remembered
  <2>5. QED BY <2>2, <2>3, <2>4
<1>3. EventIsCurrent'
  BY DEF EventIsCurrent
<1>4. Counted'
  <2>1. UNCHANGED <<lossBaseline, warmObserved, run, sessionLosses, lost>>
    OBVIOUS
  <2>2. NoSnapshot \notin Snapshots /\ PollFailed \notin Snapshots
    BY DEF NoSnapshot, PollFailed, Snapshots, WarmStates, ColdStates
  <2>3. CASE Poll
    <3>1. /\ answer' \in Snapshots /\ answer'.sessionLosses = sessionLosses
          /\ answer = NoSnapshot
      BY <2>3 DEF TypeOK, Snapshots
    <3>2. firstRun = None => firstRun' = run
      BY <2>3
    <3>3. firstRun # None => UNCHANGED firstRun /\ lossBaseline # None
      BY <2>2, <2>3, <3>1 DEF Counted
    <3>4. seen' # {} => warmObserved \/ IsWarm(answer')
      BY <2>3 DEF Counted, IsWarm, NoSnapshot
    <3>5. run \in Nat /\ sessionLosses \in Nat
      BY DEF TypeOK
    <3>6. CASE firstRun = None
      <4>1. lost' = {} /\ lossBaseline' = None /\ firstRun' = run
        BY <2>1, <3>2, <3>6 DEF Counted
      <4>2. Baseline' = sessionLosses
        BY <3>1, <4>1 DEF Baseline
      <4>3. firstRun' # None /\ run <= run /\ sessionLosses <= sessionLosses
        BY <3>5, <4>1 DEF None
      <4>4. QED
        BY <2>1, <3>1, <3>4, <4>1, <4>2, <4>3 DEF Counted
    <3>7. CASE firstRun # None
      BY <2>1, <3>1, <3>3, <3>4, <3>7 DEF Counted, Baseline
    <3>8. QED BY <3>6, <3>7
  <2>4. CASE PollError
    <3>1. answer' = PollFailed /\ answer = NoSnapshot /\ UNCHANGED <<firstRun, seen>>
      BY <2>4
    <3>2. firstRun # None => lossBaseline # None
      BY <2>2, <3>1 DEF Counted
    <3>3. seen # {} => warmObserved
      BY <3>1 DEF Counted, IsWarm, NoSnapshot
    <3>4. firstRun = run => Baseline' = Baseline
      BY <2>1, <3>2 DEF Baseline, TypeOK, None
    <3>5. QED
      BY <2>1, <2>2, <3>1, <3>2, <3>3, <3>4 DEF Counted
  <2>5. CASE Cancel
    BY <2>1, <2>5 DEF Counted, Baseline, IsWarm
  <2>6. QED BY <2>3, <2>4, <2>5
<1>5. Observed'
  <2>1. UNCHANGED <<lossBaseline, warmObserved, run, state, generation,
                    sessionLosses, lost>>
    OBVIOUS
  <2>2. NoSnapshot \notin Snapshots /\ PollFailed \notin Snapshots
    BY DEF NoSnapshot, PollFailed, Snapshots, WarmStates, ColdStates
  <2>3. firstRun = None => ~warmObserved
    BY DEF Observed, Counted
  <2>4. CASE Poll
    <3>1. /\ answer' \in Snapshots
          /\ answer'.sessionLosses = sessionLosses
          /\ answer'.generation = generation /\ answer'.state = state
      BY <2>4 DEF TypeOK, Snapshots
    <3>2. SUFFICES ASSUME firstRun' = run
          PROVE /\ Baseline' <= answer'.sessionLosses
                /\ answer'.sessionLosses <= sessionLosses
                /\ IsWarm(answer') => Held(generation, sessionLosses)'
                /\ watch = "running" /\ warmObserved =>
                       \E g \in 1..MaxGenerations : Held(g, lossBaseline)'
      BY <2>1, <2>4, <3>1 DEF Observed, Held
    <3>3. sessionLosses \in Nat /\ run \in Nat
      BY DEF TypeOK
    <3>4. Baseline' <= sessionLosses
      <4>1. CASE firstRun = None
        <5>1. Baseline' = sessionLosses
          BY <2>1, <3>1, <4>1 DEF Counted, Baseline
        <5>2. QED BY <3>3, <5>1
      <4>2. CASE firstRun # None
        <5>1. firstRun = run /\ answer = NoSnapshot
          BY <2>4, <3>2, <4>2
        <5>2. lossBaseline # None /\ Baseline <= sessionLosses
          BY <2>2, <4>2, <5>1 DEF Counted
        <5>3. QED BY <2>1, <5>2 DEF Baseline
      <4>3. QED BY <4>1, <4>2
    <3>5. IsWarm(answer') => Held(generation, sessionLosses)'
      BY <2>1, <2>4, <3>1, <3>3 DEF Held, IsWarm
    <3>6. ASSUME watch = "running", warmObserved
          PROVE  \E g \in 1..MaxGenerations : Held(g, lossBaseline)'
      <4>1. firstRun = run
        BY <2>3, <2>4, <3>2, <3>6
      <4>2. PICK g \in 1..MaxGenerations : Held(g, lossBaseline)
        BY <3>6, <4>1 DEF Observed
      <4>3. seen \subseteq seen'
        BY <2>4
      <4>4. Held(g, lossBaseline)'
        BY <2>1, <4>2, <4>3 DEF Held
      <4>5. QED BY <4>4
    <3>7. QED BY <3>1, <3>3, <3>4, <3>5, <3>6
  <2>5. CASE PollError
    <3>1. /\ answer' = PollFailed /\ ~IsWarm(answer')
          /\ UNCHANGED <<firstRun, seen, watch>>
      BY <2>5 DEF IsWarm, PollFailed
    <3>2. QED BY <2>1, <2>2, <3>1 DEF Observed, Held
  <2>6. CASE Cancel
    <3>1. UNCHANGED <<answer, firstRun, seen>> /\ watch' # "running"
      BY <2>6
    <3>2. QED BY <2>1, <3>1 DEF Observed, Held, Baseline, IsWarm
  <2>7. QED BY <2>4, <2>5, <2>6
<1>6. QED BY <1>1, <1>2, <1>3, <1>4, <1>5

\* The delivery of an answer keeps the invariant.
LEMMA InvRead ==
  ASSUME IInv, ReadError \/ ReadCold \/ ReadStatus PROVE IInv'
<1> USE BoundsAssumption
    DEF IInv, ReadError, EmitChange, ReadCold, ColdIf, ReadStatus,
        Answered, Baseline, WatchStep, daemon
<1>1. TypeOK'
  <2>1. answer' \in Signatures /\ previous' \in Signatures
    BY DEF TypeOK, Signatures
  <2>2. warmObserved' \in BOOLEAN
    BY Zenon DEF TypeOK, IsWarm
  <2>3. lossBaseline' \in {None} \cup 0..MaxGenerations
    BY DEF TypeOK, Snapshots
  <2>4. /\ watch' \in {"running", "cold", "cancelled"}
        /\ event' \in {"none", "watching", "state_changed", "watch_error", "cold"}
    BY DEF TypeOK
  <2>5. UNCHANGED <<up, run, state, generation, sessionLosses, firstRun, seen,
                    lost>>
    OBVIOUS
  <2>6. QED BY <2>1, <2>2, <2>3, <2>4, <2>5 DEF TypeOK
<1>2. Remembered'
  BY DEF Remembered, TypeOK, None, PollFailed, Snapshots, NoSnapshot,
     WarmStates, ColdStates
<1>3. Observed'
  <2>1. /\ UNCHANGED <<run, state, generation, sessionLosses, lost, firstRun, seen>>
        /\ watch = "running" /\ answer' = NoSnapshot
    OBVIOUS
  <2>2. answer' \notin Snapshots /\ ~IsWarm(answer')
    BY <2>1 DEF NoSnapshot, Snapshots, WarmStates, ColdStates, IsWarm
  <2>3. CASE ReadError
    BY <2>1, <2>2, <2>3 DEF Observed, Held
  <2>4. CASE ReadCold
    <3>1. watch' # "running" /\ lossBaseline' # None
      BY <2>4 DEF TypeOK, Snapshots, None
    <3>2. QED BY <2>1, <2>2, <3>1 DEF Observed
  <2>5. CASE ReadStatus
    <3>1. /\ answer \in Snapshots /\ lossBaseline' = Baseline
          /\ warmObserved' = (warmObserved \/ IsWarm(answer))
          /\ warmObserved' => ~(answer.sessionLosses > Baseline)
      BY <2>5
    <3>2. /\ lossBaseline' # None
          /\ Baseline \in Nat /\ answer.sessionLosses \in Nat
      BY <3>1 DEF TypeOK, Snapshots, None
    <3>3. ASSUME firstRun = run, warmObserved'
          PROVE  \E g \in 1..MaxGenerations : Held(g, Baseline)
      <4>1. CASE warmObserved
        BY <2>1, <3>3, <4>1 DEF Observed
      <4>2. CASE IsWarm(answer)
        <5>1. answer.sessionLosses = Baseline
          <6>1. Baseline <= answer.sessionLosses
            BY <3>1, <3>3 DEF Observed, Baseline
          <6>2. ~(answer.sessionLosses > Baseline)
            BY <3>1, <3>3
          <6>3. QED BY <3>2, <6>1, <6>2
        <5>2. Held(answer.generation, Baseline)
          BY <3>3, <4>2, <5>1 DEF Observed
        <5>3. answer.generation \in 1..MaxGenerations
          BY <5>2 DEF Held, TypeOK
        <5>4. QED BY <5>2, <5>3
      <4>3. QED BY <3>1, <3>3, <4>1, <4>2
    <3>4. ASSUME firstRun' = run', warmObserved'
          PROVE  \E g \in 1..MaxGenerations : Held(g, lossBaseline)'
      BY <2>1, <3>1, <3>3, <3>4 DEF Held
    <3>5. QED BY <2>1, <2>2, <3>2, <3>4 DEF Observed
  <2>6. QED BY <2>3, <2>4, <2>5
<1>4. EventIsCurrent'
  BY DEF EventIsCurrent, PollFailed, NoSnapshot, Snapshots, WarmStates,
     ColdStates
<1>5. Counted'
  <2>1. UNCHANGED <<run, sessionLosses, lost, firstRun, seen>> /\ answer' = NoSnapshot
    OBVIOUS
  <2>2. NoSnapshot \notin Snapshots /\ PollFailed \notin Snapshots
    BY DEF NoSnapshot, PollFailed, Snapshots, WarmStates, ColdStates
  <2>3. CASE ReadError
    <3>1. answer = PollFailed /\ UNCHANGED <<lossBaseline, warmObserved>>
      BY <2>3
    <3>2. seen # {} => warmObserved
      BY <3>1 DEF Counted, IsWarm, PollFailed
    <3>3. firstRun # None => lossBaseline # None
      BY <2>2, <3>1 DEF Counted
    <3>4. firstRun = run => Baseline' = Baseline
      BY <3>1, <3>3 DEF Baseline, TypeOK, None
    <3>5. QED BY <2>1, <2>2, <3>1, <3>2, <3>3, <3>4 DEF Counted
  <2>4. CASE ReadCold \/ ReadStatus
    <3>1. /\ answer \in Snapshots /\ lossBaseline' = Baseline
          /\ warmObserved' = (warmObserved \/ IsWarm(answer))
      BY <2>4
    <3>2. lossBaseline' # None
      BY <3>1 DEF TypeOK, Snapshots, None
    <3>3. Baseline' = Baseline
      BY <3>1, <3>2
    <3>4. seen # {} => warmObserved'
      BY <3>1 DEF Counted
    <3>5. QED BY <2>1, <2>2, <3>1, <3>2, <3>3, <3>4 DEF Counted
  <2>5. QED BY <2>3, <2>4
<1>6. QED BY <1>1, <1>2, <1>3, <1>4, <1>5

\* The invariant holds in every reachable state.
THEOREM Invariant == Spec => []IInv
<1>1. IInv /\ [Next]_vars => IInv'
  <2>1. ASSUME IInv, Next PROVE IInv'
    <3>1. CASE UNCHANGED vars
      BY <2>1, <3>1 DEF vars, daemon, locals, history, IInv, TypeOK,
         Remembered, Counted, Observed, Held, Baseline, EventIsCurrent, IsWarm
    <3>2. QED
      BY <2>1, <3>1, InvDaemon, InvPoll, InvRead
      DEF Next, WatchStatus, Ended
  <2>2. ASSUME IInv, UNCHANGED vars PROVE IInv'
    BY <2>2 DEF vars, daemon, locals, history, IInv, TypeOK, Remembered,
       Counted, Observed, Held, Baseline, EventIsCurrent, IsWarm
  <2>3. QED BY <2>1, <2>2
<1>2. QED BY InvInit, <1>1, PTL DEF Spec

\* The snapshots, the locals of watchStatus and the history stay typed.
THEOREM TypeCorrect == Spec => []TypeOK
<1>1. IInv => TypeOK BY DEF IInv
<1>2. QED BY Invariant, <1>1, PTL

\* A cold event is never emitted without the loss of a session; and if the
\* watch had seen one warm before the last answer and the daemon was not started
\* again, a session that it saw warm is lost.
THEOREM ColdMeansLossHolds == Spec => ColdMeansLoss
<1> DEFINE ALoss ==
             /\ lost # {}
             /\ warmObserved /\ firstRun = run => seen \cap lost # {}
<1>1. ASSUME IInv, [Next]_vars
      PROVE  [watch' = "cold" /\ watch # "cold" => ALoss]_vars
  <2> SUFFICES ASSUME watch' = "cold", watch # "cold" PROVE ALoss
    OBVIOUS
  <2>1. ReadCold
    BY <1>1
    DEF Next, vars, locals, daemon, history, Daemon, DaemonStep, Acquire, Operate,
        Lose, Wait, Stop, Exit, Restart, WatchStatus, Poll, PollError, ReadError,
        ReadStatus, Cancel, Ended
  <2>2. /\ answer \in Snapshots /\ watch = "running"
        /\ answer.sessionLosses > Baseline
    BY <2>1 DEF ReadCold, ColdIf, Answered, WatchStep
  <2>3. lossBaseline # None /\ Baseline = lossBaseline
    BY <1>1, <2>2 DEF IInv, TypeOK, Baseline, Snapshots
  <2>4. lost # {}
    BY <1>1, <2>2, <2>3 DEF IInv, Remembered
  <2>5. ASSUME warmObserved, firstRun = run PROVE seen \cap lost # {}
    <3>1. PICK g \in 1..MaxGenerations : Held(g, lossBaseline)
      BY <1>1, <2>2, <2>5 DEF IInv, Observed
    <3>2. answer.sessionLosses <= sessionLosses
      BY <1>1, <2>2, <2>5 DEF IInv, Observed
    <3>3. /\ sessionLosses \in Nat /\ answer.sessionLosses \in Nat
          /\ lossBaseline \in Nat
      BY <1>1, <2>2, <2>3, BoundsAssumption DEF IInv, TypeOK, Snapshots
    <3>4. sessionLosses > lossBaseline
      BY <2>2, <2>3, <3>2, <3>3
    <3>5. QED BY <3>1, <3>4 DEF Held
  <2>6. QED BY <2>4, <2>5
<1>2. QED BY Invariant, <1>1, PTL DEF Spec, ColdMeansLoss

\* The last event is always about the last finished poll.
THEOREM EventIsCurrentHolds == Spec => []EventIsCurrent
<1>1. IInv => EventIsCurrent BY DEF IInv
<1>2. QED BY Invariant, <1>1, PTL

\* The loss of a session observed as warm is never swallowed: the first answer
\* with all the losses that is delivered ends the watch, errors and events in
\* between or not.
THEOREM LossEndsWatchHolds == Spec => LossEndsWatch
<1> DEFINE AllLossesAnswered ==
             /\ firstRun = run
             /\ \E g \in 1..MaxGenerations : <<run, g>> \in seen \cap lost
             /\ answer \in Snapshots /\ answer.sessionLosses = sessionLosses
<1>1. ASSUME IInv, [Next]_vars
      PROVE  [AllLossesAnswered /\ answer' # answer => watch' = "cold"]_vars
  <2> SUFFICES ASSUME AllLossesAnswered, answer' # answer PROVE watch' = "cold"
    OBVIOUS
  <2>1. answer # NoSnapshot /\ answer # PollFailed
    BY DEF NoSnapshot, PollFailed, Snapshots, WarmStates, ColdStates
  <2>2. seen # {} /\ (warmObserved \/ IsWarm(answer))
    BY <1>1 DEF IInv, Counted
  <2>3. Baseline < answer.sessionLosses
    BY <1>1 DEF IInv, Counted
  <2>4. Baseline \in Nat /\ answer.sessionLosses \in Nat
    BY <1>1 DEF IInv, TypeOK, Baseline, Snapshots
  <2>5. ReadCold \/ ReadStatus
    BY <1>1, <2>1
    DEF Next, vars, Daemon, DaemonStep, Acquire, Operate, Lose, Wait, Stop, Exit,
        Restart, WatchStatus, Poll, PollError, ReadError, Cancel, Ended
  <2>6. ~ReadStatus
    BY <2>2, <2>3, <2>4 DEF ReadStatus, Answered
  <2>7. QED BY <2>5, <2>6 DEF ReadCold, ColdIf
<1>2. QED BY Invariant, <1>1, PTL DEF Spec, LossEndsWatch

=============================================================================
