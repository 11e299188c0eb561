---------------------------- MODULE DeliveryProofs ----------------------------
(***************************************************************************)
(* The inductive invariant of Delivery, for every set of requests and of   *)
(* callers, every limit of the stream and every number of progress         *)
(* responses.  It rests on the invariant of DeviceOps: every step of       *)
(* Delivery is one of DeviceOps for the variables of DeviceOps, or none,   *)
(* or the exit of the daemon.                                              *)
(***************************************************************************)
EXTENDS Delivery, DeviceOpsProofs

\* What a step may do to a request other than receive it.
Beside(o) ==
    \/ OpenSession \/ Environment \/ UNCHANGED opsVars
    \/ \E p \in Operations : AppInvalid(p) \/ Run(p) \/ (p # o /\ Arrive(p))

\* The end of a request and its outcome are final, and only its arrival
\* starts it.
LEMMA RequestStays ==
  ASSUME IInv, NEW o \in Operations, Beside(o)
  PROVE  /\ pc[o] = "done" => pc'[o] = "done" /\ outcome'[o] = outcome[o]
         /\ pc[o] = "idle" => pc'[o] = "idle"
<1>. USE OperationsAssumption DEF Actors, Opener, Free, Go
<1>0. TypeOK /\ Outcomes
  BY DEF IInv
<1>. USE DEF TypeOK
<1>1. CASE OpenSession
  <2>1. CASE OpenBegin \/ TunnelOpens \/ TunnelFails \/ DiscoveryConnects
            \/ DiscoveryFails \/ Handshake
    BY <1>0, <2>1 DEF OpenBegin, TunnelOpens, TunnelFails, DiscoveryConnects,
         DiscoveryFails, Discovery, DiscoveryCloses, Handshake, OpenerStep,
         OpenReturns
  <2>2. CASE Browse(Opener)
    BY <1>0, <2>2 DEF Browse, ListBegins, ListRefused, ListAbandoned, AbandonIf,
         ListReturns, ListReceived, ListError, ListSuccess, ReadinessFails,
         ReadbackReturns, OpenReturns, OpenerStep
  <2>. QED
    BY <1>1, <2>1, <2>2 DEF OpenSession
<1>2. CASE Environment
  BY <1>0, <1>2 DEF Environment, CloseSession, Expire, ListAnswered,
       TransferAnswered, PhoneDecides
<1>3. CASE UNCHANGED opsVars
  BY <1>3 DEF opsVars
<1>4. ASSUME NEW p \in Operations,
             AppInvalid(p) \/ Operate(p) \/ (p # o /\ Arrive(p))
      PROVE  /\ pc[o] = "done" => pc'[o] = "done" /\ outcome'[o] = outcome[o]
             /\ pc[o] = "idle" => pc'[o] = "idle"
  BY <1>0, <1>4 DEF AppInvalid, Arrive, Operate, Lock, TransferBegins,
       TransferRefused, TransferAbandoned, AbandonTransfer, TransferReturns,
       OperationStep, OperationFails, Fail
<1>5. ASSUME NEW p \in Operations, Browse(p)
      PROVE  /\ pc[o] = "done" => pc'[o] = "done" /\ outcome'[o] = outcome[o]
             /\ pc[o] = "idle" => pc'[o] = "idle"
  BY <1>0, <1>5 DEF Browse, ListBegins, ListRefused, ListAbandoned, AbandonIf,
       ListReturns, ListReceived, ListError, ListSuccess, ReadinessFails,
       ReadbackReturns, OpenReturns, OpenerStep
<1>. QED
  BY <1>1, <1>2, <1>3, <1>4, <1>5 DEF Beside, Run

\* What a step of Delivery does to the variables of DeviceOps: after the exit
\* only the phone goes on.
LEMMA PhoneAfterExit ==
  ASSUME AfterExit, NEW o \in Operations, PhoneDecides(o) PROVE AfterExit'
<1>. USE OperationsAssumption DEF Actors, Opener, Free
<1>0. /\ TypeOK /\ SuccessStands
      /\ \A g \in pending : outcome[g] = "error" \/ (outcome[g] = "none" /\ Latest(g))
  BY DEF AfterExit
<1>1. TypeOK'
  BY <1>0 DEF TypeOK, PhoneDecides, tunnelVars, turnVars
<1>2. SuccessStands'
  BY <1>0 DEF TypeOK, SuccessStands, Latest, PhoneDecides, tunnelVars, turnVars
<1>. QED
  BY <1>0, <1>1, <1>2 DEF AfterExit, Latest, PhoneDecides, tunnelVars, turnVars

\* The exit itself leaves pending what was in transfer, and what had failed.
LEMMA ExitHolds == ASSUME IInv, DaemonExits PROVE AfterExit'
<1>. USE OperationsAssumption DEF Actors, Opener, Free, turnVars, phoneVars
<1>0. TypeOK /\ Owner /\ Turns /\ Outcomes /\ Pending /\ SuccessStands
  BY DEF IInv
<1>1. TypeOK'
  BY <1>0 DEF TypeOK, Results, DaemonExits
<1>2. SuccessStands'
  BY <1>0 DEF SuccessStands, DaemonExits
<1>3. \A g \in pending : outcome[g] = "error" \/ (outcome[g] = "none" /\ Latest(g))
  BY <1>0 DEF TypeOK, Owner, Turns, Outcomes, Pending, Busy, TransferPCs
<1>. QED
  BY <1>0, <1>1, <1>2, <1>3 DEF AfterExit, Latest, DaemonExits, TypeOK

\* The end of the context only expires what is in progress.
LEMMA CloseListenerHolds == ASSUME IInv, CloseListener PROVE IInv'
<1>. USE OperationsAssumption DEF tunnelVars, turnVars, phoneVars
<1>1. TypeOK'
  BY DEF IInv, TypeOK, CloseListener
<1>2. Owner' /\ TunnelOwned' /\ Connected' /\ Turns' /\ Outcomes' /\ Pending'
  BY DEF IInv, CloseListener, Owner, TunnelOwned, Connected, Turns, Latest,
     Outcomes, Pending
<1>3. ListTrue' /\ SuccessStands'
  BY DEF IInv, CloseListener, ListTrue, SuccessStands
<1>. QED
  BY <1>1, <1>2, <1>3 DEF IInv

\* The steps of clients and handlers leave the operations alone, or are one of
\* DeviceOps.
LEMMA OperationsHold ==
  ASSUME DeliveryInv, [DeliveryNext]_vars
  PROVE  (IF exited THEN AfterExit ELSE IInv)'
<1>0. IF exited THEN AfterExit ELSE IInv
  BY DEF DeliveryInv
<1>1. CASE \/ UNCHANGED vars
           \/ \E o \in Operations :
                  Call(o) \/ Reject(o) \/ Progress(o) \/ Answer(o) \/ HangUp(o)
  <2>1. UNCHANGED opsVars /\ UNCHANGED exited
    BY <1>1 DEF vars, processVars, Call, ReadOn, Receive, Lose, GiveUp, Leave, Reject,
         Progress, Answer, AnswerWhen, HangUp, HangUpWhen
  <2>2. CASE exited
    BY <1>0, <2>1, <2>2 DEF AfterExit, TypeOK, SuccessStands, Latest, opsVars,
         tunnelVars, turnVars, phoneVars
  <2>. QED
    BY <1>0, <2>1, <2>2, StepHolds
<1>2. CASE /\ ~exited
           /\ \/ RunOpener \/ RunEnvironment
              \/ \E o \in Operations : RunOperation(o) \/ Accept(o) \/ RejectApp(o)
  <2>1. Next /\ UNCHANGED exited
    BY <1>2 DEF RunOpener, RunEnvironment, RunOperation, Accept, RejectApp, Next,
         processVars
  <2>. QED
    BY <1>0, <1>2, <2>1, StepHolds
<1>3. CASE ~exited /\ DaemonExits
  BY <1>0, <1>3, ExitHolds DEF DaemonExits
<1>4. CASE PhoneAlone
  BY <1>0, <1>4, PhoneAfterExit DEF PhoneAlone, processVars
<1>5. CASE ~exited /\ CloseListener
  <2>1. IInv' /\ ~exited'
    BY <1>0, <1>5, CloseListenerHolds DEF CloseListener
  <2>. QED
    BY <2>1
<1>. QED
  BY <1>1, <1>2, <1>3, <1>4, <1>5 DEF DeliveryNext, DaemonRuns, Handle

-----------------------------------------------------------------------------

\* Clients, handlers and the daemon keep the types.
LEMMA DeliveryTyping ==
  ASSUME DeliveryInv, [DeliveryNext]_vars PROVE DeliveryTypeOK'
<1>. USE CallersAssumption, StreamAssumption
     DEF DeliveryTypeOK, Interim, Verdicts, clientVars, streamVars, processVars
<1>0. DeliveryTypeOK
  BY DEF DeliveryInv
<1>1. ASSUME NEW o \in Operations, Call(o) PROVE DeliveryTypeOK'
  <2>1. CASE ReadOn(o)
    BY <1>0, <2>1 DEF ReadOn
  <2>2. ASSUME NEW result \in {"lost", "left", "ok", "error"}, Leave(o, result)
        PROVE  DeliveryTypeOK'
    BY <1>0, <2>2 DEF Leave
  <2>. QED
    BY <1>1, <2>1, <2>2 DEF Call, Receive, Lose, GiveUp
<1>2. ASSUME NEW o \in Operations, ~exited, Handle(o) \/ Progress(o)
      PROVE  DeliveryTypeOK'
  <2>1. ASSUME NEW response \in Interim \cup Verdicts,
               NEW then \in {"open", "final", "closed"}, Encode(o, response, then)
        PROVE  /\ stream' \in [Operations -> Seq(Interim \cup Verdicts)]
               /\ connection' \in [Operations -> {"none", "open", "final", "closed"}]
    BY <1>0, <2>1 DEF Encode
  <2>2. CASE Accept(o) \/ Reject(o)
    BY <1>0, <2>1, <2>2 DEF Accept, Reject
  <2>3. CASE RejectApp(o) \/ HangUp(o)
    BY <1>0, <2>3 DEF RejectApp, HangUp, HangUpWhen
  <2>4. CASE Answer(o)
    <3>1. outcome[o] \in Verdicts
      BY <1>2, <2>4 DEF DeliveryInv, IInv, Outcomes, TypeOK, Answer, AnswerWhen
    <3>. QED
      BY <1>0, <2>1, <2>4, <3>1 DEF Answer, AnswerWhen
  <2>5. CASE Progress(o)
    BY <1>0, <2>1, <2>5 DEF Progress
  <2>. QED
    BY <1>2, <2>2, <2>3, <2>4, <2>5 DEF Handle
<1>3. CASE DaemonExits \/ CloseListener
  BY <1>0, <1>3 DEF DaemonExits, CloseListener
<1>4. CASE \/ RunOpener \/ RunEnvironment \/ PhoneAlone
           \/ \E o \in Operations : RunOperation(o)
  BY <1>0, <1>4 DEF RunOpener, RunEnvironment, RunOperation, PhoneAlone
<1>5. CASE UNCHANGED vars
  BY <1>0, <1>5 DEF vars
<1>. QED
  BY <1>1, <1>2, <1>3, <1>4, <1>5 DEF DeliveryNext, DaemonRuns

\* What becomes of the verdicts in a sequence of responses.
LEMMA TailVerdicts ==
  ASSUME NEW s \in Seq(Interim \cup Verdicts), s # <<>>, Head(s) \in Interim
  PROVE  /\ \A i \in 1..Len(Tail(s)) : i + 1 \in 1..Len(s) /\ Tail(s)[i] = s[i + 1]
         /\ HasVerdict(s) => HasVerdict(Tail(s))
<1>1. /\ Len(s) \in Nat /\ Len(Tail(s)) = Len(s) - 1
      /\ \A i \in 1..Len(Tail(s)) : Tail(s)[i] = s[i + 1]
      /\ Head(s) = s[1]
  OBVIOUS
<1>2. ASSUME NEW i \in 1..Len(s), s[i] \in Verdicts PROVE HasVerdict(Tail(s))
  <2>1. i # 1
    BY <1>1, <1>2 DEF Interim, Verdicts
  <2>2. i - 1 \in 1..Len(Tail(s)) /\ Tail(s)[i - 1] = s[i]
    BY <1>1, <2>1
  <2>. QED
    BY <1>2, <2>2 DEF HasVerdict
<1>. QED
  BY <1>1, <1>2 DEF HasVerdict

LEMMA AppendVerdicts ==
  ASSUME NEW s \in Seq(Interim \cup Verdicts), NEW r \in Interim \cup Verdicts
  PROVE  /\ \A i \in 1..Len(Append(s, r)) :
                \/ i \in 1..Len(s) /\ Append(s, r)[i] = s[i]
                \/ Append(s, r)[i] = r
         /\ HasVerdict(s) \/ r \in Verdicts => HasVerdict(Append(s, r))
<1>1. /\ Len(s) \in Nat /\ Len(Append(s, r)) = Len(s) + 1
      /\ \A i \in 1..Len(s) : Append(s, r)[i] = s[i]
      /\ Append(s, r)[Len(s) + 1] = r
  OBVIOUS
<1>. QED
  BY <1>1 DEF HasVerdict

\* No operation takes back what was told about its request.
LEMMA ToldStays ==
  ASSUME DeliveryInv, ~exited, NEW o \in Operations, Beside(o),
         UNCHANGED <<clientVars, streamVars>>
  PROVE  Truthful(o)'
<1>1. /\ pc[o] = "done" => pc'[o] = "done" /\ outcome'[o] = outcome[o]
      /\ pc[o] = "idle" => pc'[o] = "idle"
  BY RequestStays DEF DeliveryInv
<1>2. Truthful(o) /\ UNCHANGED <<stream, connection, client>>
  BY DEF DeliveryInv, Responses, clientVars, streamVars
<1>. QED
  BY <1>1, <1>2 DEF Truthful, Told

\* Nor does a step that leaves the request and its responses alone.
LEMMA UntouchedTruthful ==
  ASSUME NEW o \in Operations, Truthful(o),
         stream'[o] = stream[o], client'[o] = client[o],
         pc'[o] = pc[o], outcome'[o] = outcome[o],
         connection'[o] = "none" <=> connection[o] = "none"
  PROVE  Truthful(o)'
  BY DEF Truthful, Told

\* A handler encodes interim responses, and verdicts that are true.
LEMMA EncodeTruthful ==
  ASSUME DeliveryTypeOK, NEW o \in Operations, Truthful(o), UNCHANGED client,
         NEW response \in Interim \cup Verdicts,
         NEW then \in {"open", "final", "closed"}, Encode(o, response, then),
         \/ pc'[o] = pc[o] /\ outcome'[o] = outcome[o]
         \/ pc[o] = "idle" /\ connection[o] = "none" /\ response = "accepted",
         \/ response \in Interim
         \/ response = outcome'[o] /\ pc'[o] = "done"
         \/ response = "error" /\ pc'[o] = "idle"
  PROVE  Truthful(o)'
<1>1. connection'[o] # "none"
  BY DEF DeliveryTypeOK, Encode
<1>2. \A i \in 1..Len(stream'[o]) :
         \/ i \in 1..Len(stream[o]) /\ stream'[o][i] = stream[o][i]
         \/ stream'[o][i] = response
  <2>1. /\ stream[o] \in Seq(Interim \cup Verdicts)
        /\ stream'[o] = stream[o] \/ stream'[o] = Append(stream[o], response)
    BY DEF DeliveryTypeOK, Encode
  <2>2. CASE stream'[o] = stream[o]
    BY <2>2
  <2>3. CASE stream'[o] = Append(stream[o], response)
    BY <2>1, <2>3, AppendVerdicts
  <2>. QED
    BY <2>1, <2>2, <2>3
<1>. QED
  BY <1>1, <1>2 DEF Truthful, Told, Interim, Verdicts

\* Every verdict on its way or received is true.
LEMMA ResponsesHold ==
  ASSUME DeliveryInv, [DeliveryNext]_vars PROVE Responses'
<1>. SUFFICES ASSUME NEW p \in Operations PROVE Truthful(p)'
  BY DEF Responses
<1>0. DeliveryTypeOK /\ Truthful(p)
  BY DEF DeliveryInv, Responses
<1>. USE DEF clientVars, streamVars, processVars
<1>1. ASSUME NEW o \in Operations, Call(o) PROVE Truthful(p)'
  <2>1. /\ UNCHANGED <<pc, outcome>>
        /\ o # p => stream'[p] = stream[p] /\ client'[p] = client[p]
        /\ connection'[p] = "none" <=> connection[p] = "none"
    BY <1>0, <1>1 DEF Call, ReadOn, Receive, Lose, GiveUp, Leave, opsVars,
         DeliveryTypeOK
  <2>2. CASE o # p
    BY <1>0, <2>1, <2>2, UntouchedTruthful
  <2>3. CASE ReadOn(p)
    <3>1. /\ stream'[p] = Tail(stream[p]) /\ UNCHANGED client
          /\ stream[p] \in Seq(Interim \cup Verdicts)
          /\ stream[p] # <<>> /\ Head(stream[p]) \in Interim
      BY <1>0, <2>3 DEF ReadOn, DeliveryTypeOK
    <3>2. \A i \in 1..Len(stream'[p]) :
             i + 1 \in 1..Len(stream[p]) /\ stream'[p][i] = stream[p][i + 1]
      BY <3>1, TailVerdicts
    <3>. QED
      BY <1>0, <2>1, <3>1, <3>2 DEF Truthful, Told
  <2>4. ASSUME NEW result \in {"lost", "left", "ok", "error"}, Leave(p, result),
               result \in Verdicts => Told(p, result)
        PROVE  Truthful(p)'
    <3>1. stream'[p] = <<>> /\ client'[p] = result
      BY <1>0, <2>4 DEF Leave, DeliveryTypeOK
    <3>. QED
      BY <1>0, <2>1, <2>4, <3>1 DEF Truthful, Told
  <2>5. CASE Receive(p)
    <3>1. /\ stream[p] \in Seq(Interim \cup Verdicts) /\ stream[p] # <<>>
          /\ Head(stream[p]) \in Verdicts /\ Leave(p, Head(stream[p]))
      BY <1>0, <2>5 DEF Receive, DeliveryTypeOK
    <3>2. 1 \in 1..Len(stream[p]) /\ Head(stream[p]) = stream[p][1]
      BY <3>1
    <3>. QED
      BY <1>0, <2>4, <3>1, <3>2 DEF Truthful, Verdicts
  <2>. QED
    BY <1>1, <2>2, <2>3, <2>4, <2>5 DEF Call, Lose, GiveUp, Verdicts
<1>2. ASSUME NEW o \in Operations, ~exited,
             Accept(o) \/ Reject(o) \/ Progress(o) \/ Answer(o)
      PROVE  Truthful(p)'
  <2>1. CASE o # p
    <3>1. /\ stream'[p] = stream[p] /\ client'[p] = client[p]
          /\ connection'[p] = connection[p]
      BY <1>0, <1>2, <2>1 DEF Accept, Reject, Progress, Answer, AnswerWhen, Encode,
           DeliveryTypeOK
    <3>2. pc'[p] = pc[p] /\ outcome'[p] = outcome[p]
      <4>1. CASE Accept(o)
        BY <1>2, <2>1, <4>1
        DEF DeliveryInv, IInv, TypeOK, Accept, Arrive, OperationStep, Go, Actors
      <4>. QED
        BY <1>2, <4>1 DEF Reject, Progress, Answer, AnswerWhen, opsVars
    <3>. QED
      BY <1>0, <3>1, <3>2, UntouchedTruthful
  <2>2. CASE Accept(p)
    BY <1>0, <2>2, EncodeTruthful DEF Accept, Arrive, OperationStep, Go, Interim
  <2>3. CASE Reject(p)
    BY <1>0, <2>3, EncodeTruthful DEF Reject, opsVars, Verdicts, Truthful
  <2>4. CASE Progress(p)
    <3>1. connection[p] \in {"open", "final", "closed"}
      BY <2>4 DEF Progress
    <3>. QED
      BY <1>0, <2>4, <3>1, EncodeTruthful DEF Progress, opsVars, Interim
  <2>5. CASE Answer(p)
    <3>1. outcome[p] \in Verdicts
      BY <1>2, <2>5
      DEF DeliveryInv, IInv, Outcomes, TypeOK, Answer, AnswerWhen, Verdicts
    <3>. QED
      BY <1>0, <2>5, <3>1, EncodeTruthful DEF Answer, AnswerWhen, opsVars
  <2>. QED
    BY <1>2, <2>1, <2>2, <2>3, <2>4, <2>5
<1>3. ASSUME NEW o \in Operations, HangUp(o) PROVE Truthful(p)'
  BY <1>0, <1>3, UntouchedTruthful DEF HangUp, HangUpWhen, opsVars, DeliveryTypeOK
<1>4. CASE ~exited /\ DaemonExits
  <2>1. /\ pc'[p] = pc[p] /\ connection'[p] = "closed"
        /\ UNCHANGED <<outcome, stream, client>>
    BY <1>4, OperationsAssumption
    DEF DaemonExits, DeliveryInv, IInv, TypeOK, Actors, Opener
  <2>. QED
    BY <1>0, <2>1 DEF Truthful, Told
<1>5. CASE /\ ~exited
           /\ \/ RunOpener \/ RunEnvironment
              \/ \E o \in Operations : RunOperation(o) \/ RejectApp(o)
  <2>1. Beside(p) /\ UNCHANGED <<clientVars, streamVars>>
    BY <1>5 DEF RunOpener, RunEnvironment, RunOperation, RejectApp, Beside
  <2>. QED
    BY <1>5, <2>1, ToldStays
<1>6. CASE PhoneAlone \/ UNCHANGED vars
  BY <1>0, <1>6, UntouchedTruthful DEF PhoneAlone, PhoneDecides, vars, opsVars
<1>7. CASE CloseListener
  <2>1. /\ UNCHANGED <<pc, outcome, stream, client>>
        /\ connection'[p] \in {connection[p], "closed"}
        /\ connection'[p] = "none" => connection[p] = "none"
    BY <1>0, <1>7 DEF CloseListener, DeliveryTypeOK
  <2>. QED
    BY <1>0, <2>1 DEF Truthful, Told
<1>. QED
  BY <1>1, <1>2, <1>3, <1>4, <1>5, <1>6, <1>7 DEF DeliveryNext, DaemonRuns, Handle

\* A request that was dropped stays so: nothing arrives on a closed connection.
LEMMA DroppedStays ==
  ASSUME DeliveryInv, [DeliveryNext]_vars, ~exited',
         NEW p \in Operations, Dropped(p)
  PROVE  Dropped(p)'
<1>. USE DEF clientVars, streamVars, processVars, Dropped
<1>0. DeliveryTypeOK /\ stopping /\ connection[p] = "closed" /\ pc[p] = "idle"
  BY DEF DeliveryInv
<1>1. ASSUME NEW o \in Operations,
             Call(o) \/ Reject(o) \/ Progress(o) \/ Answer(o) \/ HangUp(o)
      PROVE  Dropped(p)'
  BY <1>0, <1>1 DEF Call, ReadOn, Receive, Lose, GiveUp, Leave, Reject, Progress,
       Answer, AnswerWhen, HangUp, HangUpWhen, Encode, opsVars, DeliveryTypeOK
<1>2. ASSUME NEW o \in Operations, ~exited, Accept(o) PROVE Dropped(p)'
  <2>1. o # p /\ Arrive(o) /\ connection'[p] = connection[p] /\ UNCHANGED stopping
    BY <1>0, <1>2 DEF Accept, Encode, DeliveryTypeOK
  <2>2. pc'[p] = "idle"
    BY <1>0, <1>2, <2>1, RequestStays DEF Beside, DeliveryInv
  <2>. QED
    BY <1>0, <2>1, <2>2
<1>3. CASE /\ ~exited
           /\ \/ RunOpener \/ RunEnvironment
              \/ \E o \in Operations : RunOperation(o) \/ RejectApp(o)
  <2>1. Beside(p) /\ UNCHANGED <<connection, stopping>>
    BY <1>3 DEF RunOpener, RunEnvironment, RunOperation, RejectApp, Beside
  <2>2. pc'[p] = "idle"
    BY <1>0, <1>3, <2>1, RequestStays DEF DeliveryInv
  <2>. QED
    BY <1>0, <2>1, <2>2
<1>4. CASE CloseListener \/ DaemonExits \/ PhoneAlone \/ UNCHANGED vars
  BY <1>0, <1>4 DEF CloseListener, DaemonExits, PhoneAlone, PhoneDecides, vars, opsVars
<1>. QED
  BY <1>1, <1>2, <1>3, <1>4 DEF DeliveryNext, DaemonRuns, Handle

\* A connection that is closed under a client has brought it a verdict, unless
\* its request was dropped.
LEMMA AnsweredHolds ==
  ASSUME DeliveryInv, [DeliveryNext]_vars PROVE Answered'
<1>. SUFFICES ASSUME NEW p \in Operations, ~exited', client'[p] = "waiting",
                     connection'[p] \in {"final", "closed"},
                     ~Dropped(p), ~Dropped(p)'
              PROVE  HasVerdict(stream'[p])
  BY DroppedStays DEF Answered, HasVerdict
<1>0. /\ DeliveryTypeOK /\ stream[p] \in Seq(Interim \cup Verdicts)
      /\ ~exited /\ client[p] = "waiting" /\ connection[p] \in {"final", "closed"} =>
             HasVerdict(stream[p])
  BY DEF DeliveryInv, DeliveryTypeOK, Answered
<1>. USE DEF clientVars, streamVars, processVars
<1>1. ASSUME NEW o \in Operations, Call(o) PROVE HasVerdict(stream'[p])
  <2>1. CASE ReadOn(o)
    <3>1. /\ ~exited /\ client[p] = "waiting" /\ connection[p] \in {"final", "closed"}
          /\ o # p => stream'[p] = stream[p]
          /\ o = p => /\ stream'[p] = Tail(stream[p])
                      /\ stream[p] # <<>> /\ Head(stream[p]) \in Interim
      BY <1>0, <2>1 DEF ReadOn, DeliveryTypeOK
    <3>. QED
      BY <1>0, <3>1, TailVerdicts
  <2>2. ASSUME NEW result \in {"lost", "left", "ok", "error"}, Leave(o, result)
        PROVE  HasVerdict(stream'[p])
    BY <1>0, <2>2 DEF Leave, DeliveryTypeOK
  <2>. QED
    BY <1>1, <2>1, <2>2 DEF Call, Receive, Lose, GiveUp, Verdicts
<1>2. ASSUME NEW o \in Operations, NEW response \in Interim \cup Verdicts,
             NEW then \in {"open", "final", "closed"}, Encode(o, response, then),
             then = "open" \/ response \in Verdicts \/ then = connection[o],
             UNCHANGED <<client, exited>>
      PROVE  HasVerdict(stream'[p])
  <2>1. CASE o # p
    BY <1>0, <1>2, <2>1 DEF Encode, DeliveryTypeOK
  <2>2. CASE o = p
    <3>1. stream'[p] = Append(stream[p], response) /\ connection'[p] = then
      BY <1>0, <1>2, <2>2 DEF Encode, Waiting, DeliveryTypeOK
    <3>2. HasVerdict(stream[p]) \/ response \in Verdicts
      BY <1>0, <1>2, <2>2, <3>1
    <3>. QED
      BY <1>0, <3>1, <3>2, AppendVerdicts
  <2>. QED
    BY <2>1, <2>2
<1>3. ASSUME NEW o \in Operations, ~exited,
             Accept(o) \/ Reject(o) \/ Progress(o) \/ Answer(o)
      PROVE  HasVerdict(stream'[p])
  <2>1. CASE Accept(o)
    BY <1>2, <2>1 DEF Accept, Interim
  <2>2. CASE Reject(o)
    BY <1>2, <2>2 DEF Reject, Verdicts
  <2>3. CASE Progress(o)
    BY <1>2, <2>3 DEF Progress, Interim
  <2>4. CASE Answer(o)
    <3>1. outcome[o] \in Verdicts
      BY <1>3, <2>4
      DEF DeliveryInv, IInv, Outcomes, TypeOK, Answer, AnswerWhen, Verdicts
    <3>. QED
      BY <1>2, <2>4, <3>1 DEF Answer, AnswerWhen
  <2>. QED
    BY <1>3, <2>1, <2>2, <2>3, <2>4
<1>4. ASSUME NEW o \in Operations, HangUp(o) PROVE HasVerdict(stream'[p])
  BY <1>0, <1>4 DEF HangUp, HangUpWhen, DeliveryTypeOK
<1>5. CASE DaemonExits \/ (~exited /\ CloseListener)
  <2>1. CASE DaemonExits
    BY <2>1 DEF DaemonExits
  <2>2. CASE ~exited /\ CloseListener
    <3>1. UNCHANGED <<pc, stream, client>> /\ stopping'
      BY <2>2 DEF CloseListener
    <3>2. connection[p] # "none"
      <4>1. SUFFICES ASSUME connection[p] = "none" PROVE FALSE
        OBVIOUS
      <4>2. connection'[p] \in {connection[p], "closed"} /\ pc[p] = "idle"
        BY <2>2, <4>1 DEF CloseListener, DeliveryInv, Responses, Truthful
      <4>. QED
        BY <3>1, <4>1, <4>2 DEF Dropped
    <3>3. connection'[p] = connection[p]
      BY <2>2, <3>2 DEF CloseListener
    <3>. QED
      BY <1>0, <2>2, <3>1, <3>3
  <2>. QED
    BY <1>5, <2>1, <2>2
<1>6. CASE \/ RunOpener \/ RunEnvironment \/ PhoneAlone \/ UNCHANGED vars
           \/ \E o \in Operations : RunOperation(o) \/ RejectApp(o)
  BY <1>0, <1>6
  DEF RunOpener, RunEnvironment, RunOperation, RejectApp, PhoneAlone, vars
<1>. QED
  BY <1>1, <1>3, <1>4, <1>5, <1>6 DEF DeliveryNext, DaemonRuns, Handle

\* The command lines have sent their requests, and nothing has been read.
LEMMA DeliveryInitHolds == DeliveryInit => DeliveryInv
<1>. SUFFICES ASSUME DeliveryInit PROVE DeliveryInv
  OBVIOUS
<1>1. IInv /\ ~exited
  BY InitHolds DEF DeliveryInit
<1>2. DeliveryTypeOK
  <2>1. 0 \in 0..StreamLimit /\ 0 \in 0..MaxProgress
    BY StreamAssumption
  <2>2. <<>> \in Seq(Interim \cup Verdicts)
    OBVIOUS
  <2>. QED
    BY <2>1, <2>2 DEF DeliveryInit, DeliveryTypeOK
<1>3. Responses /\ Answered
  BY OperationsAssumption
  DEF DeliveryInit, Responses, Truthful, Answered, Verdicts,
      Init, Actors, Opener
<1>. QED
  BY <1>1, <1>2, <1>3 DEF DeliveryInv

\* The inductive invariant of requests from the command line to the phone, for
\* every set of requests and callers and every limit of the stream.
THEOREM DeliveryInvariant == DeliverySpec => []DeliveryInv
<1>1. DeliveryInv /\ [DeliveryNext]_vars => DeliveryInv'
  BY OperationsHold, DeliveryTyping, ResponsesHold, AnsweredHolds
  DEF DeliveryInv
<1>. QED
  BY DeliveryInitHolds, <1>1, PTL DEF DeliverySpec

\* control.go:152-157: the command line reports how the operation ended.
THEOREM VerdictTrueHolds == DeliverySpec => []VerdictTrue
<1>1. DeliveryInv => VerdictTrue
  BY DEF DeliveryInv, Responses, Truthful, Told, VerdictTrue
<1>. QED
  BY DeliveryInvariant, <1>1, PTL

\* control.go:137: responses that end without a verdict before the deadline of
\* the client mean that the daemon is gone, that the client has read all that it
\* would, or that a stop came before its request was accepted.
THEOREM LostExplainedHolds == DeliverySpec => LostExplained
<1> DEFINE Explained(o) == exited \/ taken[o] = StreamLimit \/ Dropped(o)
<1>1. ASSUME DeliveryInv, [DeliveryNext]_vars
      PROVE  [\A o \in Operations :
                 client'[o] = "lost" /\ client[o] # "lost" => Explained(o)]_vars
  <2>. SUFFICES ASSUME NEW o \in Operations, client'[o] = "lost", client[o] # "lost"
                PROVE  Explained(o)
    OBVIOUS
  <2>. USE DEF clientVars, streamVars, processVars
  <2>0. DeliveryTypeOK /\ Answered
    BY <1>1 DEF DeliveryInv
  <2>1. PICK p \in Operations : Call(p)
    BY <1>1 DEF DeliveryNext, DaemonRuns, RunOpener, RunEnvironment, CloseListener,
         DaemonExits, RunOperation, Handle, Accept, Reject, RejectApp, Answer,
         AnswerWhen, HangUp, HangUpWhen, Progress, PhoneAlone, vars
  <2>2. o = p /\ Lose(o)
    BY <2>0, <2>1
    DEF Call, ReadOn, Receive, Lose, GiveUp, Leave, Verdicts, DeliveryTypeOK
  <2>3. CASE stream[o] = <<>> /\ connection[o] = "closed"
    <3>1. client[o] = "waiting" /\ ~HasVerdict(stream[o])
      BY <2>2, <2>3 DEF Lose, Leave, HasVerdict
    <3>. QED
      BY <2>0, <2>3, <3>1 DEF Answered
  <2>. QED
    BY <2>2, <2>3 DEF Lose
<1>. QED
  BY DeliveryInvariant, <1>1, PTL DEF DeliverySpec, LostExplained

\* The exit of the daemon, and the requests that the phone carries out after
\* it, leave the promises about tunnel, connections and successes in force.
THEOREM PromisesSurviveExit ==
  DeliverySpec => [](TunnelOwned /\ ConnectionsOwned /\ SuccessStands)
<1>1. DeliveryInv => TunnelOwned /\ ConnectionsOwned /\ SuccessStands
  <2>1. CASE ~exited
    BY <2>1, OneConnection DEF DeliveryInv, IInv
  <2>2. CASE exited
    BY <2>2 DEF DeliveryInv, AfterExit, TunnelOwned, ConnectionsOwned, ListPCs
  <2>. QED
    BY <2>1, <2>2
<1>. QED
  BY DeliveryInvariant, <1>1, PTL

=============================================================================
