--------------------------- MODULE DeviceOpsProofs ---------------------------
(***************************************************************************)
(* The inductive invariant of DeviceOps, for every set of requests and     *)
(* commands.  One lemma for each of its conjuncts, one step for each part  *)
(* of Next: what the connection loop does, the app lists, the operations,  *)
(* and the environment.                                                    *)
(***************************************************************************)
EXTENDS DeviceOps, TLAPS

\* Every step keeps the types.
LEMMA Typing == ASSUME IInv, [Next]_opsVars PROVE TypeOK'
<1>. USE OperationsAssumption DEF Actors, Opener, Free, TypeOK, Results, Busy,
       OpenerPCs, TransferPCs, ListPCs, Go, Connect, Disconnect, tunnelVars,
       turnVars, phoneVars
<1>0. TypeOK
  BY DEF IInv
<1>1. CASE OpenBegin \/ TunnelOpens \/ TunnelFails \/ DiscoveryConnects
          \/ DiscoveryFails \/ Handshake
  <2>. USE DEF OpenerStep, OpenReturns
  <2>1. CASE OpenBegin
    BY <1>0, <2>1 DEF OpenBegin
  <2>2. CASE TunnelOpens
    BY <1>0, <2>2 DEF TunnelOpens
  <2>3. CASE TunnelFails
    BY <1>0, <2>3 DEF TunnelFails
  <2>4. CASE DiscoveryConnects
    BY <1>0, <2>4 DEF DiscoveryConnects
  <2>5. CASE DiscoveryFails
    <3>1. PICK from \in {"dialing", "handshaking"} : DiscoveryCloses(from, FALSE)
      BY <2>5 DEF DiscoveryFails, Discovery
    <3>. QED
      BY <1>0, <3>1 DEF DiscoveryCloses
  <2>6. CASE Handshake
    BY <1>0, <2>6 DEF Handshake
  <2>. QED
    BY <1>1, <2>1, <2>2, <2>3, <2>4, <2>5, <2>6
<1>2. ASSUME NEW a \in Actors, Browse(a) PROVE TypeOK'
  <2>1. CASE ListBegins(a)
    BY <1>0, <2>1 DEF ListBegins
  <2>2. CASE ListRefused(a) \/ ListAbandoned(a) \/ ListReturns(a)
    <3>1. CASE a = Opener
      <4>1. /\ connections' \subseteq connections
            /\ list' = list \/ list' = [list EXCEPT ![a] = "none"]
        BY <2>2 DEF ListRefused, ListAbandoned, AbandonIf, ListReturns,
             ListReceived, EndList
      <4>2. /\ \E from \in ListPCs, published \in BOOLEAN :
                   OpenReturns(from, published)
            /\ tunnel' = FALSE \/ UNCHANGED tunnel
        BY <2>2, <3>1 DEF ListRefused, ListAbandoned, AbandonIf, ListReturns,
             ListReceived, ListError, ListSuccess, ReadinessFails
      <4>3. tunnel' \in BOOLEAN /\ session' \in BOOLEAN
        BY <1>0, <4>2 DEF OpenReturns
      <4>4. /\ pc' = [pc EXCEPT ![Opener] = "idle"] /\ operationMu' = Free
            /\ expired' \subseteq expired
            /\ UNCHANGED <<command, transfer, outcome, turn, turns, installed,
                           pending, writer>>
        BY <4>2 DEF OpenReturns, OpenerStep
      <4>. QED
        BY <1>0, <4>1, <4>3, <4>4
    <3>2. CASE a # Opener
      <4>1. /\ connections' \subseteq connections
            /\ list' = list \/ list' = [list EXCEPT ![a] = "none"]
        BY <2>2 DEF ListRefused, ListAbandoned, AbandonIf, ListReturns,
             ListReceived, EndList
      <4>2. \E from \in ListPCs, result \in {"error", "ok"} :
                ReadbackReturns(a, from, result)
        BY <2>2, <3>2 DEF ListRefused, ListAbandoned, AbandonIf, ListReturns,
             ListReceived, ListError, ListSuccess
      <4>. QED
        BY <1>0, <3>2, <4>1, <4>2 DEF ReadbackReturns
    <3>. QED
      BY <3>1, <3>2
  <2>. QED
    BY <1>2, <2>1, <2>2 DEF Browse
<1>3. ASSUME NEW o \in Operations, Arrive(o) \/ AppInvalid(o) \/ Operate(o)
      PROVE  TypeOK'
  BY <1>0, <1>3 DEF Arrive, AppInvalid, Operate, Lock, TransferBegins,
         TransferRefused, TransferAbandoned, AbandonTransfer, TransferReturns,
         OperationStep, OperationFails, Fail
<1>4. CASE Environment
  <2>1. CASE CloseSession
    BY <1>0, <2>1 DEF CloseSession
  <2>2. ASSUME NEW a \in Actors, Expire(a) PROVE TypeOK'
    BY <1>0, <2>2 DEF Expire
  <2>3. ASSUME NEW a \in Actors, ListAnswered(a) PROVE TypeOK'
    BY <1>0, <2>3 DEF ListAnswered
  <2>4. ASSUME NEW o \in Operations, TransferAnswered(o) PROVE TypeOK'
    BY <1>0, <2>4 DEF TransferAnswered
  <2>5. ASSUME NEW o \in Operations, PhoneDecides(o) PROVE TypeOK'
    BY <1>0, <2>5 DEF PhoneDecides
  <2>. QED
    BY <1>4, <2>1, <2>2, <2>3, <2>4, <2>5 DEF Environment
<1>5. CASE UNCHANGED opsVars
  BY <1>0, <1>5 DEF opsVars
<1>. QED
  BY <1>1, <1>2, <1>3, <1>4, <1>5 DEF Next, OpenSession, Run

\* operationMu is held by the one that is busy.
LEMMA OwnerStays == ASSUME IInv, [Next]_opsVars PROVE Owner'
<1>. USE OperationsAssumption DEF Actors, Opener, Free, TypeOK, Owner, Busy,
       OpenerPCs, TransferPCs, ListPCs
<1>0. TypeOK /\ Owner
  BY DEF IInv
<1>1. CASE OpenBegin \/ TunnelOpens \/ TunnelFails \/ DiscoveryConnects
          \/ DiscoveryFails \/ Handshake
  BY <1>0, <1>1 DEF OpenBegin, TunnelOpens, TunnelFails,
         DiscoveryConnects, DiscoveryFails, Discovery, DiscoveryCloses,
         Handshake, OpenerStep, OpenReturns, Go, Connect, Disconnect,
         tunnelVars, turnVars, phoneVars
<1>2. ASSUME NEW a \in Actors, Browse(a) PROVE Owner'
  BY <1>0, <1>2 DEF Browse, ListBegins, ListRefused, ListAbandoned,
         AbandonIf, ListReturns, ListReceived, ListError, ListSuccess,
         ReadinessFails, ReadbackReturns, ReadBack, EndList, OpenerStep,
         OpenReturns, Go, Connect, Disconnect, tunnelVars, turnVars, phoneVars
<1>3. ASSUME NEW o \in Operations, Arrive(o) \/ AppInvalid(o) \/ Operate(o)
      PROVE  Owner'
  BY <1>0, <1>3 DEF Arrive, AppInvalid, Operate, Lock, TransferBegins,
         TransferRefused, TransferAbandoned, AbandonTransfer, TransferReturns,
         OperationStep, OperationFails, Fail, Go, Connect, Disconnect,
         tunnelVars, turnVars, phoneVars
<1>4. CASE Environment
  BY <1>0, <1>4 DEF Environment, CloseSession, Expire, ListAnswered,
         TransferAnswered, PhoneDecides, tunnelVars, turnVars, phoneVars
<1>5. CASE UNCHANGED opsVars
  BY <1>0, <1>5 DEF opsVars, tunnelVars, turnVars, phoneVars
<1>. QED
  BY <1>1, <1>2, <1>3, <1>4, <1>5 DEF Next, OpenSession, Run

\* A tunnel is open exactly while somebody has to close it.
LEMMA TunnelStays == ASSUME IInv, [Next]_opsVars PROVE TunnelOwned'
<1>. USE OperationsAssumption DEF Actors, Opener, Free, TypeOK, Owner,
       TunnelOwned, Busy, OpenerPCs, TransferPCs, ListPCs
<1>0. TypeOK /\ Owner /\ TunnelOwned
  BY DEF IInv
<1>1. CASE OpenBegin \/ TunnelOpens \/ TunnelFails \/ DiscoveryConnects
          \/ DiscoveryFails \/ Handshake
  BY <1>0, <1>1 DEF OpenBegin, TunnelOpens, TunnelFails,
         DiscoveryConnects, DiscoveryFails, Discovery, DiscoveryCloses,
         Handshake, OpenerStep, OpenReturns, Go, Connect, Disconnect,
         tunnelVars, turnVars, phoneVars
<1>2. ASSUME NEW a \in Actors, Browse(a) PROVE TunnelOwned'
  BY <1>0, <1>2 DEF Browse, ListBegins, ListRefused, ListAbandoned,
         AbandonIf, ListReturns, ListReceived, ListError, ListSuccess,
         ReadinessFails, ReadbackReturns, ReadBack, EndList, OpenerStep,
         OpenReturns, Go, Connect, Disconnect, tunnelVars, turnVars, phoneVars
<1>3. ASSUME NEW o \in Operations, Arrive(o) \/ AppInvalid(o) \/ Operate(o)
      PROVE  TunnelOwned'
  BY <1>0, <1>3 DEF Arrive, AppInvalid, Operate, Lock, TransferBegins,
         TransferRefused, TransferAbandoned, AbandonTransfer, TransferReturns,
         OperationStep, OperationFails, Fail, Go, Connect, Disconnect,
         tunnelVars, turnVars, phoneVars
<1>4. CASE Environment
  BY <1>0, <1>4 DEF Environment, CloseSession, Expire, ListAnswered,
         TransferAnswered, PhoneDecides, tunnelVars, turnVars, phoneVars
<1>5. CASE UNCHANGED opsVars
  BY <1>0, <1>5 DEF opsVars, tunnelVars, turnVars, phoneVars
<1>. QED
  BY <1>1, <1>2, <1>3, <1>4, <1>5 DEF Next, OpenSession, Run

\* A connection is open only in the step that uses it.
LEMMA ConnectedStays == ASSUME IInv, [Next]_opsVars PROVE Connected'
<1>. USE OperationsAssumption DEF Actors, Opener, Free, TypeOK, Connected,
       Owner, Busy, OpenerPCs, TransferPCs, ListPCs
<1>0. TypeOK /\ Owner /\ Connected
  BY DEF IInv
<1>1. CASE OpenBegin \/ TunnelOpens \/ TunnelFails \/ DiscoveryConnects
          \/ DiscoveryFails \/ Handshake
  BY <1>0, <1>1 DEF OpenBegin, TunnelOpens, TunnelFails,
         DiscoveryConnects, DiscoveryFails, Discovery, DiscoveryCloses,
         Handshake, OpenerStep, OpenReturns, Go, Connect, Disconnect,
         tunnelVars, turnVars, phoneVars
<1>2. ASSUME NEW a \in Actors, Browse(a) PROVE Connected'
  BY <1>0, <1>2 DEF Browse, ListBegins, ListRefused, ListAbandoned,
         AbandonIf, ListReturns, ListReceived, ListError, ListSuccess,
         ReadinessFails, ReadbackReturns, ReadBack, EndList, OpenerStep,
         OpenReturns, Go, Connect, Disconnect, tunnelVars, turnVars, phoneVars
<1>3. ASSUME NEW o \in Operations, Arrive(o) \/ AppInvalid(o) \/ Operate(o)
      PROVE  Connected'
  BY <1>0, <1>3 DEF Arrive, AppInvalid, Operate, Lock, TransferBegins,
         TransferRefused, TransferAbandoned, AbandonTransfer, TransferReturns,
         OperationStep, OperationFails, Fail, Go, Connect, Disconnect,
         tunnelVars, turnVars, phoneVars
<1>4. CASE Environment
  BY <1>0, <1>4 DEF Environment, CloseSession, Expire, ListAnswered,
         TransferAnswered, PhoneDecides, tunnelVars, turnVars, phoneVars
<1>5. CASE UNCHANGED opsVars
  BY <1>0, <1>5 DEF opsVars, tunnelVars, turnVars, phoneVars
<1>. QED
  BY <1>1, <1>2, <1>3, <1>4, <1>5 DEF Next, OpenSession, Run

\* The owner of operationMu got it last.
LEMMA TurnsStay == ASSUME IInv, [Next]_opsVars PROVE Turns'
<1>. USE OperationsAssumption DEF Actors, Opener, Free, TypeOK, Turns,
       Latest, Owner, Busy, OpenerPCs, TransferPCs, ListPCs
<1>0. TypeOK /\ Owner /\ Turns
  BY DEF IInv
<1>1. CASE OpenBegin \/ TunnelOpens \/ TunnelFails \/ DiscoveryConnects
          \/ DiscoveryFails \/ Handshake
  BY <1>0, <1>1 DEF OpenBegin, TunnelOpens, TunnelFails,
         DiscoveryConnects, DiscoveryFails, Discovery, DiscoveryCloses,
         Handshake, OpenerStep, OpenReturns, Go, Connect, Disconnect,
         tunnelVars, turnVars, phoneVars
<1>2. ASSUME NEW a \in Actors, Browse(a) PROVE Turns'
  BY <1>0, <1>2 DEF Browse, ListBegins, ListRefused, ListAbandoned,
         AbandonIf, ListReturns, ListReceived, ListError, ListSuccess,
         ReadinessFails, ReadbackReturns, ReadBack, EndList, OpenerStep,
         OpenReturns, Go, Connect, Disconnect, tunnelVars, turnVars, phoneVars
<1>3. ASSUME NEW o \in Operations, Arrive(o) \/ AppInvalid(o) \/ Operate(o)
      PROVE  Turns'
  BY <1>0, <1>3 DEF Arrive, AppInvalid, Operate, Lock, TransferBegins,
         TransferRefused, TransferAbandoned, AbandonTransfer, TransferReturns,
         OperationStep, OperationFails, Fail, Go, Connect, Disconnect,
         tunnelVars, turnVars, phoneVars
<1>4. CASE Environment
  BY <1>0, <1>4 DEF Environment, CloseSession, Expire, ListAnswered,
         TransferAnswered, PhoneDecides, tunnelVars, turnVars, phoneVars
<1>5. CASE UNCHANGED opsVars
  BY <1>0, <1>5 DEF opsVars, tunnelVars, turnVars, phoneVars
<1>. QED
  BY <1>1, <1>2, <1>3, <1>4, <1>5 DEF Next, OpenSession, Run

\* A request has an outcome exactly when it is done.
LEMMA OutcomesStay == ASSUME IInv, [Next]_opsVars PROVE Outcomes'
<1>. USE OperationsAssumption DEF Actors, Opener, Free, TypeOK, Outcomes,
       Owner, Busy, OpenerPCs, TransferPCs, ListPCs
<1>0. TypeOK /\ Owner /\ Outcomes
  BY DEF IInv
<1>1. CASE OpenBegin \/ TunnelOpens \/ TunnelFails \/ DiscoveryConnects
          \/ DiscoveryFails \/ Handshake
  BY <1>0, <1>1 DEF OpenBegin, TunnelOpens, TunnelFails,
         DiscoveryConnects, DiscoveryFails, Discovery, DiscoveryCloses,
         Handshake, OpenerStep, OpenReturns, Go, Connect, Disconnect,
         tunnelVars, turnVars, phoneVars
<1>2. ASSUME NEW a \in Actors, Browse(a) PROVE Outcomes'
  BY <1>0, <1>2 DEF Browse, ListBegins, ListRefused, ListAbandoned,
         AbandonIf, ListReturns, ListReceived, ListError, ListSuccess,
         ReadinessFails, ReadbackReturns, ReadBack, EndList, OpenerStep,
         OpenReturns, Go, Connect, Disconnect, tunnelVars, turnVars, phoneVars
<1>3. ASSUME NEW o \in Operations, Arrive(o) \/ AppInvalid(o) \/ Operate(o)
      PROVE  Outcomes'
  BY <1>0, <1>3 DEF Arrive, AppInvalid, Operate, Lock, TransferBegins,
         TransferRefused, TransferAbandoned, AbandonTransfer, TransferReturns,
         OperationStep, OperationFails, Fail, Go, Connect, Disconnect,
         tunnelVars, turnVars, phoneVars
<1>4. CASE Environment
  BY <1>0, <1>4 DEF Environment, CloseSession, Expire, ListAnswered,
         TransferAnswered, PhoneDecides, tunnelVars, turnVars, phoneVars
<1>5. CASE UNCHANGED opsVars
  BY <1>0, <1>5 DEF opsVars, tunnelVars, turnVars, phoneVars
<1>. QED
  BY <1>1, <1>2, <1>3, <1>4, <1>5 DEF Next, OpenSession, Run

\* The phone has only failed requests and transfers in progress to decide.
LEMMA PendingStays == ASSUME IInv, [Next]_opsVars PROVE Pending'
<1>. USE OperationsAssumption DEF Actors, Opener, Free, TypeOK, Pending,
       Outcomes, Owner, Busy, OpenerPCs, TransferPCs, ListPCs
<1>0. TypeOK /\ Owner /\ Outcomes /\ Pending
  BY DEF IInv
<1>1. CASE OpenBegin \/ TunnelOpens \/ TunnelFails \/ DiscoveryConnects
          \/ DiscoveryFails \/ Handshake
  BY <1>0, <1>1 DEF OpenBegin, TunnelOpens, TunnelFails,
         DiscoveryConnects, DiscoveryFails, Discovery, DiscoveryCloses,
         Handshake, OpenerStep, OpenReturns, Go, Connect, Disconnect,
         tunnelVars, turnVars, phoneVars
<1>2. ASSUME NEW a \in Actors, Browse(a) PROVE Pending'
  BY <1>0, <1>2 DEF Browse, ListBegins, ListRefused, ListAbandoned,
         AbandonIf, ListReturns, ListReceived, ListError, ListSuccess,
         ReadinessFails, ReadbackReturns, ReadBack, EndList, OpenerStep,
         OpenReturns, Go, Connect, Disconnect, tunnelVars, turnVars, phoneVars
<1>3. ASSUME NEW o \in Operations, Arrive(o) \/ AppInvalid(o) \/ Operate(o)
      PROVE  Pending'
  BY <1>0, <1>3 DEF Arrive, AppInvalid, Operate, Lock, TransferBegins,
         TransferRefused, TransferAbandoned, AbandonTransfer, TransferReturns,
         OperationStep, OperationFails, Fail, Go, Connect, Disconnect,
         tunnelVars, turnVars, phoneVars
<1>4. CASE Environment
  BY <1>0, <1>4 DEF Environment, CloseSession, Expire, ListAnswered,
         TransferAnswered, PhoneDecides, tunnelVars, turnVars, phoneVars
<1>5. CASE UNCHANGED opsVars
  BY <1>0, <1>5 DEF opsVars, tunnelVars, turnVars, phoneVars
<1>. QED
  BY <1>1, <1>2, <1>3, <1>4, <1>5 DEF Next, OpenSession, Run

\* A list in hand is true, but for failed requests carried out since.
LEMMA ListTrueStays == ASSUME IInv, [Next]_opsVars PROVE ListTrue'
<1>. USE OperationsAssumption DEF Actors, Opener, Free, TypeOK, ListTrue,
       Pending, Outcomes, Owner, Busy, OpenerPCs, TransferPCs, ListPCs
<1>0. TypeOK /\ Owner /\ Outcomes /\ Pending /\ ListTrue
  BY DEF IInv
<1>1. CASE OpenBegin \/ TunnelOpens \/ TunnelFails \/ DiscoveryConnects
          \/ DiscoveryFails \/ Handshake
  BY <1>0, <1>1 DEF OpenBegin, TunnelOpens, TunnelFails,
         DiscoveryConnects, DiscoveryFails, Discovery, DiscoveryCloses,
         Handshake, OpenerStep, OpenReturns, Go, Connect, Disconnect,
         tunnelVars, turnVars, phoneVars
<1>2. ASSUME NEW a \in Actors, Browse(a) PROVE ListTrue'
  BY <1>0, <1>2 DEF Browse, ListBegins, ListRefused, ListAbandoned,
         AbandonIf, ListReturns, ListReceived, ListError, ListSuccess,
         ReadinessFails, ReadbackReturns, ReadBack, EndList, OpenerStep,
         OpenReturns, Go, Connect, Disconnect, tunnelVars, turnVars, phoneVars
<1>3. ASSUME NEW o \in Operations, Arrive(o) \/ AppInvalid(o) \/ Operate(o)
      PROVE  ListTrue'
  BY <1>0, <1>3 DEF Arrive, AppInvalid, Operate, Lock, TransferBegins,
         TransferRefused, TransferAbandoned, AbandonTransfer, TransferReturns,
         OperationStep, OperationFails, Fail, Go, Connect, Disconnect,
         tunnelVars, turnVars, phoneVars
<1>4. CASE Environment
  BY <1>0, <1>4 DEF Environment, CloseSession, Expire, ListAnswered,
         TransferAnswered, PhoneDecides, tunnelVars, turnVars, phoneVars
<1>5. CASE UNCHANGED opsVars
  BY <1>0, <1>5 DEF opsVars, tunnelVars, turnVars, phoneVars
<1>. QED
  BY <1>1, <1>2, <1>3, <1>4, <1>5 DEF Next, OpenSession, Run

\* A success is contradicted only by a later or a failed request.
LEMMA SuccessStays == ASSUME IInv, [Next]_opsVars PROVE SuccessStands'
<1>. USE OperationsAssumption DEF Actors, Opener, Free, TypeOK,
       SuccessStands, ListTrue, Pending, Outcomes, Turns, Latest, Owner, Busy,
       OpenerPCs, TransferPCs, ListPCs
<1>0. /\ TypeOK /\ Owner /\ Outcomes /\ Pending /\ ListTrue
      /\ Turns /\ SuccessStands
  BY DEF IInv
<1>1. CASE OpenBegin \/ TunnelOpens \/ TunnelFails \/ DiscoveryConnects
          \/ DiscoveryFails \/ Handshake
  BY <1>0, <1>1 DEF OpenBegin, TunnelOpens, TunnelFails,
         DiscoveryConnects, DiscoveryFails, Discovery, DiscoveryCloses,
         Handshake, OpenerStep, OpenReturns, Go, Connect, Disconnect,
         tunnelVars, turnVars, phoneVars
<1>2. ASSUME NEW a \in Actors, Browse(a) PROVE SuccessStands'
  BY <1>0, <1>2 DEF Browse, ListBegins, ListRefused, ListAbandoned,
         AbandonIf, ListReturns, ListReceived, ListError, ListSuccess,
         ReadinessFails, ReadbackReturns, ReadBack, EndList, OpenerStep,
         OpenReturns, Go, Connect, Disconnect, tunnelVars, turnVars, phoneVars
<1>3. ASSUME NEW o \in Operations, Arrive(o) \/ AppInvalid(o) \/ Operate(o)
      PROVE  SuccessStands'
  BY <1>0, <1>3 DEF Arrive, AppInvalid, Operate, Lock, TransferBegins,
         TransferRefused, TransferAbandoned, AbandonTransfer, TransferReturns,
         OperationStep, OperationFails, Fail, Go, Connect, Disconnect,
         tunnelVars, turnVars, phoneVars
<1>4. CASE Environment
  BY <1>0, <1>4 DEF Environment, CloseSession, Expire, ListAnswered,
         TransferAnswered, PhoneDecides, tunnelVars, turnVars, phoneVars
<1>5. CASE UNCHANGED opsVars
  BY <1>0, <1>5 DEF opsVars, tunnelVars, turnVars, phoneVars
<1>. QED
  BY <1>1, <1>2, <1>3, <1>4, <1>5 DEF Next, OpenSession, Run

\* Nothing has been asked of the phone yet.
LEMMA InitHolds == Init => IInv
<1>. SUFFICES ASSUME Init PROVE IInv
  OBVIOUS
<1>. USE OperationsAssumption DEF Init, Actors, Opener, Free, Busy, OpenerPCs,
       TransferPCs, ListPCs
<1>1. TypeOK
  BY DEF TypeOK, Results
<1>2. Owner /\ TunnelOwned /\ Connected
  BY DEF Owner, TunnelOwned, Connected
<1>3. Turns /\ Outcomes /\ Pending /\ ListTrue /\ SuccessStands
  BY DEF Turns, Latest, Outcomes, Pending, ListTrue, SuccessStands
<1>. QED
  BY <1>1, <1>2, <1>3 DEF IInv

\* The invariant is inductive.
LEMMA StepHolds == IInv /\ [Next]_opsVars => IInv'
  BY Typing, OwnerStays, TunnelStays, ConnectedStays, TurnsStay, OutcomesStay,
     PendingStays, ListTrueStays, SuccessStays DEF IInv

\* Two open connections would have two owners, or one in two places.
LEMMA OneConnection == IInv => ConnectionsOwned
<1>. SUFFICES ASSUME IInv, NEW c \in connections, NEW d \in connections
              PROVE  c = d /\ c[1] = operationMu /\ tunnel
  BY DEF ConnectionsOwned
<1>. USE DEF Actors, Busy, OpenerPCs, TransferPCs, ListPCs
<1>1. /\ TypeOK /\ Owner /\ TunnelOwned /\ Connected
  BY DEF IInv
<1>2. \A e \in connections : e \in Actors \X {"discovery", "transfer", "list"}
  BY <1>1 DEF TypeOK
<1>3. \A e \in connections :
         \/ e[2] = "discovery" /\ pc[e[1]] = "handshaking"
         \/ e[2] = "transfer" /\ pc[e[1]] = "transferring"
         \/ e[2] = "list" /\ pc[e[1]] = "reading"
  BY <1>1, <1>2 DEF Connected
<1>4. \A e \in connections : e[1] = operationMu
  BY <1>1, <1>2, <1>3 DEF Owner
<1>5. c = d
  BY <1>2, <1>3, <1>4
<1>6. tunnel
  BY <1>1, <1>2, <1>3 DEF TunnelOwned, Owner
<1>. QED
  BY <1>4, <1>5, <1>6

\* The inductive invariant of the operations on a phone, for every set of
\* requests, every choice of their commands, and any number of attempts of the
\* connection loop.
THEOREM Invariant == Spec => []IInv
  BY InitHolds, StepHolds, PTL DEF Spec

\* session.go:62-71: whichever step of OpenSession fails, its tunnel is closed.
THEOREM TunnelOwnedHolds == Spec => []TunnelOwned
<1>1. IInv => TunnelOwned
  BY DEF IInv
<1>. QED
  BY Invariant, <1>1, PTL

\* session.go: only the owner of operationMu has a connection to the phone.
THEOREM ConnectionsOwnedHolds == Spec => []ConnectionsOwned
  BY Invariant, OneConnection, PTL

\* session.go:155, 165: no abandoned transfer makes a reported success untrue.
THEOREM SuccessStandsHolds == Spec => []SuccessStands
<1>1. IInv => SuccessStands
  BY DEF IInv
<1>. QED
  BY Invariant, <1>1, PTL

=============================================================================
