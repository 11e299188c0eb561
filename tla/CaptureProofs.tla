---------------------------- MODULE CaptureProofs ----------------------------
(***************************************************************************)
(* The inductive invariant of Capture and the safety properties it implies *)
(* for every set of requests and every number of operations.  The steps    *)
(* are taken in three groups: the operation, the handlers, the contexts.   *)
(* After that, verifyTestEvidence is right about reports of every length:  *)
(* an invariant of each of its two loops, by induction over their turns.   *)
(***************************************************************************)
EXTENDS Capture, FiniteSetTheorems, TLAPS

\* NewDaemon: no operation has opened anything.
LEMMA InitHolds == Init => IInv
<1>. SUFFICES ASSUME Init PROVE IInv
  OBVIOUS
<1>. USE MaxOperationsAssumption, RequestsAssumption DEF Init, Operations, Free
<1>1. TypeOK
  BY DEF TypeOK, Stages, HandlerPCs
<1>2. ServiceWithinOperation /\ OneCapture
  BY DEF ServiceWithinOperation, OneCapture, Hooked
<1>4. OperationStage /\ ServiceStage /\ OutcomeStage
  BY DEF OperationStage, ServiceStage, OutcomeStage
<1>3. ClosedByHook /\ Late /\ CancelledNeverSucceeds
  BY DEF ClosedByHook, Late, CancelledNeverSucceeds
<1>. QED
  BY <1>1, <1>2, <1>3, <1>4 DEF IInv

\* The steps of the operation that owns operationMu keep the invariant.
LEMMA OperationStep ==
  ASSUME IInv, \/ Begin("screenshot") \/ Begin("run-tests") \/ Operate
  PROVE  IInv'
<1>. USE MaxOperationsAssumption, RequestsAssumption DEF Operations
<1>0. /\ TypeOK /\ ServiceWithinOperation /\ OneCapture /\ OperationStage
      /\ ServiceStage /\ OutcomeStage /\ ClosedByHook /\ Late /\ CancelledNeverSucceeds
  BY DEF IInv
<1>1. CASE Begin("screenshot") \/ Begin("run-tests")
  <2>1. /\ operation = "idle" /\ operation' = "opening"
        /\ kind' \in {"screenshot", "run-tests"}
        /\ count < MaxOperations /\ count' = count + 1
        /\ UNCHANGED <<expired, service, closing, listening, captureMu, outcome,
                       handler, owner, answer, gone, lateOperations,
                       lateRequests>>
    BY <1>1 DEF Begin, requestVars, late
  <2>2. TypeOK'
    BY <1>0, <2>1 DEF TypeOK, Stages
  <2>3. ServiceWithinOperation'
    BY <1>0, <2>1 DEF ServiceWithinOperation, TypeOK
  <2>4. OneCapture'
    BY <1>0, <2>1 DEF OneCapture
  <2>5. (OperationStage /\ ServiceStage /\ OutcomeStage)'
    BY <1>0, <2>1 DEF OperationStage, ServiceStage, OutcomeStage, TypeOK
  <2>6. ClosedByHook'
    BY <1>0, <2>1 DEF ClosedByHook, TypeOK
  <2>7. (Late /\ CancelledNeverSucceeds)'
    BY <1>0, <2>1 DEF Late, CancelledNeverSucceeds, RequestDone
  <2>. QED
    BY <2>2, <2>3, <2>4, <2>5, <2>6, <2>7 DEF IInv
<1>2. CASE Operate
  <2>. USE DEF Operate, Stage, OpenReader, OpenReaderFails, StartBridge,
         StartBridgeFails, BridgeFails, TestsEnd, CloseBridge, Take,
         CheckTaken, Judge, Report, CloseReader, Verify, End
  <2>0. /\ count \in Operations /\ count' = count /\ operation # "idle"
        /\ UNCHANGED <<kind, captureMu, handler, owner, answer, gone, lateRequests>>
        /\ operation' \in Stages \ {"opening"}
        /\ service' = [service EXCEPT ![count] = service'[count]]
        /\ outcome' = [outcome EXCEPT ![count] = outcome'[count]]
        /\ service'[count] \in {"none", "open", "closed"}
        /\ outcome'[count] \in {"none", "error", "ok"}
    BY <1>0, <1>2 DEF OperationStage, ServiceStage, TypeOK, requestVars, Stages
  <2>1. TypeOK'
    <3>1. /\ expired' \subseteq Operations /\ closing' \subseteq Operations
          /\ listening' \subseteq Operations
          /\ lateOperations' \subseteq Operations
      BY <1>0, <1>2, <2>0 DEF TypeOK, Stages
    <3>. QED
      BY <1>0, <2>0, <3>1 DEF TypeOK
  <2>2. /\ listening' \subseteq listening \cup {count}
        /\ closing' \subseteq closing \cup (expired \cap {count})
        /\ expired \subseteq expired' /\ expired' \subseteq expired \cup {count}
    BY <1>2
  <2>3. \/ /\ operation' \in {"taking", "binding"} /\ operation = "opening"
           /\ service'[count] = "open" /\ listening' = listening
        \/ /\ operation' \notin {"taking", "binding", "closing"}
           /\ operation' = "testing" => operation = "binding"
           /\ operation' = "unbinding" => operation = "testing"
           /\ operation' = "taken" => operation = "taking"
           /\ operation' = "idle" => operation = "ending"
           /\ operation' = "ending" =>
                  operation \in {"opening", "closing", "verifying"}
           /\ operation' = "verifying" => operation \in {"opening", "closing"}
           /\ operation # "closing" => service' = service
           /\ operation = "closing" => service'[count] = "closed"
           /\ operation' # "testing" => listening' = listening
        \/ /\ operation' = "closing" /\ service' = service
           /\ operation \in {"binding", "unbinding", "taking", "taken"}
           /\ operation = "unbinding" => count \notin listening'
           /\ operation # "unbinding" => listening' = listening
    BY <1>0, <1>2, <2>0 DEF TypeOK
  <2>4. count \in listening => operation \in {"testing", "unbinding"}
    BY <1>0, <2>0 DEF OperationStage, ServiceStage
  <2>5. ServiceWithinOperation'
    <3>1. \A n \in Operations \ {count} :
              service'[n] # "open" /\ n \notin listening'
      BY <1>0, <2>0, <2>2 DEF ServiceWithinOperation, TypeOK
    <3>2. service'[count] = "open" \/ count \in listening' =>
              operation' \notin {"idle", "opening", "verifying", "ending"}
      BY <1>0, <2>0, <2>3, <2>4 DEF ServiceWithinOperation, OperationStage, ServiceStage, TypeOK
    <3>. QED
      BY <2>0, <3>1, <3>2 DEF ServiceWithinOperation
  <2>6. OneCapture'
    BY <1>0, <2>0 DEF OneCapture, Hooked
  <2>7. (OperationStage /\ ServiceStage /\ OutcomeStage)'
    <3>1. operation' \in {"binding", "testing", "unbinding", "taking", "taken",
                          "closing"} => service'[count] # "none"
      BY <1>0, <2>0, <2>3 DEF ServiceStage
    <3>2. \A n \in Operations : service'[n] = "none" => service[n] = "none"
      BY <1>0, <2>0, <2>3 DEF TypeOK
    <3>3. OperationStage'
      <4>1. operation' \in {"taking", "taken"} => kind = "screenshot"
        BY <1>0, <1>2 DEF OperationStage
      <4>2. listening' # {} => operation' \in {"testing", "unbinding"}
        <5>1. CASE operation = "binding"
          BY <1>0, <1>2, <5>1 DEF OperationStage
        <5>2. CASE operation = "testing"
          BY <1>2, <5>2
        <5>3. CASE operation = "unbinding"
          BY <1>0, <1>2, <5>3 DEF ServiceWithinOperation, TypeOK
        <5>4. CASE operation \notin {"binding", "testing", "unbinding"}
          BY <1>0, <1>2, <5>4 DEF OperationStage
        <5>. QED
          BY <5>1, <5>2, <5>3, <5>4
      <4>. QED
        BY <1>0, <2>0, <2>2, <4>1, <4>2 DEF OperationStage, TypeOK
    <3>4. ServiceStage'
      <4>1. count \in listening' \ listening => service'[count] # "none"
        BY <1>0, <2>0, <2>3, <3>1
      <4>2. count \in closing' \ closing => service'[count] = "open"
        BY <1>0, <1>2, <2>0 DEF TypeOK
      <4>3. \A n \in listening' \cup closing' : service'[n] # "none"
        BY <1>0, <2>0, <2>1, <2>2, <3>2, <4>1, <4>2 DEF ServiceStage, TypeOK
      <4>4. \A n \in Operations : n > count => service'[n] = "none"
        BY <1>0, <2>0 DEF ServiceStage, TypeOK
      <4>. QED
        BY <1>0, <2>0, <3>1, <3>2, <4>3, <4>4 DEF ServiceStage
    <3>5. OutcomeStage'
      <4>1. /\ operation' \notin {"idle", "ending"}
            /\ operation' = "closing" => kind = "run-tests"
            => outcome'[count] = "none"
        BY <1>0, <1>2, <2>0 DEF OutcomeStage, OperationStage, TypeOK
      <4>2. \A n \in Operations : n > count => outcome'[n] = "none"
        BY <1>0, <2>0 DEF OutcomeStage, TypeOK
      <4>. QED
        BY <2>0, <4>1, <4>2 DEF OutcomeStage
    <3>. QED
      BY <3>3, <3>4, <3>5
  <2>8. ClosedByHook'
    <3>1. operation \in {"verifying", "ending"} => operation' \in {"idle", "ending"}
      BY <1>2
    <3>2. service'[count] = "closed" => \/ service[count] = "closed"
                                       \/ operation' \in {"verifying", "ending"}
      BY <1>0, <1>2, <2>0 DEF TypeOK
    <3>3. \A n \in Operations \ {count} : service'[n] = service[n]
      BY <1>0, <2>0 DEF TypeOK
    <3>4. \A n \in closing' : n \in closing \/ n \in expired'
      BY <2>2
    <3>. QED
      BY <1>0, <2>0, <2>1, <2>2, <3>1, <3>2, <3>3, <3>4 DEF ClosedByHook, TypeOK
  <2>9. (Late /\ CancelledNeverSucceeds)'
    <3>1. lateOperations' \subseteq expired'
      BY <1>0, <1>2 DEF Late
    <3>2. outcome'[count] = "ok" =>
              outcome[count] = "ok" \/ (count \notin expired /\ UNCHANGED expired)
      BY <1>0, <1>2, <2>0 DEF TypeOK
    <3>3. count \in lateOperations' =>
              count \in lateOperations \/ outcome'[count] = "none"
      BY <1>0, <1>2, <2>0 DEF OutcomeStage, TypeOK
    <3>4. lateOperations' \subseteq lateOperations \cup {count}
      BY <1>2
    <3>5. \A n \in lateOperations' : outcome'[n] # "ok"
      BY <1>0, <2>0, <2>1, <3>1, <3>2, <3>3, <3>4
         DEF CancelledNeverSucceeds, TypeOK, Late
    <3>. QED
      BY <1>0, <2>0, <2>1, <2>2, <3>1, <3>5
         DEF Late, CancelledNeverSucceeds, RequestDone, TypeOK
  <2>. QED
    BY <2>1, <2>5, <2>6, <2>7, <2>8, <2>9 DEF IInv
<1>. QED
  BY <1>1, <1>2

\* The steps of a request keep the invariant.
LEMMA RequestStep ==
  ASSUME IInv, NEW q \in Requests,
         Serve(q) \/ \E n \in Operations : Arrive(q, n)
  PROVE  IInv'
<1>. USE MaxOperationsAssumption, RequestsAssumption DEF Operations
<1>0. /\ TypeOK /\ ServiceWithinOperation /\ OneCapture /\ OperationStage
      /\ ServiceStage /\ OutcomeStage /\ ClosedByHook /\ Late /\ CancelledNeverSucceeds
  BY DEF IInv
<1>1. CASE \E n \in Operations : Arrive(q, n)
  <2>1. PICK n \in Operations : Arrive(q, n)
    BY <1>1
  <2>2. /\ n \in listening /\ handler[q] = "idle"
        /\ handler' = [handler EXCEPT ![q] = "received"]
        /\ owner' = [owner EXCEPT ![q] = n]
        /\ UNCHANGED <<operation, kind, count, outcome, expired, service,
                       listening, gone, lateOperations, lateRequests, closing,
                       captureMu, answer>>
    BY <2>1 DEF Arrive, Handle, operationVars
  <2>3. TypeOK'
    BY <1>0, <2>2 DEF TypeOK, HandlerPCs
  <2>4. ServiceWithinOperation'
    BY <1>0, <2>2 DEF ServiceWithinOperation
  <2>5. OneCapture'
    BY <1>0, <2>2 DEF OneCapture, Hooked, TypeOK
  <2>6. service[n] # "none"
    BY <1>0, <2>2 DEF OperationStage, ServiceStage
  <2>7. (OperationStage /\ ServiceStage /\ OutcomeStage)'
    BY <1>0, <2>2, <2>6 DEF OperationStage, ServiceStage, OutcomeStage, TypeOK
  <2>8. q \notin gone /\ q \notin lateRequests
    BY <1>0, <2>2 DEF Late
  <2>9. ClosedByHook'
    BY <1>0, <2>2, <2>8 DEF ClosedByHook, TypeOK
  <2>10. (Late /\ CancelledNeverSucceeds)'
    BY <1>0, <2>2, <2>8 DEF Late, CancelledNeverSucceeds, RequestDone, TypeOK
  <2>. QED
    BY <2>3, <2>4, <2>5, <2>7, <2>9, <2>10 DEF IInv
<1>2. CASE Serve(q)
  <2>. USE DEF Serve, Refuse, RunClosed, Admit, Conflict, LockCapture,
         TakeReturns, TakeFails, Check, CheckUnless, Finish,
         FinishClosing, Handle, Respond, Unlock
  <2>0. /\ owner[q] \in Operations /\ handler[q] # "idle"
        /\ UNCHANGED <<operation, kind, count, outcome, expired, service,
                       listening, gone, lateOperations, owner>>
        /\ handler' = [handler EXCEPT ![q] = handler'[q]]
        /\ handler'[q] \in HandlerPCs \ {"idle"}
        /\ answer' = [answer EXCEPT ![q] = answer'[q]]
        /\ answer'[q] \in {"none", "refused", "gone", "conflict", "failed", "image"}
        /\ closing' \subseteq closing \cup {owner[q]}
        /\ lateRequests' \subseteq lateRequests \cup {q}
    BY <1>0, <1>2 DEF OperationStage, ServiceStage, TypeOK, HandlerPCs, operationVars
  <2>1. \/ /\ captureMu' = captureMu
           /\ handler[q] \in Hooked <=> handler'[q] \in Hooked
        \/ /\ captureMu[owner[q]] = Free
           /\ captureMu' = [captureMu EXCEPT ![owner[q]] = q]
           /\ handler[q] \notin Hooked /\ handler'[q] \in Hooked
        \/ /\ captureMu' = [captureMu EXCEPT ![owner[q]] = Free]
           /\ handler[q] \in Hooked /\ handler'[q] \notin Hooked
    BY <1>0, <1>2, <2>0 DEF TypeOK, Hooked
  <2>c. owner[q] \in closing' => owner[q] \in closing \/ RequestDone(q)
    BY <1>2
  <2>t. handler[q] \in {"taken", "done"} => Check(q)
    BY <1>2
  <2>l. /\ q \in lateRequests' /\ q \notin lateRequests =>
               handler[q] = "taking" /\ RequestDone(q)
        /\ handler[q] = "taking" => TakeReturns(q) \/ TakeFails(q)
    BY <1>2
  <2>d. /\ handler[q] # "done"
        /\ handler'[q] = "done" \/ answer'[q] = answer[q]
    BY <1>0, <1>2 DEF TypeOK
  <2>. HIDE DEF Serve, Refuse, RunClosed, Admit, Conflict, LockCapture,
         TakeReturns, TakeFails, Check, CheckUnless, Finish,
         FinishClosing, Handle, Respond, Unlock
  <2>2. TypeOK'
    <3>1. captureMu \in [Operations -> Requests \cup {Free}]
      BY <1>0 DEF TypeOK
    <3>2. captureMu' \in [Operations -> Requests \cup {Free}]
      BY <2>0, <2>1, <3>1
    <3>. QED
      BY <1>0, <2>0, <3>2 DEF TypeOK
  <2>3. ServiceWithinOperation'
    BY <1>0, <2>0 DEF ServiceWithinOperation
  <2>4. OneCapture'
    <3>. SUFFICES ASSUME NEW p \in Requests
                  PROVE  /\ handler'[p] \in Hooked => captureMu'[owner[p]] = p
                         /\ \A n \in Operations : captureMu'[n] = p =>
                                owner[p] = n /\ handler'[p] \in Hooked
      BY <2>0 DEF OneCapture
    <3>1. p # q => handler'[p] = handler[p]
      BY <1>0, <2>0 DEF TypeOK
    <3>2. p # Free
      BY DEF Free
    <3>3. /\ handler[p] \in Hooked => captureMu[owner[p]] = p
          /\ handler[p] \in Hooked => owner[p] \in Operations
          /\ \A n \in Operations : captureMu[n] = p =>
                 owner[p] = n /\ handler[p] \in Hooked
      BY <1>0 DEF OneCapture, OperationStage, ServiceStage, Hooked
    <3>4. /\ handler[q] \in Hooked => captureMu[owner[q]] = q
      BY <1>0 DEF OneCapture
    <3>. QED
      BY <1>0, <2>0, <2>1, <3>1, <3>2, <3>3, <3>4 DEF TypeOK
  <2>5. (OperationStage /\ ServiceStage /\ OutcomeStage)'
    <3>1. (OperationStage /\ OutcomeStage)'
      BY <1>0, <2>0 DEF OperationStage, OutcomeStage
    <3>2. service[owner[q]] # "none"
      BY <1>0, <2>0 DEF ServiceStage
    <3>. QED
      BY <1>0, <2>0, <2>2, <3>1, <3>2 DEF ServiceStage, TypeOK
  <2>6. ClosedByHook'
    <3>1. owner[q] <= count
      BY <1>0, <2>0 DEF OperationStage, ServiceStage, TypeOK
    <3>. QED
      BY <1>0, <2>0, <2>c, <3>1 DEF ClosedByHook, RequestDone
  <2>7. (Late /\ CancelledNeverSucceeds)'
    <3>1. q \in lateRequests' =>
              /\ RequestDone(q) /\ handler'[q] \in {"taken", "done"}
              /\ answer'[q] # "image"
      <4>1. CASE q \in lateRequests
        <5>1. RequestDone(q) /\ handler[q] \in {"taken", "done"}
          BY <1>0, <4>1 DEF Late
        <5>2. handler'[q] = "done" /\ answer'[q] = "failed"
          BY <1>0, <2>0, <2>t, <5>1 DEF TypeOK, Check, CheckUnless, Handle, Respond
        <5>. QED
          BY <5>1, <5>2
      <4>2. CASE q \notin lateRequests
        <5>1. handler[q] = "taking" => answer[q] = "none"
          BY <1>0 DEF Late
        <5>2. handler[q] = "taking" =>
                  /\ handler'[q] \in {"taken", "done"}
                  /\ answer'[q] # "image"
          BY <1>0, <2>0, <2>l, <5>1
             DEF TypeOK, TakeReturns, TakeFails, Handle, Respond
        <5>. QED
          BY <2>l, <4>2, <5>2
      <4>. QED
        BY <4>1, <4>2
    <3>2. \A p \in Requests : RequestDone(p)' <=> RequestDone(p)
      BY <2>0 DEF RequestDone
    <3>3. handler'[q] = "done" \/ answer'[q] = "none"
      BY <1>0, <2>d DEF Late
    <3>4. \A p \in Requests : p # q =>
              handler'[p] = handler[p] /\ answer'[p] = answer[p]
      BY <1>0, <2>0 DEF TypeOK
    <3>5. Late'
      BY <1>0, <2>0, <2>2, <3>1, <3>2, <3>3, <3>4 DEF Late, TypeOK
    <3>. QED
      BY <1>0, <2>0, <2>2, <3>1, <3>4, <3>5 DEF CancelledNeverSucceeds, TypeOK
  <2>. QED
    BY <2>2, <2>3, <2>4, <2>5, <2>6, <2>7 DEF IInv
<1>. QED
  BY <1>1, <1>2

\* Cancellation and the functions hooked to it keep the invariant.
LEMMA ContextStep ==
  ASSUME IInv,
         \/ \E q \in Requests : Disconnect(q)
         \/ Expire
         \/ \E n \in Operations : ServiceCloses(n) \/ BridgeCloses(n)
         \/ UNCHANGED vars
  PROVE  IInv'
<1>. USE MaxOperationsAssumption, RequestsAssumption
     DEF Operations, Disconnect, Expire, ServiceCloses, BridgeCloses
<1>0. /\ TypeOK /\ ServiceWithinOperation /\ OneCapture /\ OperationStage
      /\ ServiceStage /\ OutcomeStage /\ ClosedByHook /\ Late /\ CancelledNeverSucceeds
  BY DEF IInv
<1>u. UNCHANGED <<operation, kind, count, outcome, captureMu, handler, owner,
                  answer, lateOperations, lateRequests>>
  BY DEF vars, operationVars, requestVars, late
<1>1. TypeOK'
  <2>1. gone' \subseteq Requests /\ listening' \subseteq Operations
    BY <1>0 DEF TypeOK, vars
  <2>2. /\ operation # "idle" => count \in Operations
        /\ \A q \in Requests : handler[q] # "idle" => owner[q] \in Operations
    BY <1>0 DEF TypeOK, OperationStage, ServiceStage
  <2>4. expired' \subseteq Operations /\ closing' \subseteq Operations
    BY <1>0, <2>2 DEF TypeOK, Hooked, vars
  <2>3. service' \in [Operations -> {"none", "open", "closed"}]
    BY <1>0 DEF TypeOK, vars
  <2>. QED
    BY <1>0, <1>u, <2>1, <2>3, <2>4 DEF TypeOK
<1>2. \A n \in Operations :
          /\ service'[n] = "open" => service[n] = "open"
          /\ service'[n] # "closed" => service'[n] = service[n]
          /\ service'[n] = "closed" => service[n] = "closed" \/ n \in closing
  BY <1>0 DEF TypeOK, vars
<1>3. (ServiceWithinOperation /\ OneCapture)'
  BY <1>0, <1>u, <1>2 DEF ServiceWithinOperation, OneCapture, vars
<1>4. expired \subseteq expired' /\ gone \subseteq gone'
      /\ listening' \subseteq listening
  BY DEF vars
<1>5. \A n \in Operations : n \in closing' =>
          \/ n \in closing
          \/ n = count /\ n \in expired' /\ service[n] = "open"
          \/ \E q \in gone' : owner[q] = n /\ n <= count /\ service[n] # "none"
  BY <1>0 DEF OperationStage, ServiceStage, TypeOK, Hooked, vars
<1>6. expired' \subseteq 1..count
  <2>1. operation # "idle" => count \in 1..count
    BY <1>0 DEF OperationStage, TypeOK
  <2>. QED
    BY <1>0, <2>1 DEF OperationStage, vars
<1>7. (OperationStage /\ ServiceStage /\ OutcomeStage)'
  <2>1. \A n \in Operations : service'[n] = "none" <=> service[n] = "none"
    BY <1>0, <1>2 DEF ServiceStage
  <2>2. count \in Operations \/ operation = "idle"
    BY <1>0 DEF OperationStage, TypeOK
  <2>3. \A n \in listening' \cup closing' : service'[n] # "none"
    BY <1>0, <1>1, <1>4, <1>5, <2>1 DEF ServiceStage, TypeOK
  <2>4. (OperationStage /\ OutcomeStage)'
    BY <1>0, <1>u, <1>4, <1>6 DEF OperationStage, OutcomeStage
  <2>. QED
    BY <1>0, <1>u, <2>1, <2>2, <2>3, <2>4 DEF ServiceStage
<1>8. ClosedByHook'
  BY <1>0, <1>u, <1>2, <1>4, <1>5 DEF ClosedByHook, TypeOK
<1>9. (Late /\ CancelledNeverSucceeds)'
  BY <1>0, <1>u, <1>4 DEF Late, CancelledNeverSucceeds, RequestDone, Disconnect, vars
<1>. QED
  BY <1>1, <1>3, <1>7, <1>8, <1>9 DEF IInv

\* IInv holds in every reachable state of captures, for all constants.
THEOREM Invariant == Spec => []IInv
<1>1. IInv /\ [Next]_vars => IInv'
  BY OperationStep, RequestStep, ContextStep DEF Next, Finished
<1>. QED
  BY InitHolds, <1>1, PTL DEF Spec

\* No screenshot service and no bridge outlives the operation that opened it.
THEOREM ServiceWithinOperationHolds == Spec => []ServiceWithinOperation
<1>1. IInv => ServiceWithinOperation
  BY DEF IInv
<1>. QED
  BY Invariant, <1>1, PTL

\* captureMu admits one capture of a bridge at a time and is given back.
THEOREM OneCaptureHolds == Spec => []OneCapture
<1>1. IInv => OneCapture
  BY DEF IInv
<1>. QED
  BY Invariant, <1>1, PTL

\* A test run loses its screenshot service only to a cancellation.
THEOREM ServiceLostOnlyToCancelHolds == Spec => []ServiceLostOnlyToCancel
<1>1. IInv => ServiceLostOnlyToCancel
  BY MaxOperationsAssumption
     DEF IInv, TypeOK, ClosedByHook, OperationStage, ServiceStage, ServiceLostOnlyToCancel, Operations
<1>. QED
  BY Invariant, <1>1, PTL

\* What is cancelled in progress is not reported as a success.
THEOREM CancelledNeverSucceedsHolds == Spec => []CancelledNeverSucceeds
<1>1. IInv => CancelledNeverSucceeds
  BY DEF IInv
<1>. QED
  BY Invariant, <1>1, PTL

-----------------------------------------------------------------------------
(* The evidence of a test run *)

\* Every set of natural numbers that is not empty has a least element.
LEMMA Least ==
  ASSUME NEW T \in SUBSET Nat, T # {}
  PROVE  \E n \in T : \A m \in T : n <= m
<1>. DEFINE R == OpToRel(<, Nat)
<1>1. \A m, n \in Nat : m < n => <<m, n>> \in R
  BY DEF OpToRel
<1>2. IsWellFoundedOn(R, Nat)
  BY NatLessThanWellFounded
<1>. HIDE DEF R
<1>3. PICK n \in T : \A m \in T : ~ (<<m, n>> \in R)
  BY <1>2, WFMin
<1>4. \A m \in T : ~ (m < n)
  BY <1>1, <1>3
<1>. QED
  BY <1>4

\* Induction up to n, for a set P of the numbers that have been reached: what the
\* proofs about the two loops count with.
LEMMA CountUp ==
  ASSUME NEW P, NEW n \in Nat, 0 \in P,
         \A k \in 0..n : k # n /\ k \in P => k + 1 \in P
  PROVE  n \in P
<1>1. SUFFICES ASSUME n \notin P PROVE FALSE
  OBVIOUS
<1>2. PICK k \in {j \in 0..n : j \notin P} : \A m \in {j \in 0..n : j \notin P} : k <= m
  <2>. DEFINE T == {j \in 0..n : j \notin P}
  <2>1. T \in SUBSET Nat /\ T # {}
    BY <1>1
  <2>2. \E i \in T : \A m \in T : i <= m
    BY <2>1, Least
  <2>. QED BY <2>2
<1>3. k # 0 /\ k - 1 \in 0..n /\ k - 1 # n
  OBVIOUS
<1>4. k - 1 \in P
  BY <1>2, <1>3
<1>. QED
  BY <1>3, <1>4

\* f are the states of a loop of n turns that starts in base.
IsRun(f, S, n, step, base) ==
    /\ f \in [0..n -> S]
    /\ f[0] = base
    /\ \A k \in 1..n : f[k] = step[k][f[k - 1]]

\* Such a loop has a run: it is what makes the recursive functions of TestEvidence
\* total.
LEMMA LoopRuns ==
  ASSUME NEW S, NEW n \in Nat, NEW step \in [1..n -> [S -> S]], NEW base \in S
  PROVE  \E f : IsRun(f, S, n, step, base)
<1>. DEFINE Runs(m, f) == /\ f[0] = base
                          /\ \A k \in 1..m : f[k] = step[k][f[k - 1]]
     P == {m \in 0..n : \E f \in [0..m -> S] : Runs(m, f)}
<1>1. 0 \in P
  <2>1. /\ [k \in 0..0 |-> base] \in [0..0 -> S]
        /\ Runs(0, [k \in 0..0 |-> base])
    OBVIOUS
  <2>2. 0 \in 0..n
    OBVIOUS
  <2>. HIDE DEF Runs
  <2>. QED BY <2>1, <2>2
<1>2. ASSUME NEW m \in 0..n, m # n, m \in P
      PROVE  m + 1 \in P
  <2>1. PICK f \in [0..m -> S] : Runs(m, f)
    BY <1>2
  <2>. DEFINE g == [k \in 0..(m + 1) |-> IF k = m + 1 THEN step[m + 1][f[m]] ELSE f[k]]
  <2>2. m + 1 \in 1..n /\ m \in 0..m
    BY <1>2
  <2>3. step[m + 1][f[m]] \in S
    BY <2>2
  <2>4. g \in [0..(m + 1) -> S]
    BY <2>3
  <2>5. Runs(m + 1, g)
    <3>1. g[0] = base
      BY <2>1, <2>2
    <3>2. ASSUME NEW k \in 1..(m + 1) PROVE g[k] = step[k][g[k - 1]]
      <4>1. k - 1 \in 0..(m + 1) /\ k - 1 \in 0..m /\ k - 1 # m + 1
        BY <2>2
      <4>2. g[k - 1] = f[k - 1]
        BY <4>1
      <4>3. CASE k = m + 1
        BY <4>2, <4>3, <2>2
      <4>4. CASE k # m + 1
        <5>1. k \in 1..m /\ k \in 0..m
          BY <4>4, <2>2
        <5>2. g[k] = f[k]
          BY <4>4
        <5>. QED BY <5>1, <5>2, <4>2, <2>1
      <4>. QED BY <4>3, <4>4
    <3>. QED BY <3>1, <3>2
  <2>6. m + 1 \in 0..n
    BY <2>2
  <2>. QED BY <2>4, <2>5, <2>6
<1>3. n \in P
  <2>. HIDE DEF P
  <2>. QED BY <1>1, <1>2, CountUp
<1>. QED BY <1>3 DEF IsRun

\* The states of verifyTestEvidence.
Selectors == Classes \X Methods
LoopStates == [error : BOOLEAN, finished : SUBSET Selectors,
          names : SUBSET Names, passed : Nat, screenshots : Nat,
          files : SUBSET Paths]

\* AttachAll is the last state of a run of Attach over the attachments.
LEMMA AttachRuns ==
  ASSUME NEW s \in LoopStates, NEW atts \in Seq(Attachment)
  PROVE  \E f \in [0..Len(atts) -> LoopStates] :
           /\ f[0] = s
           /\ \A k \in 1..Len(atts) : f[k] = Attach(f[k - 1], atts[k])
           /\ AttachAll(s, atts) = f[Len(atts)]
<1>. DEFINE n == Len(atts)
     step == [k \in 1..n |-> [x \in LoopStates |-> Attach(x, atts[k])]]
<1>1. n \in Nat /\ \A k \in 1..n : atts[k] \in Attachment
  OBVIOUS
<1>2. ASSUME NEW x \in LoopStates, NEW a \in Attachment PROVE Attach(x, a) \in LoopStates
  <2>1. CASE x.error \/ ~a.png
    BY <2>1 DEF Attach
  <2>2. CASE ~x.error /\ a.png /\ a.path \in x.files
    <3>1. Attach(x, a) = [x EXCEPT !.files = @ \ {a.path}, !.names = @ \cup {a.name},
                                   !.screenshots = @ + 1]
      BY <2>2 DEF Attach
    <3>2. a.name \in Names /\ x.names \cup {a.name} \subseteq Names
      BY DEF LoopStates, Attachment
    <3>3. x.files \ {a.path} \subseteq Paths /\ x.screenshots + 1 \in Nat
      BY DEF LoopStates
    <3>. QED BY <3>1, <3>2, <3>3 DEF LoopStates
  <2>3. CASE ~x.error /\ a.png /\ a.path \notin x.files
    <3>1. Attach(x, a) = [x EXCEPT !.error = TRUE]
      BY <2>3 DEF Attach
    <3>. QED BY <3>1 DEF LoopStates
  <2>. QED BY <2>1, <2>2, <2>3
<1>3. step \in [1..n -> [LoopStates -> LoopStates]]
  BY <1>1, <1>2
<1>4. PICK f \in [0..n -> LoopStates] :
          /\ f[0] = s
          /\ \A k \in 1..n : f[k] = step[k][f[k - 1]]
  <2>1. \E f : IsRun(f, LoopStates, n, step, s)
    <3>1. n \in Nat
      BY <1>1
    <3>. HIDE DEF n, step
    <3>. QED BY <3>1, <1>3, LoopRuns
  <2>. QED BY <2>1 DEF IsRun
<1>5. \A k \in 1..n : f[k] = Attach(f[k - 1], atts[k])
  <2>. TAKE k \in 1..n
  <2>1. f[k - 1] \in LoopStates
    BY <1>1, <1>4
  <2>. QED BY <2>1, <1>4
<1>6. f = [j \in 0..n |-> IF j = 0 THEN s ELSE Attach(f[j - 1], atts[j])]
  BY <1>4, <1>5, <1>1
<1>7. ASSUME NEW h, h = [j \in 0..n |-> IF j = 0 THEN s ELSE Attach(h[j - 1], atts[j])]
      PROVE  h[n] = f[n]
  <2>. DEFINE P == {k \in 0..n : h[k] = f[k]}
  <2>1. 0 \in P
    BY <1>1, <1>4, <1>7
  <2>2. \A k \in 0..n : k # n /\ k \in P => k + 1 \in P
    BY <1>1, <1>5, <1>7
  <2>3. n \in P
    <3>. HIDE DEF P, n
    <3>. QED BY <1>1, <2>1, <2>2, CountUp
  <2>. QED BY <2>3
<1>8. AttachAll(s, atts) = f[n]
  BY <1>6, <1>7 DEF AttachAll
<1>. QED BY <1>4, <1>5, <1>8

\* What the loop over the attachments has found after k turns.  The pictures J
\* are all in files, each in one of its own ...
PngsTo(atts, k) == {j \in 1..k : atts[j].png}

OwnFiles(atts, J, files) ==
    /\ \A i, j \in J : atts[i].path = atts[j].path => i = j
    /\ \A j \in J : atts[j].path \in files

\* ... or the loop that began in s is in error; without one it has counted them.
AttachedTo(s, r, atts, J) ==
    /\ ~r.error <=> OwnFiles(atts, J, s.files)
    /\ ~r.error =>
           /\ r.finished = s.finished /\ r.passed = s.passed
           /\ r.names = s.names \cup {atts[j].name : j \in J}
           /\ r.screenshots = s.screenshots + Cardinality(J)
           /\ r.files = s.files \ {atts[j].path : j \in J}

\* One more attachment is one more picture, or none.
LEMMA PngsStep ==
  ASSUME NEW atts \in Seq(Attachment), NEW k \in Nat, k < Len(atts)
  PROVE  /\ IsFiniteSet(PngsTo(atts, k)) /\ Cardinality(PngsTo(atts, k)) \in Nat
         /\ k + 1 \notin PngsTo(atts, k)
         /\ PngsTo(atts, k + 1) = IF atts[k + 1].png THEN PngsTo(atts, k) \cup {k + 1}
                                                     ELSE PngsTo(atts, k)
<1>1. IsFiniteSet(1..k)
  BY FS_Interval
<1>2. PngsTo(atts, k) \in SUBSET (1..k)
  BY DEF PngsTo
<1>3. IsFiniteSet(PngsTo(atts, k))
  BY <1>1, <1>2, FS_Subset
<1>4. Cardinality(PngsTo(atts, k)) \in Nat
  BY <1>3, FS_CardinalityType
<1>. QED BY <1>3, <1>4 DEF PngsTo

\* A turn of the loop over the attachments keeps AttachedTo.
LEMMA AttachStep ==
  ASSUME NEW s \in LoopStates, NEW r \in LoopStates, NEW atts \in Seq(Attachment),
         NEW k \in Nat, k < Len(atts), AttachedTo(s, r, atts, PngsTo(atts, k))
  PROVE  AttachedTo(s, Attach(r, atts[k + 1]), atts, PngsTo(atts, k + 1))
<1>. DEFINE a == atts[k + 1]
            J == PngsTo(atts, k)
            K == PngsTo(atts, k + 1)
            q == Attach(r, a)
<1>1. /\ IsFiniteSet(J) /\ Cardinality(J) \in Nat /\ k + 1 \notin J
      /\ K = IF a.png THEN J \cup {k + 1} ELSE J
  BY PngsStep
<1>2. a \in Attachment
  OBVIOUS
<1>3. CASE ~a.png
  BY <1>1, <1>3 DEF Attach
<1>4. CASE a.png
  <2>1. K = J \cup {k + 1} /\ Cardinality(K) = Cardinality(J) + 1
    BY <1>1, <1>4, FS_AddElement
  <2>2. CASE r.error
    <3>1. q = r
      BY <2>2 DEF Attach
    <3>2. ~OwnFiles(atts, K, s.files)
      BY <2>1, <2>2 DEF AttachedTo, OwnFiles
    <3>. QED BY <2>2, <3>1, <3>2 DEF AttachedTo
  <2>3. CASE ~r.error /\ a.path \in r.files
    <3>1. q = [r EXCEPT !.files = @ \ {a.path}, !.names = @ \cup {a.name},
                        !.screenshots = @ + 1]
      BY <1>4, <2>3 DEF Attach
    <3>2. /\ ~q.error /\ q.finished = r.finished /\ q.passed = r.passed
          /\ q.files = r.files \ {a.path} /\ q.names = r.names \cup {a.name}
          /\ q.screenshots = r.screenshots + 1
      BY <3>1, <2>3 DEF LoopStates
    <3>3. OwnFiles(atts, J, s.files) /\ r.files = s.files \ {atts[j].path : j \in J}
      BY <2>3 DEF AttachedTo
    <3>4. OwnFiles(atts, K, s.files)
      BY <2>1, <2>3, <3>3 DEF OwnFiles
    <3>5. /\ {atts[j].path : j \in K} = {atts[j].path : j \in J} \cup {a.path}
          /\ {atts[j].name : j \in K} = {atts[j].name : j \in J} \cup {a.name}
      BY <2>1
    <3>6. q.screenshots = s.screenshots + Cardinality(K)
      BY <1>1, <2>1, <2>3, <3>2 DEF AttachedTo, LoopStates
    <3>7. /\ q.names = s.names \cup {atts[j].name : j \in K}
          /\ q.files = s.files \ {atts[j].path : j \in K}
      <4>1. r.names = s.names \cup {atts[j].name : j \in J}
        BY <2>3 DEF AttachedTo
      <4>. QED BY <3>2, <3>3, <3>5, <4>1
    <3>8. q.finished = s.finished /\ q.passed = s.passed
      BY <2>3, <3>2 DEF AttachedTo
    <3>. QED BY <3>2, <3>4, <3>6, <3>7, <3>8 DEF AttachedTo
  <2>4. CASE ~r.error /\ a.path \notin r.files
    <3>1. q = [r EXCEPT !.error = TRUE]
      BY <1>4, <2>4 DEF Attach
    <3>2. q.error
      BY <3>1 DEF LoopStates
    <3>3. ~OwnFiles(atts, K, s.files)
      <4>1. a.path \notin s.files \/ \E j \in J : atts[j].path = a.path
        BY <2>4 DEF AttachedTo
      <4>. QED BY <1>1, <2>1, <4>1 DEF OwnFiles
    <3>. QED BY <3>2, <3>3 DEF AttachedTo
  <2>. QED BY <2>2, <2>3, <2>4
<1>. QED BY <1>3, <1>4

\* What the loop over the attachments of a case has done when it ends.
LEMMA AttachAllResult ==
  ASSUME NEW s \in LoopStates, ~s.error, NEW atts \in Seq(Attachment)
  PROVE  /\ AttachAll(s, atts) \in LoopStates
         /\ AttachedTo(s, AttachAll(s, atts), atts, Pngs(atts))
         /\ IsFiniteSet(Pngs(atts))
<1>. DEFINE n == Len(atts)
<1>0. n \in Nat
  OBVIOUS
<1>1. PICK f \in [0..n -> LoopStates] :
         /\ f[0] = s
         /\ \A k \in 1..n : f[k] = Attach(f[k - 1], atts[k])
         /\ AttachAll(s, atts) = f[n]
  BY AttachRuns
<1>. DEFINE P == {k \in 0..n : AttachedTo(s, f[k], atts, PngsTo(atts, k))}
<1>2. 0 \in P
  <2>1. PngsTo(atts, 0) = {}
    BY DEF PngsTo
  <2>2. AttachedTo(s, s, atts, {})
    BY FS_EmptySet DEF AttachedTo, OwnFiles, LoopStates
  <2>3. AttachedTo(s, f[0], atts, PngsTo(atts, 0))
    BY <1>1, <2>1, <2>2
  <2>. QED BY <1>0, <2>3
<1>3. ASSUME NEW k \in 0..n, k # n, k \in P PROVE k + 1 \in P
  <2>1. k \in Nat /\ k < Len(atts) /\ k + 1 \in 1..n /\ k + 1 \in 0..n /\ (k + 1) - 1 = k
    BY <1>0, <1>3
  <2>2. f[k + 1] = Attach(f[k], atts[k + 1]) /\ f[k] \in LoopStates
    BY <1>1, <2>1
  <2>3. AttachedTo(s, f[k], atts, PngsTo(atts, k))
    BY <1>3
  <2>4. AttachedTo(s, f[k + 1], atts, PngsTo(atts, k + 1))
    BY <2>1, <2>2, <2>3, AttachStep
  <2>. QED BY <2>1, <2>4
<1>4. n \in P
  <2>. HIDE DEF P, n
  <2>. QED BY <1>0, <1>2, <1>3, CountUp
<1>5. Pngs(atts) = PngsTo(atts, n)
  BY DEF Pngs, PngsTo
<1>6. IsFiniteSet(Pngs(atts))
  <2>1. IsFiniteSet(1..n)
    BY <1>0, FS_Interval
  <2>2. Pngs(atts) \in SUBSET (1..n)
    BY DEF Pngs
  <2>. QED BY <2>1, <2>2, FS_Subset
<1>7. f[n] \in LoopStates
  BY <1>0, <1>1
<1>. QED BY <1>1, <1>4, <1>5, <1>6, <1>7

\* A turn of the loop over the cases has the declared type.
LEMMA FinishTyped ==
  ASSUME NEW s \in LoopStates, NEW case \in Case
  PROVE  FinishCase(s, case) \in LoopStates
<1>. DEFINE t == [s EXCEPT !.finished = @ \cup {Selector(case)}, !.passed = @ + 1]
<1>1. [s EXCEPT !.error = TRUE] \in LoopStates
  BY DEF LoopStates
<1>2. Selector(case) \in Selectors /\ case.attachments \in Seq(Attachment)
  BY DEF Selector, Selectors, Case
<1>3. ASSUME ~s.error PROVE AttachAll(t, case.attachments) \in LoopStates
  <2>1. s.finished \cup {Selector(case)} \subseteq Selectors /\ s.passed + 1 \in Nat
    BY <1>2 DEF LoopStates
  <2>2. t \in LoopStates /\ ~t.error
    BY <1>3, <2>1 DEF LoopStates
  <2>. QED BY <1>2, <2>2, AttachAllResult
<1>. QED BY <1>1, <1>3 DEF FinishCase, FinishUnless

\* FinishAll is the last state of a run of FinishCase over the cases.
LEMMA FinishRuns ==
  ASSUME NEW cases \in Seq(Case), NEW files \in SUBSET Paths
  PROVE  \E f \in [0..Len(cases) -> LoopStates] :
           /\ f[0] = Start(files)
           /\ \A k \in 1..Len(cases) : f[k] = FinishCase(f[k - 1], cases[k])
           /\ FinishAll(cases, files) = f[Len(cases)]
<1>. DEFINE n == Len(cases)
     s == Start(files)
     step == [k \in 1..n |-> [x \in LoopStates |-> FinishCase(x, cases[k])]]
<1>1. n \in Nat /\ \A k \in 1..n : cases[k] \in Case
  OBVIOUS
<1>2. s \in LoopStates
  BY DEF Start, LoopStates
<1>3. step \in [1..n -> [LoopStates -> LoopStates]]
  BY <1>1, FinishTyped
<1>4. PICK f \in [0..n -> LoopStates] :
          /\ f[0] = s
          /\ \A k \in 1..n : f[k] = step[k][f[k - 1]]
  <2>1. \E f : IsRun(f, LoopStates, n, step, s)
    <3>1. n \in Nat
      BY <1>1
    <3>. HIDE DEF n, step, s
    <3>. QED BY <3>1, <1>2, <1>3, LoopRuns
  <2>. QED BY <2>1 DEF IsRun
<1>5. \A k \in 1..n : f[k] = FinishCase(f[k - 1], cases[k])
  <2>. TAKE k \in 1..n
  <2>1. f[k - 1] \in LoopStates
    BY <1>1, <1>4
  <2>. QED BY <2>1, <1>4
<1>6. f = [j \in 0..n |-> IF j = 0 THEN s ELSE FinishCase(f[j - 1], cases[j])]
  BY <1>4, <1>5, <1>1
<1>7. ASSUME NEW h, h = [j \in 0..n |-> IF j = 0 THEN s ELSE FinishCase(h[j - 1], cases[j])]
      PROVE  h[n] = f[n]
  <2>. DEFINE P == {k \in 0..n : h[k] = f[k]}
  <2>1. 0 \in P
    BY <1>1, <1>4, <1>7
  <2>2. \A k \in 0..n : k # n /\ k \in P => k + 1 \in P
    BY <1>1, <1>5, <1>7
  <2>3. n \in P
    <3>. HIDE DEF P, n
    <3>. QED BY <1>1, <2>1, <2>2, CountUp
  <2>. QED BY <2>3
<1>8. FinishAll(cases, files) = f[n]
  BY <1>6, <1>7 DEF FinishAll
<1>. QED BY <1>4, <1>5, <1>8

\* A case has finitely many pictures.
LEMMA PngsFinite ==
  ASSUME NEW atts \in Seq(Attachment)
  PROVE  IsFiniteSet(Pngs(atts))
<1>1. IsFiniteSet(1..Len(atts))
  BY FS_Interval
<1>2. Pngs(atts) \in SUBSET (1..Len(atts))
  BY DEF Pngs
<1>. QED BY <1>1, <1>2, FS_Subset

\* What the loop over the cases has found after k turns: the places of pictures,
\* each of them with a file of its own, and tests that passed, none of them twice.
PlacesTo(cases, k) == UNION {{i} \X Pngs(cases[i].attachments) : i \in 1..k}

OwnPlaces(cases, L, files) ==
    /\ \A p, q \in L : At(cases, p).path = At(cases, q).path => p = q
    /\ \A p \in L : At(cases, p).path \in files

PassedOnce(cases, k) ==
    /\ \A i \in 1..k : cases[i].passed
    /\ \A i, j \in 1..k : Selector(cases[i]) = Selector(cases[j]) => i = j

\* It is in error, or all this is so and it has counted right.
FinishedTo(files, r, cases, k) ==
    LET L == PlacesTo(cases, k)
    IN  /\ ~r.error <=> PassedOnce(cases, k) /\ OwnPlaces(cases, L, files)
        /\ IsFiniteSet(L)
        /\ ~r.error =>
               /\ r.finished = {Selector(cases[i]) : i \in 1..k}
               /\ IsFiniteSet(r.finished) /\ Cardinality(r.finished) = k
               /\ r.passed = k
               /\ r.names = {At(cases, p).name : p \in L}
               /\ r.screenshots = Cardinality(L)
               /\ r.files = files \ {At(cases, p).path : p \in L}

\* One more case adds the places of its pictures.
LEMMA PlacesStep ==
  ASSUME NEW cases \in Seq(Case), NEW k \in Nat, k < Len(cases),
         IsFiniteSet(PlacesTo(cases, k))
  PROVE  LET atts == cases[k + 1].attachments
             L == PlacesTo(cases, k)
             M == PlacesTo(cases, k + 1)
             J == Pngs(atts)
         IN  /\ M = L \cup ({k + 1} \X J)
             /\ L \cap ({k + 1} \X J) = {}
             /\ IsFiniteSet(M) /\ Cardinality(M) = Cardinality(L) + Cardinality(J)
             /\ \A j \in J : At(cases, <<k + 1, j>>) = atts[j]
<1>. DEFINE atts == cases[k + 1].attachments
            L == PlacesTo(cases, k)
            M == PlacesTo(cases, k + 1)
            J == Pngs(atts)
            N == {k + 1} \X J
<1>0. IsFiniteSet(L)
  OBVIOUS
<1>1. 1..(k + 1) = 1..k \cup {k + 1}
  OBVIOUS
<1>2. M = L \cup N
  BY <1>1 DEF PlacesTo
<1>3. L \cap N = {}
  <2>1. \A p \in L : p[1] \in 1..k
    BY DEF PlacesTo
  <2>2. \A p \in N : p[1] = k + 1
    OBVIOUS
  <2>. QED BY <2>1, <2>2
<1>4. IsFiniteSet(J)
  <2>1. cases[k + 1] \in Case
    OBVIOUS
  <2>2. atts \in Seq(Attachment)
    BY <2>1 DEF Case
  <2>. HIDE DEF atts
  <2>. QED BY <2>2, PngsFinite
<1>5. IsFiniteSet(N) /\ Cardinality(N) = Cardinality(J)
  <2>1. IsFiniteSet({k + 1}) /\ Cardinality({k + 1}) = 1
    BY FS_Singleton
  <2>2. Cardinality(J) \in Nat
    BY <1>4, FS_CardinalityType
  <2>. HIDE DEF J
  <2>. QED BY <1>4, <2>1, <2>2, FS_Product
<1>6. Cardinality(L) \in Nat /\ Cardinality(J) \in Nat
  BY <1>0, <1>4, FS_CardinalityType
<1>7. IsFiniteSet(M) /\ Cardinality(M) = Cardinality(L) + Cardinality(J)
  <2>1. Cardinality(L \cap N) = 0
    BY <1>3, FS_EmptySet
  <2>2. /\ IsFiniteSet(L \cup N)
        /\ Cardinality(L \cup N) = Cardinality(L) + Cardinality(N) - Cardinality(L \cap N)
    <3>. HIDE DEF L, N
    <3>. QED BY <1>0, <1>5, FS_Union
  <2>. HIDE DEF L, M, N, J
  <2>. QED BY <1>2, <1>5, <1>6, <2>1, <2>2
<1>8. \A j \in J : At(cases, <<k + 1, j>>) = atts[j]
  BY DEF At
<1>. QED BY <1>2, <1>3, <1>7, <1>8

\* A turn of the loop over the cases keeps FinishedTo.
LEMMA FinishStep ==
  ASSUME NEW files \in SUBSET Paths, NEW r \in LoopStates, NEW cases \in Seq(Case),
         NEW k \in Nat, k < Len(cases), FinishedTo(files, r, cases, k)
  PROVE  FinishedTo(files, FinishCase(r, cases[k + 1]), cases, k + 1)
<1>. DEFINE c == cases[k + 1]
            atts == c.attachments
            L == PlacesTo(cases, k)
            M == PlacesTo(cases, k + 1)
            J == Pngs(atts)
            q == FinishCase(r, c)
            done == {Selector(cases[i]) : i \in 1..k}
<1>1. /\ M = L \cup ({k + 1} \X J)
      /\ L \cap ({k + 1} \X J) = {}
      /\ IsFiniteSet(M) /\ Cardinality(M) = Cardinality(L) + Cardinality(J)
      /\ \A j \in J : At(cases, <<k + 1, j>>) = atts[j]
  BY PlacesStep DEF FinishedTo
<1>2. c \in Case /\ c.passed \in BOOLEAN /\ atts \in Seq(Attachment) /\ Selector(c) \in Selectors
  <2>1. c \in Case
    OBVIOUS
  <2>. HIDE DEF c
  <2>. QED BY <2>1 DEF Case, Selector, Selectors
<1>3. 1..(k + 1) = 1..k \cup {k + 1} /\ k + 1 \notin 1..k
  OBVIOUS
<1>4. PassedOnce(cases, k + 1) <=> PassedOnce(cases, k) /\ c.passed /\ Selector(c) \notin done
  BY <1>3 DEF PassedOnce
<1>5. OwnPlaces(cases, M, files) => OwnPlaces(cases, L, files)
  BY <1>1 DEF OwnPlaces
<1>6. CASE r.error \/ ~c.passed \/ Selector(c) \in r.finished
  <2>1. q = [r EXCEPT !.error = TRUE]
    BY <1>6 DEF FinishCase, FinishUnless
  <2>2. q.error
    BY <2>1 DEF LoopStates
  <2>3. ~(PassedOnce(cases, k + 1) /\ OwnPlaces(cases, M, files))
    BY <1>4, <1>5, <1>6 DEF FinishedTo
  <2>. QED BY <1>1, <2>2, <2>3 DEF FinishedTo
<1>7. CASE ~r.error /\ c.passed /\ Selector(c) \notin r.finished
  <2>. DEFINE t == [r EXCEPT !.finished = @ \cup {Selector(c)}, !.passed = @ + 1]
  <2>1. q = AttachAll(t, atts)
    BY <1>7 DEF FinishCase, FinishUnless
  <2>2. /\ t \in LoopStates /\ ~t.error
        /\ t.finished = r.finished \cup {Selector(c)} /\ t.passed = r.passed + 1
        /\ t.names = r.names /\ t.screenshots = r.screenshots /\ t.files = r.files
    <3>1. r.finished \cup {Selector(c)} \subseteq Selectors /\ r.passed + 1 \in Nat
      BY <1>2 DEF LoopStates
    <3>. QED BY <1>7, <3>1 DEF LoopStates
  <2>3. AttachedTo(t, q, atts, J)
    <3>. HIDE DEF t, q, J, atts
    <3>. QED BY <1>2, <2>1, <2>2, AttachAllResult DEF J
  <2>4. /\ PassedOnce(cases, k) /\ OwnPlaces(cases, L, files)
        /\ r.finished = done /\ IsFiniteSet(r.finished) /\ Cardinality(r.finished) = k
        /\ r.passed = k /\ r.names = {At(cases, p).name : p \in L}
        /\ r.screenshots = Cardinality(L)
        /\ r.files = files \ {At(cases, p).path : p \in L}
    BY <1>7 DEF FinishedTo
  <2>5. PassedOnce(cases, k + 1)
    BY <1>4, <1>7, <2>4
  <2>6. OwnPlaces(cases, M, files) <=> OwnFiles(atts, J, r.files)
    <3>1. ASSUME OwnPlaces(cases, M, files) PROVE OwnFiles(atts, J, r.files)
      <4>1. ASSUME NEW i \in J, NEW j \in J, atts[i].path = atts[j].path PROVE i = j
        <5>1. <<k + 1, i>> \in M /\ <<k + 1, j>> \in M
          BY <1>1
        <5>2. <<k + 1, i>> = <<k + 1, j>>
          BY <1>1, <3>1, <4>1, <5>1 DEF OwnPlaces
        <5>. QED BY <5>2
      <4>2. ASSUME NEW j \in J PROVE atts[j].path \in r.files
        <5>1. <<k + 1, j>> \in M /\ <<k + 1, j>> \notin L
          BY <1>1
        <5>2. At(cases, <<k + 1, j>>).path = atts[j].path
          BY <1>1
        <5>3. atts[j].path \in files
          BY <3>1, <5>1, <5>2 DEF OwnPlaces
        <5>4. \A p \in L : At(cases, p).path # atts[j].path
          BY <1>1, <3>1, <5>1, <5>2 DEF OwnPlaces
        <5>. QED BY <2>4, <5>3, <5>4
      <4>. QED BY <4>1, <4>2 DEF OwnFiles
    <3>2. ASSUME OwnFiles(atts, J, r.files) PROVE OwnPlaces(cases, M, files)
      <4>1. \A p \in M : p \in L \/ \E j \in J : p = <<k + 1, j>>
        BY <1>1
      <4>2. \A j \in J : /\ At(cases, <<k + 1, j>>).path \in r.files
                         /\ At(cases, <<k + 1, j>>).path = atts[j].path
        BY <1>1, <3>2 DEF OwnFiles
      <4>3. \A p \in L : At(cases, p).path \notin r.files
        BY <2>4
      <4>4. \A p \in M : At(cases, p).path \in files
        BY <2>4, <4>1, <4>2 DEF OwnPlaces
      <4>5. ASSUME NEW p \in M, NEW o \in M, At(cases, p).path = At(cases, o).path
            PROVE  p = o
        BY <2>4, <3>2, <4>1, <4>2, <4>3, <4>5 DEF OwnPlaces, OwnFiles
      <4>. QED BY <4>4, <4>5 DEF OwnPlaces
    <3>. QED BY <3>1, <3>2
  <2>7. ~q.error <=> OwnPlaces(cases, M, files)
    BY <2>2, <2>3, <2>6 DEF AttachedTo
  <2>8. ASSUME ~q.error
        PROVE  /\ q.finished = done \cup {Selector(c)} /\ q.passed = k + 1
               /\ q.names = r.names \cup {atts[j].name : j \in J}
               /\ q.screenshots = Cardinality(L) + Cardinality(J)
               /\ q.files = r.files \ {atts[j].path : j \in J}
    BY <2>2, <2>3, <2>4, <2>8 DEF AttachedTo
  <2>9. /\ {At(cases, p).name : p \in M} =
              {At(cases, p).name : p \in L} \cup {atts[j].name : j \in J}
        /\ {At(cases, p).path : p \in M} =
              {At(cases, p).path : p \in L} \cup {atts[j].path : j \in J}
    <3>1. L \subseteq M
      BY <1>1
    <3>2. \A p \in M : p \in L \/ \E j \in J : At(cases, p) = atts[j]
      BY <1>1
    <3>3. \A j \in J : \E p \in M : At(cases, p) = atts[j]
      BY <1>1
    <3>. HIDE DEF M, L, J, atts
    <3>. QED BY <3>1, <3>2, <3>3
  <2>10. {Selector(cases[i]) : i \in 1..(k + 1)} = done \cup {Selector(c)}
    BY <1>3
  <2>11. /\ IsFiniteSet(done \cup {Selector(c)})
         /\ Cardinality(done \cup {Selector(c)}) = k + 1
    <3>1. IsFiniteSet(done) /\ Cardinality(done) = k /\ Selector(c) \notin done
      BY <1>7, <2>4
    <3>. HIDE DEF done, c
    <3>. QED BY <3>1, FS_AddElement
  <2>12. ~q.error =>
            /\ q.finished = {Selector(cases[i]) : i \in 1..(k + 1)}
            /\ IsFiniteSet(q.finished) /\ Cardinality(q.finished) = k + 1
            /\ q.passed = k + 1
            /\ q.names = {At(cases, p).name : p \in M}
            /\ q.screenshots = Cardinality(M)
            /\ q.files = files \ {At(cases, p).path : p \in M}
    <3>. HIDE DEF q, M, L, J, done, c, atts
    <3>. QED BY <1>1, <2>4, <2>8, <2>9, <2>10, <2>11
  <2>13. FinishedTo(files, q, cases, k + 1)
    <3>. HIDE DEF q
    <3>. QED BY <1>1, <2>5, <2>7, <2>12 DEF FinishedTo
  <2>. QED BY <2>13
<1>. QED BY <1>6, <1>7, <1>2

\* What the loop over the cases has done when it ends.
LEMMA FinishAllResult ==
  ASSUME NEW cases \in Seq(Case), NEW files \in SUBSET Paths
  PROVE  FinishedTo(files, FinishAll(cases, files), cases, Len(cases))
<1>. DEFINE n == Len(cases)
<1>0. n \in Nat
  OBVIOUS
<1>1. PICK f \in [0..n -> LoopStates] :
         /\ f[0] = Start(files)
         /\ \A k \in 1..n : f[k] = FinishCase(f[k - 1], cases[k])
         /\ FinishAll(cases, files) = f[n]
  BY FinishRuns
<1>. DEFINE P == {k \in 0..n : FinishedTo(files, f[k], cases, k)}
<1>2. 0 \in P
  <2>1. PlacesTo(cases, 0) = {}
    BY DEF PlacesTo
  <2>2. PassedOnce(cases, 0) /\ OwnPlaces(cases, {}, files)
    BY DEF PassedOnce, OwnPlaces
  <2>3. FinishedTo(files, Start(files), cases, 0)
    BY <2>1, <2>2, FS_EmptySet DEF FinishedTo, Start
  <2>4. FinishedTo(files, f[0], cases, 0)
    BY <1>1, <2>3
  <2>. QED BY <1>0, <2>4
<1>3. ASSUME NEW k \in 0..n, k # n, k \in P PROVE k + 1 \in P
  <2>1. k \in Nat /\ k < Len(cases) /\ k + 1 \in 1..n /\ k + 1 \in 0..n /\ (k + 1) - 1 = k
    BY <1>0, <1>3
  <2>2. f[k + 1] = FinishCase(f[k], cases[k + 1]) /\ f[k] \in LoopStates
    BY <1>1, <2>1
  <2>3. FinishedTo(files, f[k], cases, k)
    BY <1>3
  <2>4. FinishedTo(files, f[k + 1], cases, k + 1)
    BY <2>1, <2>2, <2>3, FinishStep
  <2>. QED BY <2>1, <2>4
<1>4. n \in P
  <2>. HIDE DEF P, n
  <2>. QED BY <1>0, <1>2, <1>3, CountUp
<1>. QED BY <1>1, <1>4

\* A request whose tests differ selects as many as it lists.
LEMMA SelectedCount ==
  ASSUME NEW T, NEW tests \in Seq(T), IsInjective(tests)
  PROVE  IsFiniteSet(ToSet(tests)) /\ Cardinality(ToSet(tests)) = Len(tests)
<1>. DEFINE n == Len(tests)
<1>1. n \in Nat /\ DOMAIN tests = 1..n
  OBVIOUS
<1>2. IsFiniteSet(1..n) /\ Cardinality(1..n) = n
  BY <1>1, FS_Interval
<1>3. tests \in Bijection(1..n, ToSet(tests))
  BY <1>1 DEF ToSet, IsInjective, Bijection, Injection, Surjection
<1>. QED BY <1>2, <1>3, FS_Bijection DEF ExistsBijection

\* The verdict on a test run is right for every request, every report, however
\* many cases and attachments it has, and every set of files: a success exactly
\* if the evidence is genuine.
THEOREM AllJudgedHolds == AllJudged
<1>. SUFFICES ASSUME NEW request \in TestRequests, NEW cases \in Reports,
                     NEW files \in Pictures
              PROVE  Judged(request, cases, files)
  BY DEF AllJudged
<1>. DEFINE n == Len(cases)
            s == FinishAll(cases, files)
            S == Screenshots(cases)
            done == {Selector(cases[i]) : i \in 1..n}
            tests == ToSet(request.tests)
            ok == /\ ValidTestRun(request) /\ ~s.error
                  /\ Cardinality(s.finished) = Len(request.tests)
                  /\ tests \subseteq s.finished
                  /\ request.required \subseteq s.names
<1>1. /\ request.tests \in Seq(Classes \X Methods) /\ cases \in Seq(Case)
      /\ files \in SUBSET Paths
  BY EvidenceAssumption
<1>2. n \in Nat /\ DOMAIN cases = 1..n
  BY <1>1
<1>3. S = PlacesTo(cases, n)
  BY <1>2 DEF Screenshots, PlacesTo
<1>4. FinishedTo(files, s, cases, n)
  BY <1>1, FinishAllResult
<1>5. /\ ~s.error <=> PassedOnce(cases, n) /\ OwnPlaces(cases, S, files)
      /\ ~s.error => /\ s.finished = done
                     /\ IsFiniteSet(done) /\ Cardinality(done) = n
                     /\ s.passed = n /\ s.names = {At(cases, p).name : p \in S}
                     /\ s.screenshots = Cardinality(S)
  BY <1>3, <1>4 DEF FinishedTo
<1>6. IsInjective(request.tests) =>
         IsFiniteSet(tests) /\ Cardinality(tests) = Len(request.tests)
  BY <1>1, SelectedCount
<1>7. ASSUME ok PROVE Genuine(request, cases, files)
  <2>1. /\ ValidTestRun(request) /\ ~s.error /\ s.finished = done
        /\ PassedOnce(cases, n) /\ OwnPlaces(cases, S, files)
        /\ IsFiniteSet(done) /\ Cardinality(done) = Len(request.tests)
        /\ tests \subseteq done
        /\ request.required \subseteq {At(cases, p).name : p \in S}
    BY <1>5, <1>7
  <2>2. tests = done
    <3>. HIDE DEF tests, done
    <3>. QED BY <1>6, <2>1, FS_Subset DEF ValidTestRun
  <2>3. \A i \in 1..n : cases[i].passed /\ Selector(cases[i]) \in tests
    BY <2>1, <2>2 DEF PassedOnce
  <2>4. ASSUME NEW t \in tests
        PROVE  \E i \in 1..n : \A j \in 1..n : Selector(cases[j]) = t <=> j = i
    <3>1. PICK i \in 1..n : Selector(cases[i]) = t
      BY <2>2
    <3>. QED BY <2>1, <3>1 DEF PassedOnce
  <2>. QED BY <1>2, <2>1, <2>3, <2>4 DEF Genuine, ValidTestRun, OwnPlaces
<1>8. ASSUME Genuine(request, cases, files) PROVE ok
  <2>1. /\ ValidTestRun(request) /\ IsInjective(request.tests)
        /\ \A i \in 1..n : cases[i].passed /\ Selector(cases[i]) \in tests
        /\ \A t \in tests :
               \E i \in 1..n : \A j \in 1..n : Selector(cases[j]) = t <=> j = i
        /\ OwnPlaces(cases, S, files)
        /\ request.required \subseteq {At(cases, p).name : p \in S}
    <3>1. OwnPlaces(cases, S, files)
      BY <1>8 DEF Genuine, OwnPlaces
    <3>2. /\ ValidTestRun(request) /\ IsInjective(request.tests)
          /\ request.required \subseteq {At(cases, p).name : p \in S}
      BY <1>8 DEF Genuine, ValidTestRun
    <3>3. /\ \A i \in 1..n : cases[i].passed /\ Selector(cases[i]) \in tests
          /\ \A t \in tests :
                 \E i \in 1..n : \A j \in 1..n : Selector(cases[j]) = t <=> j = i
      <4>. DEFINE D == DOMAIN cases
      <4>1. /\ \A i \in D : cases[i].passed /\ Selector(cases[i]) \in tests
            /\ \A t \in tests : \E i \in D : \A j \in D : Selector(cases[j]) = t <=> j = i
        BY <1>8, Zenon DEF Genuine
      <4>2. \A i : i \in D <=> i \in 1..n
        BY <1>2
      <4>. HIDE DEF D, n, tests
      <4>3. \A i \in 1..n : cases[i].passed /\ Selector(cases[i]) \in tests
        BY <4>1, <4>2
      <4>4. \A t \in tests : \E i \in 1..n :
                \A j \in 1..n : Selector(cases[j]) = t <=> j = i
        <5>. TAKE t \in tests
        <5>1. PICK i \in D : \A j \in D : Selector(cases[j]) = t <=> j = i
          BY <4>1
        <5>2. i \in 1..n /\ \A j \in 1..n : Selector(cases[j]) = t <=> j = i
          BY <4>2, <5>1
        <5>. QED BY <5>2
      <4>. QED BY <4>3, <4>4
    <3>. QED BY <3>1, <3>2, <3>3
  <2>2. PassedOnce(cases, n)
    <3>1. ASSUME NEW i \in 1..n, NEW j \in 1..n, Selector(cases[i]) = Selector(cases[j])
          PROVE  i = j
      <4>1. PICK k \in 1..n : \A l \in 1..n : Selector(cases[l]) = Selector(cases[i]) <=> l = k
        BY <2>1
      <4>. QED BY <3>1, <4>1
    <3>. QED BY <2>1, <3>1 DEF PassedOnce
  <2>3. done = tests
    <3>1. \A t \in tests : \E i \in 1..n : Selector(cases[i]) = t
      BY <2>1
    <3>. QED BY <2>1, <3>1
  <2>. HIDE DEF done, tests, s, S
  <2>. QED BY <1>5, <1>6, <2>1, <2>2, <2>3
<1>9. ok => s.passed = Len(request.tests) /\ s.screenshots = Cardinality(S)
  BY <1>5
<1>10. /\ Verdict(request, cases, files).ok <=> ok
       /\ Verdict(request, cases, files).passed = s.passed
       /\ Verdict(request, cases, files).screenshots = s.screenshots
  BY DEF Verdict
<1>. QED
  BY <1>7, <1>8, <1>9, <1>10 DEF Judged

\* xctest.go:115: a run whose evidence comes to be verified is judged right.
THEOREM EvidenceSoundHolds == Spec => []EvidenceSound
<1>1. EvidenceSound
  BY AllJudgedHolds DEF EvidenceSound
<1>. QED
  BY <1>1, PTL

=============================================================================
