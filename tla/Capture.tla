------------------------------- MODULE Capture -------------------------------
(***************************************************************************)
(* Screen captures on the outer session: the screenshot command and the    *)
(* test runs of run-tests that open a capture bridge (capture_bridge.go,   *)
(* screenshot.go, xctest.go).                                              *)
(*                                                                         *)
(* Both own operationMu from TryLock to their last deferred call, so they  *)
(* follow each other: the n-th is operation n.  Test runs without a bridge *)
(* take no captures and are left out.  Each operation opens a screenshot   *)
(* service of its own.  The bridge of a test run serves HTTP requests, one *)
(* goroutine each, and these may outlive the run.  A step is one check,    *)
(* one call on the service, or one deferred call.  Whether the evidence of *)
(* a test run is good is a choice here; TestEvidence computes it.          *)
(***************************************************************************)
EXTENDS Integers, TestEvidence

CONSTANTS
    Requests,        \* the HTTP requests the test runner sends to bridges
    MaxOperations    \* bound: how many operations own the session

ASSUME MaxOperationsAssumption == MaxOperations \in Nat
ASSUME RequestsAssumption == "free" \notin Requests

VARIABLES
    operation,       \* where the owner of operationMu is
    kind,            \* its command
    count,           \* operations so far; the current one has this number
    expired,         \* operations whose context is done
    service,         \* of an operation: its screenshot service
    closing,         \* operations with a closeService started by AfterFunc
    listening,       \* operations whose bridge accepts connections
    captureMu,       \* of an operation: the request that owns captureMu
    outcome,         \* of an operation: what it reported
    lateOperations,  \* history: those whose context was done when the device
    lateRequests,    \* had delivered the picture, or ended the tests
    handler, owner,  \* of a request: where its handler is, whose bridge it is
    gone,            \* requests whose own context is done
    answer           \* of a request: the HTTP response

operationVars == <<operation, kind, count, outcome>>
requestVars == <<handler, owner, answer>>
late == <<lateOperations, lateRequests>>
vars == <<operationVars, expired, service, closing, listening, captureMu,
          requestVars, gone, late>>

Free == "free"
Operations == 1..MaxOperations
Stages == {"idle", "opening", "binding", "testing", "unbinding", "taking",
           "taken", "closing", "verifying", "ending"}
HandlerPCs == {"idle", "received", "locking", "taking", "taken", "stopping", "done"}
\* closeService is hooked to the context of a request in these.
Hooked == {"taking", "taken", "stopping"}

TypeOK ==
    /\ operation \in Stages /\ kind \in {"screenshot", "run-tests"}
    /\ count \in 0..MaxOperations
    /\ expired \subseteq Operations /\ closing \subseteq Operations
    /\ listening \subseteq Operations
    /\ service \in [Operations -> {"none", "open", "closed"}]
    /\ captureMu \in [Operations -> Requests \cup {Free}]
    /\ outcome \in [Operations -> {"none", "error", "ok"}]
    /\ handler \in [Requests -> HandlerPCs]
    /\ owner \in [Requests -> 0..MaxOperations]
    /\ gone \subseteq Requests
    /\ lateOperations \subseteq Operations /\ lateRequests \subseteq Requests
    /\ answer \in [Requests -> {"none", "refused", "gone", "conflict",
                                "failed", "image"}]

Init ==
    /\ operation = "idle" /\ kind = "screenshot" /\ count = 0
    /\ expired = {} /\ closing = {} /\ listening = {} /\ gone = {}
    /\ lateOperations = {} /\ lateRequests = {}
    /\ service = [n \in Operations |-> "none"]
    /\ captureMu = [n \in Operations |-> Free]
    /\ outcome = [n \in Operations |-> "none"]
    /\ handler = [q \in Requests |-> "idle"]
    /\ owner = [q \in Requests |-> 0]
    /\ answer = [q \in Requests |-> "none"]

-----------------------------------------------------------------------------
(* The operation that owns operationMu: Daemon.screenshot and runTests *)

\* TryLock, currentSession and the output directory: their failures return
\* before anything is opened.
Begin(command) ==
    /\ operation = "idle" /\ count < MaxOperations
    /\ operation' = "opening" /\ kind' = command /\ count' = count + 1
    /\ UNCHANGED <<expired, service, closing, listening, captureMu, outcome,
                   requestVars, gone, late>>

\* The current operation leaves a stage.
Stage(from, to) ==
    /\ operation = from /\ operation' = to
    /\ lateOperations' = IF from \in {"taking", "testing"} /\ count \in expired
                         THEN lateOperations \cup {count} ELSE lateOperations
    /\ UNCHANGED <<kind, count, captureMu, requestVars, gone, lateRequests>>

\* openScreenshotReader, and the AfterFunc that ties the service to the
\* context of the operation.
OpenReader ==
    /\ Stage("opening", IF kind = "screenshot" THEN "taking" ELSE "binding")
    /\ service' = [service EXCEPT ![count] = "open"]
    /\ closing' = IF count \in expired THEN closing \cup {count} ELSE closing
    /\ UNCHANGED <<expired, listening, outcome>>

Report(result) == outcome' = [outcome EXCEPT ![count] = result]

\* No service was opened, so nothing is deferred but cancel and Unlock.
OpenReaderFails ==
    /\ Stage("opening", IF kind = "screenshot" THEN "ending" ELSE "verifying")
    /\ UNCHANGED <<expired, service, closing, listening, outcome>>

\* startCaptureBridge; the bridge closes itself when the context is done.
StartBridge ==
    /\ Stage("binding", "testing")
    /\ listening' = listening \cup {count}
    /\ UNCHANGED <<expired, service, closing, outcome>>

BridgeFails(next) ==
    /\ Stage("binding", next)
    /\ UNCHANGED <<expired, service, closing, listening, outcome>>

\* Mutant: the error path of startCaptureBridge does not close the reader.
BridgeFailsOpen == BridgeFails("verifying")

StartBridgeFails == BridgeFails("closing")

\* RunTestWithConfig returns.
TestsEnd ==
    /\ Stage("testing", "unbinding")
    /\ UNCHANGED <<expired, service, closing, listening, outcome>>

\* The deferred bridge.Close, which does not wait for handlers.
CloseBridge ==
    /\ Stage("unbinding", "closing")
    /\ listening' = listening \ {count}
    /\ UNCHANGED <<expired, service, closing, outcome>>

\* TakeScreenshot of the screenshot command returns a picture or an error.
Take ==
    /\ \/ Stage("taking", "taken") /\ service[count] = "open"
       \/ Stage("taking", "closing")
    /\ UNCHANGED <<expired, service, closing, listening, outcome>>

\* An error is reported, or a success unless the context is done.
Judge(from, to, done) ==
    /\ Stage(from, to)
    /\ \/ Report("error")
       \/ ~done /\ Report("ok")
    /\ UNCHANGED <<expired, service, closing, listening>>

\* The reader looks at its context once more before it returns the picture,
\* whose size Daemon.screenshot checks.
CheckTaken == Judge("taken", "closing", count \in expired)

\* The deferred closeReader: it returns when the service is closed.
CloseReader ==
    /\ Stage("closing", IF kind = "screenshot" THEN "ending" ELSE "verifying")
    /\ service' = [service EXCEPT ![count] = "closed"]
    /\ UNCHANGED <<expired, closing, listening, outcome>>

\* runTests: a context that is done is the error of the run; otherwise the
\* error of RunTests or the judgement of verifyTestEvidence.
Verify == Judge("verifying", "ending", count \in expired)

\* The deferred cancel, and Unlock: operationMu is free for the next operation.
End ==
    /\ Stage("ending", "idle")
    /\ expired' = expired \cup {count}
    /\ outcome' = IF outcome[count] = "none"
                  THEN [outcome EXCEPT ![count] = "error"] ELSE outcome
    /\ UNCHANGED <<service, closing, listening>>

Operate ==
    \/ OpenReader \/ OpenReaderFails \/ StartBridge \/ StartBridgeFails
    \/ TestsEnd \/ CloseBridge \/ Take \/ CheckTaken \/ CloseReader
    \/ Verify \/ End

-----------------------------------------------------------------------------
(* captureBridgeHandler: one goroutine per request *)

RequestDone(q) == q \in gone \/ owner[q] \in expired

Handle(q, from, to) ==
    /\ handler[q] = from /\ handler' = [handler EXCEPT ![q] = to]
    /\ lateRequests' = IF from = "taking" /\ RequestDone(q)
                       THEN lateRequests \cup {q} ELSE lateRequests
    /\ UNCHANGED <<operationVars, expired, service, listening, gone,
                   lateOperations>>

Respond(q, response) == answer' = [answer EXCEPT ![q] = response]

Arrive(q, n) ==
    /\ n \in listening
    /\ Handle(q, "idle", "received")
    /\ owner' = [owner EXCEPT ![q] = n]
    /\ UNCHANGED <<closing, captureMu, answer>>

\* Wrong token, or not a bare POST of /screenshot.
Refuse(q) ==
    /\ Handle(q, "received", "done")
    /\ Respond(q, "refused")
    /\ UNCHANGED <<closing, captureMu, owner>>

\* owner.Err() != nil
RunClosed(q) ==
    /\ owner[q] \in expired
    /\ Handle(q, "received", "done")
    /\ Respond(q, "gone")
    /\ UNCHANGED <<closing, captureMu, owner>>

Admit(q) ==
    /\ owner[q] \notin expired
    /\ Handle(q, "received", "locking")
    /\ UNCHANGED <<closing, captureMu, owner, answer>>

Conflict(q) ==
    /\ Handle(q, "locking", "done")
    /\ captureMu[owner[q]] # Free
    /\ Respond(q, "conflict")
    /\ UNCHANGED <<closing, captureMu, owner>>

\* A successful TryLock; the reader hooks closeService to the context of the
\* request, which is done already if the run or the client is gone.
LockCapture(q) ==
    /\ Handle(q, "locking", "taking")
    /\ captureMu[owner[q]] = Free
    /\ captureMu' = [captureMu EXCEPT ![owner[q]] = q]
    /\ closing' = IF RequestDone(q) THEN closing \cup {owner[q]} ELSE closing
    /\ UNCHANGED <<owner, answer>>

Unlock(q) == captureMu' = [captureMu EXCEPT ![owner[q]] = Free]

\* service.TakeScreenshot returns the picture ...
TakeReturns(q) ==
    /\ Handle(q, "taking", "taken")
    /\ service[owner[q]] = "open"
    /\ UNCHANGED <<closing, captureMu, owner, answer>>

\* ... or an error, and the response is 502 whatever the error.
TakeFails(q) ==
    /\ Handle(q, "taking", "done")
    /\ Respond(q, "failed") /\ Unlock(q)
    /\ UNCHANGED <<closing, owner>>

CheckUnless(q, done) ==
    /\ IF done
       THEN /\ Handle(q, "taken", "done")
            /\ Respond(q, "failed") /\ Unlock(q)
       ELSE /\ Handle(q, "taken", "stopping")
            /\ UNCHANGED <<captureMu, answer>>
    /\ UNCHANGED <<closing, owner>>

\* Mutant: the reader returns a picture to a request that is cancelled.
CheckNothing(q) == CheckUnless(q, FALSE)

\* requestCtx.Err() != nil
Check(q) == CheckUnless(q, RequestDone(q))

FinishClosing(q, closes) ==
    /\ Handle(q, "stopping", "done")
    /\ \/ Respond(q, "failed")
       \/ Respond(q, "image")
    /\ Unlock(q)
    /\ closing' = closing \cup closes
    /\ UNCHANGED owner

\* Mutant: the hook stays, so the deferred cancel closes the service.
FinishHooked(q) == FinishClosing(q, {owner[q]})

\* The deferred stop removes the hook; then validateCapturePNG, the response,
\* cancel and Unlock.
Finish(q) == FinishClosing(q, {})

Serve(q) ==
    \/ Refuse(q) \/ RunClosed(q) \/ Admit(q) \/ Conflict(q) \/ LockCapture(q)
    \/ TakeReturns(q) \/ TakeFails(q) \/ Check(q) \/ Finish(q)

-----------------------------------------------------------------------------
(* Contexts and the functions hooked to them *)

\* The runner disconnects, 12 s pass, or the server closes the connection.
Disconnect(q) ==
    /\ handler[q] \notin {"idle", "done"} /\ q \notin gone
    /\ gone' = gone \cup {q}
    /\ closing' = IF handler[q] \in Hooked THEN closing \cup {owner[q]}
                                           ELSE closing
    /\ UNCHANGED <<operationVars, expired, service, listening, captureMu,
                   requestVars, late>>

\* The client of the command disconnects, its deadline passes, or the daemon
\* is stopped.  The service is hooked to the context while it is open.
Expire ==
    /\ operation # "idle" /\ count \notin expired
    /\ expired' = expired \cup {count}
    /\ closing' = IF service[count] = "open" THEN closing \cup {count}
                                             ELSE closing
    /\ UNCHANGED <<operationVars, service, listening, captureMu, requestVars,
                   gone, late>>

\* closeService, in the goroutine of an AfterFunc.
ServiceCloses(n) ==
    /\ n \in closing
    /\ closing' = closing \ {n}
    /\ service' = [service EXCEPT ![n] = "closed"]
    /\ UNCHANGED <<operationVars, expired, listening, captureMu, requestVars,
                   gone, late>>

\* bridge.Close, in the goroutine of its AfterFunc.
BridgeCloses(n) ==
    /\ n \in listening \cap expired
    /\ listening' = listening \ {n}
    /\ UNCHANGED <<operationVars, expired, service, closing, captureMu,
                   requestVars, gone, late>>

\* Every operation was done and every request is idle or answered.
Finished ==
    /\ operation = "idle" /\ count = MaxOperations
    /\ closing = {} /\ \A q \in Requests : handler[q] \in {"idle", "done"}
    /\ UNCHANGED vars

Next ==
    \/ Begin("screenshot") \/ Begin("run-tests") \/ Operate
    \/ \E q \in Requests :
           Serve(q) \/ Disconnect(q) \/ \E n \in Operations : Arrive(q, n)
    \/ Expire
    \/ \E n \in Operations : ServiceCloses(n) \/ BridgeCloses(n)
    \/ Finished

Spec == Init /\ [][Next]_vars

-----------------------------------------------------------------------------
(* Properties *)

\* An inner service and its bridge live within the operation that opened
\* them: whoever takes operationMu next finds none of them on the session,
\* on every error path and with handlers of the old bridge still running.
ServiceWithinOperation ==
    \A n \in Operations :
        service[n] = "open" \/ n \in listening =>
            n = count /\ operation \notin {"idle", "opening", "verifying", "ending"}

\* The Instruments channel carries one call at a time: the handlers that are
\* inside the reader of an operation are the owner of its captureMu.
OneCapture ==
    \A q \in Requests :
        /\ handler[q] \in Hooked => captureMu[owner[q]] = q
        /\ \A n \in Operations :
               captureMu[n] = q => owner[q] = n /\ handler[q] \in Hooked

\* While a test run is on, its service is lost only to a capture request that
\* was cancelled, and never to one that was merely answered.
ServiceLostOnlyToCancel ==
    operation = "testing" /\ service[count] = "closed" =>
        count \in expired \/ \E q \in gone : owner[q] = count

\* A capture or a test run that is cancelled while it is in progress is never
\* reported as a success, whatever the device has delivered meanwhile.
CancelledNeverSucceeds ==
    /\ \A q \in lateRequests : answer[q] # "image"
    /\ \A n \in lateOperations : outcome[n] # "ok"

\* docs/remote-capture.md:62-66 and xctest.go:115: whatever evidence a run has
\* left when it comes to be verified, it is a success exactly if every selected
\* test passed once, nothing else finished, and every screenshot is a file of
\* its own, the required ones among them.  Two tests whose classes
\* differ in the module only are never taken for one.
EvidenceSound == operation = "verifying" => AllJudged

\* How far the owner of operationMu got.
OperationStage ==
    /\ operation # "idle" => count > 0
    /\ operation \in {"taking", "taken"} => kind = "screenshot"
    /\ listening # {} => operation \in {"testing", "unbinding"}
    /\ expired \subseteq 1..count

\* Which services were opened.
ServiceStage ==
    /\ operation \in {"binding", "testing", "unbinding", "taking", "taken",
                      "closing"} => service[count] # "none"
    /\ \A n \in Operations :
           /\ n > count \/ (n = count /\ operation = "opening") =>
                  service[n] = "none"
           /\ n \in listening \cup closing => service[n] # "none"
    /\ \A q \in Requests : handler[q] # "idle" =>
           owner[q] \in Operations /\ service[owner[q]] # "none"

\* Which outcomes are open: screenshot reports before its reader is closed.
OutcomeStage ==
    \A n \in Operations :
        \/ n > count
        \/ /\ n = count /\ operation \notin {"idle", "ending"}
           /\ operation = "closing" => kind = "run-tests"
        => outcome[n] = "none"

\* What closes a service before closeReader does.
ClosedByHook ==
    \A n \in Operations : n \in closing \/ service[n] = "closed" =>
        /\ n <= count
        /\ \/ n \in expired \/ \E q \in gone : owner[q] = n
           \/ n < count \/ operation \in {"idle", "verifying", "ending"}

\* Where the history variables are.
Late ==
    /\ \A q \in lateRequests : RequestDone(q) /\ handler[q] \in {"taken", "done"}
    /\ lateOperations \subseteq expired
    /\ \A q \in gone : handler[q] # "idle"
    /\ \A q \in Requests : answer[q] # "none" => handler[q] = "done"

\* The inductive invariant behind the properties above.
IInv == TypeOK /\ ServiceWithinOperation /\ OneCapture /\ OperationStage
        /\ ServiceStage /\ OutcomeStage /\ ClosedByHook /\ Late /\ CancelledNeverSucceeds

=============================================================================
