------------------------------- MODULE Delivery -------------------------------
(***************************************************************************)
(* An install or uninstall from the command line to the phone: a client    *)
(* (cmd/.../main.go, Call in control.go) and the connection handler of the *)
(* daemon (daemon.go) around the operations of DeviceOps.                  *)
(*                                                                         *)
(* The responses to a request are a stream in which the client may lag     *)
(* behind.  The client gives up at its own deadline, which the daemon does *)
(* not learn of.  A daemon that is stopped closes its listener at once,    *)
(* with the requests that it has not accepted, and its process exits when  *)
(* Serve returns, whatever its handlers are doing.                         *)
(***************************************************************************)
EXTENDS DeviceOps, Sequences

CONSTANTS
    Callers,         \* the requests whose command line reads the responses;
                     \* those of the others have left
    StreamLimit,     \* how many responses fit in the 1 MiB that Call reads
    MaxProgress      \* bound: how many progress responses a request causes

ASSUME CallersAssumption == Callers \subseteq Operations
ASSUME StreamAssumption == StreamLimit \in Nat /\ MaxProgress \in Nat

VARIABLES
    client,          \* of a request: what its command line has come to
    taken,           \* how many responses its client has read
    stream,          \* the responses on their way
    connection,      \* the daemon's end
    progress,        \* how many progress responses were sent
    stopping,        \* the daemon is stopped: its listener is closed
    exited           \* the process of the daemon is gone

clientVars == <<client, taken>>
streamVars == <<stream, connection, progress>>
processVars == <<stopping, exited>>
vars == <<opsVars, clientVars, streamVars, processVars>>

Interim == {"accepted", "progress"}
Verdicts == {"ok", "error"}

DeliveryTypeOK ==
    /\ client \in [Operations -> {"waiting", "lost", "left"} \cup Verdicts]
    /\ taken \in [Operations -> 0..StreamLimit]
    /\ stream \in [Operations -> Seq(Interim \cup Verdicts)]
    /\ connection \in [Operations -> {"none", "open", "final", "closed"}]
    /\ progress \in [Operations -> 0..MaxProgress]
    /\ stopping \in BOOLEAN /\ exited \in BOOLEAN

DeliveryInit ==
    /\ Init
    /\ client =
           [o \in Operations |-> IF o \in Callers THEN "waiting" ELSE "left"]
    /\ taken = [o \in Operations |-> 0]
    /\ stream = [o \in Operations |-> <<>>]
    /\ connection = [o \in Operations |-> "none"]
    /\ progress = [o \in Operations |-> 0]
    /\ stopping = FALSE /\ exited = FALSE

-----------------------------------------------------------------------------
(* Call *)

\* An interim response is passed on, and the next one awaited.
ReadOn(o) ==
    /\ client[o] = "waiting" /\ taken[o] < StreamLimit
    /\ stream[o] # <<>> /\ Head(stream[o]) \in Interim
    /\ stream' = [stream EXCEPT ![o] = Tail(@)]
    /\ taken' = [taken EXCEPT ![o] = @ + 1]
    /\ UNCHANGED <<opsVars, client, connection, progress, processVars>>

\* Call returns and closes the connection: nobody reads what is left, and no
\* later response gets anywhere.
Leave(o, result) ==
    /\ client[o] = "waiting" /\ client' = [client EXCEPT ![o] = result]
    /\ stream' = [stream EXCEPT ![o] = <<>>]
    /\ taken' = [taken EXCEPT ![o] = 0]
    /\ progress' = [progress EXCEPT ![o] = 0]
    /\ connection' =
           [connection EXCEPT ![o] = IF @ = "none" THEN @ ELSE "closed"]
    /\ UNCHANGED <<opsVars, processVars>>

\* A final response is the verdict.
Receive(o) ==
    /\ stream[o] # <<>> /\ taken[o] < StreamLimit
    /\ Head(stream[o]) \in Verdicts
    /\ Leave(o, Head(stream[o]))

\* "daemon response ended before a final result": the daemon has closed the
\* connection or is gone, or LimitReader is at its end.
Lose(o) ==
    /\ \/ stream[o] = <<>> /\ connection[o] = "closed"
       \/ taken[o] = StreamLimit
    /\ Leave(o, "lost")

\* InstallTimeout and 30 seconds have passed.  The error is the same: what
\* tells it from "lost" is the deadline of the client itself.
GiveUp(o) == Leave(o, "left")

Call(o) == ReadOn(o) \/ Receive(o) \/ Lose(o) \/ GiveUp(o)

-----------------------------------------------------------------------------
(* handleConnection *)

Waiting(o) == client[o] = "waiting"

\* Encode.  Its error, if the client has closed the connection, is ignored.
Encode(o, response, then) ==
    /\ stream' = IF Waiting(o) THEN [stream EXCEPT ![o] = Append(@, response)]
                 ELSE stream
    /\ connection' =
           [connection EXCEPT ![o] = IF Waiting(o) THEN then ELSE "closed"]

\* The request is read and accepted.
Accept(o) ==
    /\ connection[o] = "none"
    /\ Arrive(o)
    /\ Encode(o, "accepted", "open")
    /\ UNCHANGED <<clientVars, progress, processVars>>

\* It cannot be read, or is not valid.
Reject(o) ==
    /\ Waiting(o) /\ connection[o] = "none"
    /\ Encode(o, "error", "final")
    /\ UNCHANGED <<opsVars, clientVars, progress, processVars>>

RejectApp(o) == AppInvalid(o) /\ UNCHANGED <<clientVars, streamVars, processVars>>

\* The transfer goroutine calls back, also after it was abandoned.
Progress(o) ==
    /\ command[o] = "install" /\ transfer[o] = "running"
    /\ Waiting(o) /\ connection[o] \in {"open", "final"}
    /\ progress[o] < MaxProgress
    /\ progress' = [progress EXCEPT ![o] = @ + 1]
    /\ Encode(o, "progress", connection[o])
    /\ UNCHANGED <<opsVars, clientVars, processVars>>

AnswerWhen(o, ended, response) ==
    /\ connection[o] = "open" /\ ended
    /\ Encode(o, response, "final")
    /\ UNCHANGED <<opsVars, clientVars, progress, processVars>>

\* Mutant: the end of the transfer is the answer.
AnswerTransfer(o) == AnswerWhen(o, transfer[o] \in Verdicts, transfer[o])

Answer(o) == AnswerWhen(o, pc[o] = "done", outcome[o])

HangUpWhen(o, answered) ==
    /\ answered /\ connection' = [connection EXCEPT ![o] = "closed"]
    /\ UNCHANGED <<opsVars, clientVars, stream, progress, processVars>>

\* Mutant: an error returns before it is answered.
HangUpOnError(o) ==
    HangUpWhen(o, \/ connection[o] = "final"
                  \/ connection[o] = "open" /\ outcome[o] = "error")

\* The deferred Close.
HangUp(o) == HangUpWhen(o, connection[o] = "final")

Handle(o) == Accept(o) \/ Reject(o) \/ RejectApp(o) \/ Answer(o) \/ HangUp(o)

-----------------------------------------------------------------------------
(* The process of the daemon *)

\* The context of Serve ends, that of every call in progress with it, and the
\* goroutine that waits for it closes the listener.  Connections that were not
\* accepted are closed, too; those that were are served, and Serve goes on to
\* the clear of the location and to operationMu.
CloseListener ==
    /\ ~stopping /\ stopping' = TRUE
    /\ expired' = expired \cup {a \in Actors : pc[a] \in Busy}
    /\ \E dropped \in SUBSET {o \in Operations : connection[o] = "none"} :
           connection' =
               [o \in Operations |->
                   IF o \in dropped THEN "closed" ELSE connection[o]]
    /\ UNCHANGED <<command, pc, operationMu, tunnelVars, connections, transfer,
                   list, outcome, turnVars, phoneVars>>
    /\ UNCHANGED <<clientVars, stream, progress, exited>>

\* Serve returns, or it is killed: nothing of the daemon is left, its
\* connections to the phone included, whatever its handlers were doing.
DaemonExits ==
    /\ exited' = TRUE /\ stopping' = TRUE
    /\ pc' = [pc EXCEPT ![Opener] = "idle"]
    /\ operationMu' = Free /\ expired' = {} /\ connections' = {}
    /\ session' = FALSE /\ tunnel' = FALSE
    /\ transfer' = [o \in Operations |-> "none"]
    /\ list' = [a \in Actors |-> "none"]
    /\ connection' = [o \in Operations |-> "closed"]
    /\ UNCHANGED <<command, outcome, turnVars, phoneVars>>
    /\ UNCHANGED <<clientVars, stream, progress>>

RunOperation(o) == Run(o) /\ UNCHANGED <<clientVars, streamVars, processVars>>
\* establish begins nothing when the context has ended.
RunOpener ==
    /\ stopping => pc[Opener] # "idle"
    /\ OpenSession /\ UNCHANGED <<clientVars, streamVars, processVars>>

RunEnvironment == Environment /\ UNCHANGED <<clientVars, streamVars, processVars>>

DaemonRuns ==
    /\ ~exited
    /\ \/ RunOpener \/ RunEnvironment \/ CloseListener \/ DaemonExits
       \/ \E o \in Operations : RunOperation(o) \/ Handle(o) \/ Progress(o)

\* The phone goes on when the daemon is gone.
PhoneAlone ==
    /\ exited
    /\ \E o \in Operations : PhoneDecides(o)
    /\ UNCHANGED <<clientVars, streamVars, processVars>>

DeliveryNext ==
    \/ DaemonRuns \/ PhoneAlone
    \/ \E o \in Operations : Call(o)

DeliverySpec == DeliveryInit /\ [][DeliveryNext]_vars

\* Whoever owns operationMu goes on or meets its deadline, and the mutex is
\* not withheld for ever from one that waits for it.  Nothing is assumed of
\* the goroutines that talk to the phone, nor of the phone.
Alive(A) == ~exited /\ A /\ UNCHANGED <<clientVars, streamVars, processVars>>
Fairness ==
    /\ WF_vars(Alive(OpenSession \/ Expire(Opener)))
    /\ \A o \in Operations :
           /\ WF_vars(Alive(Run(o) \/ Expire(o)))
           /\ SF_vars(Alive(Lock(o)))

FairDelivery == DeliverySpec /\ Fairness

-----------------------------------------------------------------------------
(* Properties *)

\* control.go:152-157: what the command line reports is how the operation
\* ended on the phone, never a guess from a part of it, whatever progress of
\* an abandoned transfer comes in between, and never twice.
VerdictTrue ==
    \A o \in Operations : client[o] \in Verdicts =>
        \/ client[o] = outcome[o] /\ pc[o] = "done"
        \/ client[o] = "error" /\ pc[o] = "idle"

\* daemon.go:196-248: an accepted request comes to an end within its
\* deadlines, even if neither transfer nor list ever answers, the session is
\* lost meanwhile or its client is gone; only the end of the daemon stops it.
OperationEnds ==
    \A o \in Operations : pc[o] = "locking" ~> pc[o] = "done" \/ exited

\* The connection of o was closed with the listener, before it was accepted.
Dropped(o) == stopping /\ connection[o] = "closed" /\ pc[o] = "idle"

\* control.go:137: a client that finds the end of the responses without a
\* verdict before its own deadline has read the 1 MiB, or the daemon has exited,
\* or a stop closed the listener over its request, which then never runs.  While
\* the daemon goes on, every other end of a request is answered before its
\* connection is closed, and never after the client was left without it.
LostExplained ==
    [][\A o \in Operations :
           client'[o] = "lost" /\ client[o] # "lost" =>
               exited \/ taken[o] = StreamLimit \/ Dropped(o)]_vars

\* What is left of the invariant of DeviceOps when the daemon has exited.
AfterExit ==
    /\ TypeOK /\ SuccessStands
    /\ ~tunnel /\ ~session /\ connections = {} /\ pc[Opener] = "idle"
    /\ \A g \in pending :
           outcome[g] = "error" \/ (outcome[g] = "none" /\ Latest(g))

\* A verdict that the daemon has sent about o.
Told(o, verdict) ==
    \/ verdict = outcome[o] /\ pc[o] = "done"
    \/ verdict = "error" /\ pc[o] = "idle" /\ connection[o] # "none"

Truthful(o) ==
    /\ connection[o] = "none" => pc[o] = "idle"
    /\ \A i \in 1..Len(stream[o]) :
           stream[o][i] \in Verdicts => Told(o, stream[o][i])
    /\ client[o] \in Verdicts => Told(o, client[o])

Responses == \A o \in Operations : Truthful(o)

\* The verdict is on its way before the connection of an accepted request is
\* closed.
HasVerdict(responses) == \E i \in 1..Len(responses) : responses[i] \in Verdicts

Answered ==
    \A o \in Operations :
        /\ ~exited /\ client[o] = "waiting"
        /\ connection[o] \in {"final", "closed"}
        => HasVerdict(stream[o]) \/ Dropped(o)

\* The inductive invariant behind the properties above.
DeliveryInv ==
    /\ DeliveryTypeOK /\ Responses /\ Answered
    /\ IF exited THEN AfterExit ELSE IInv

=============================================================================
