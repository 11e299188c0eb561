------------------------------- MODULE Daemon -------------------------------
(***************************************************************************)
(* The iOS OTA daemon (internal/linkcore/daemon.go): the connection loop   *)
(* that acquires and loses the outer RemotePairing session, the handlers   *)
(* of control-socket connections that use it, and Serve, whose shutdown    *)
(* closes it.  They are goroutines of one process.                         *)
(*                                                                         *)
(* Grain.  A step is one section under d.mu (Snapshot, setState,           *)
(* currentSession, a locked update) or one call outside every lock.        *)
(* operationMu is the variable operationMu, which names its owner.         *)
(* Locking it and the first read after that are one step, and so are the   *)
(* last update under it and its (deferred) Unlock: a goroutine that takes  *)
(* a free mutex or releases its own commutes with the steps of the others. *)
(*                                                                         *)
(* The profile has no location section here (config.Location = nil), so    *)
(* location.lost and the clear of Serve find nothing to do.                *)
(***************************************************************************)
EXTENDS Integers, FiniteSets

CONSTANTS
    Connections,     \* the connections that clients open, one request on each
    Requests,        \* the commands they send
    MaxGenerations   \* bound: how many sessions openSession ever opens

Free == "free"
Loop == "loop"
Serve == "serve"

ASSUME ConnectionsAssumption ==
    IsFiniteSet(Connections) /\ Connections \cap {Free, Loop, Serve} = {}
ASSUME MaxGenerationsAssumption == MaxGenerations \in Nat

AppCommands == {"install", "uninstall"}         \* wait for operationMu
CaptureCommands == {"screenshot", "run-tests"}  \* TryLock operationMu
Commands == AppCommands \cup CaptureCommands \cup {"status", "stop"}

ASSUME RequestsAssumption == Requests \subseteq Commands

VARIABLES
    \* fields of Daemon, guarded by d.mu
    state, generation, sessionLosses, installCount, uninstallCount,
    lastErrorCode,
    session,         \* 0 is nil; the n-th session opened is n
    operationMu,     \* owner of operationMu, or Free
    cancelled,       \* ctx.Err() # nil for the context of Serve
    \* the sessions
    stopped,         \* those whose outer packet pump ended: Done is readable
    closed,          \* those on which Close was called
    \* goroutines: program counters and locals
    loop, loopSession, loopGeneration, loopError,
    serve,
    handler, command, using, result

status == <<state, lastErrorCode>>
appCounts == <<installCount, uninstallCount>>
acquired == <<generation, sessionLosses, session>>
daemonVars == <<status, appCounts, acquired>>
sessionVars == <<stopped, closed>>
loopLocals == <<loopSession, loopGeneration, loopError>>
loopVars == <<loop, loopLocals>>
handlerVars == <<handler, command, using, result>>
vars == <<daemonVars, operationMu, cancelled, sessionVars, loopVars, serve,
          handlerVars>>

Nil == 0

\* Watch and the clients call these states warm.
WarmStates == {"active", "recovering", "installing", "uninstalling"}
States == WarmStates \cup
    {"waiting_for_listener", "connecting", "session_lost", "stopping"}
NoError == "none"  \* the empty LastErrorCode
ErrorCodes == {NoError, "acquisition_failed", "session_lost", "service_unresponsive"}

Results == [event : {"none", "error", "session_not_active", "session_busy",
                     "status", "stopping", "installed", "uninstalled",
                     "screenshot", "tests_finished"},
            generation : Nat, count : Nat]
NoResult == [event |-> "none", generation |-> 0, count |-> 0]
ErrorResult(code) == [NoResult EXCEPT !.event = code]

LoopPCs == {"head", "test", "announce", "establish", "connecting", "opening",
            "after", "sleep", "pick", "select", "losing", "closing", "exited",
            "panicked"}
ServePCs == {"listening", "stopping", "locking", "clearing", "returned",
             "failed"}
HandlerPCs == {"idle", "received", "cancelling", "owner", "calling", "report",
               "done"}

DaemonTypes ==
    /\ state \in States /\ lastErrorCode \in ErrorCodes
    /\ generation \in Nat /\ sessionLosses \in Nat /\ session \in Nat
    /\ installCount \in Nat /\ uninstallCount \in Nat
    /\ operationMu \in Connections \cup {Free, Loop, Serve}
    /\ cancelled \in BOOLEAN
    /\ stopped \subseteq Nat /\ closed \subseteq Nat
GoroutineTypes ==
    /\ loop \in LoopPCs /\ loopSession \in Nat /\ loopGeneration \in Nat
    /\ loopError \in ErrorCodes
    /\ serve \in ServePCs
HandlerTypes ==
    /\ handler \in [Connections -> HandlerPCs]
    /\ command \in [Connections -> Commands]
    /\ using \in [Connections -> Nat]
    /\ result \in [Connections -> Results]

TypeOK == DaemonTypes /\ GoroutineTypes /\ HandlerTypes

\* NewDaemon, and Serve up to its accept loop.
Init ==
    /\ state = "waiting_for_listener" /\ lastErrorCode = NoError
    /\ generation = 0 /\ sessionLosses = 0
    /\ installCount = 0 /\ uninstallCount = 0
    /\ session = Nil
    /\ operationMu = Free
    /\ cancelled = FALSE
    /\ stopped = {} /\ closed = {}
    /\ loop = "head" /\ loopSession = Nil /\ loopGeneration = 0
    /\ loopError = NoError
    /\ serve = "listening"
    /\ handler = [c \in Connections |-> "idle"]
    /\ command = [c \in Connections |-> "status"]
    /\ using = [c \in Connections |-> Nil]
    /\ result = [c \in Connections |-> NoResult]

SetState(s, code) == state' = s /\ lastErrorCode' = code

-----------------------------------------------------------------------------
(* connectionLoop with establish and loseSession *)

\* A step of the loop.  No goroutine takes one once the loop has panicked.
LoopStep(from, to) ==
    /\ loop = from /\ loop' = to
    /\ UNCHANGED <<appCounts, cancelled, stopped, serve, handlerVars>>

\* for ctx.Err() == nil.  An iteration has its own locals.
LoopHead ==
    /\ LoopStep("head", IF cancelled THEN "exited" ELSE "test")
    /\ loopSession' = Nil /\ loopGeneration' = 0 /\ loopError' = NoError
    /\ UNCHANGED <<status, acquired, operationMu, closed>>

\* The first currentSession() of an iteration, and on nil the Snapshot whose
\* LastErrorCode the loop republishes with the waiting state.
LoopTest ==
    /\ LoopStep("test", IF session = Nil THEN "announce" ELSE "pick")
    /\ loopError' = IF session = Nil THEN lastErrorCode ELSE loopError
    /\ UNCHANGED <<status, acquired, operationMu, closed, loopSession,
                   loopGeneration>>

LoopAnnounce ==
    /\ LoopStep("announce", "establish")
    /\ SetState("waiting_for_listener", loopError)
    /\ UNCHANGED <<acquired, operationMu, closed, loopLocals>>

EstablishUnless(condition) ==
    /\ operationMu = Free
    /\ LoopStep("establish", IF condition THEN "after" ELSE "connecting")
    /\ operationMu' = IF condition THEN Free ELSE Loop
    /\ UNCHANGED <<status, acquired, closed, loopLocals>>

\* Mutant: establish does not test its context.
EstablishWhenCancelled == EstablishUnless(session # Nil)

EstablishLock == EstablishUnless(session # Nil \/ cancelled)

EstablishConnecting ==
    /\ LoopStep("connecting", "opening")
    /\ SetState("connecting", NoError)
    /\ UNCHANGED <<acquired, operationMu, closed, loopLocals>>

\* openSession succeeded.  The context is not looked at again, so this may
\* follow the cancellation.
EstablishActive ==
    /\ generation < MaxGenerations
    /\ LoopStep("opening", "after")
    /\ generation' = generation + 1
    /\ session' = generation + 1
    /\ SetState("active", NoError)
    /\ operationMu' = Free
    /\ UNCHANGED <<sessionLosses, closed, loopLocals>>

EstablishFails(s, code) ==
    /\ LoopStep("opening", "after")
    /\ SetState(s, code)
    /\ operationMu' = Free
    /\ UNCHANGED <<acquired, closed, loopLocals>>

\* Mutant: a failed acquisition leaves the state connecting behind.
FailWithoutState == EstablishFails(state, "acquisition_failed")

EstablishFailed == EstablishFails("waiting_for_listener", "acquisition_failed")

\* d.currentSession() == nil && !waitContext(ctx, RetryInterval)
LoopAfter ==
    /\ LoopStep("after", IF session = Nil THEN "sleep" ELSE "head")
    /\ UNCHANGED <<status, acquired, operationMu, closed, loopLocals>>

\* waitContext: when the timer and the context are both ready, either wins.
LoopSleep ==
    /\ \/ LoopStep("sleep", "head")
       \/ cancelled /\ LoopStep("sleep", "exited")
    /\ UNCHANGED <<status, acquired, operationMu, closed, loopLocals>>

\* The second currentSession() of the iteration and the Snapshot for the
\* generation.  Shutdown may have cleared the session since LoopTest.
LoopPick ==
    /\ LoopStep("pick", "select")
    /\ loopSession' = session /\ loopGeneration' = generation
    /\ UNCHANGED <<status, acquired, operationMu, closed, loopError>>

\* Evaluating session.Done() on a nil interface ends the process.
LoopPanic ==
    /\ loopSession = Nil
    /\ LoopStep("select", "panicked")
    /\ UNCHANGED <<status, acquired, operationMu, closed, loopLocals>>

\* The receive on Done is followed by another test of the context.
LoopSelect ==
    /\ loopSession # Nil
    /\ \/ cancelled /\ LoopStep("select", "exited")
       \/ loopSession \in stopped /\ ~cancelled /\ LoopStep("select", "losing")
    /\ UNCHANGED <<status, acquired, operationMu, closed, loopLocals>>

Lose(locked, left) ==
    /\ locked => operationMu = Free
    /\ IF session = Nil \/ generation # loopGeneration
       THEN /\ LoopStep("losing", "head")
            /\ UNCHANGED <<status, acquired, operationMu, loopSession>>
       ELSE /\ LoopStep("losing", "closing")
            /\ operationMu' = IF locked THEN Loop ELSE operationMu
            /\ loopSession' = session
            /\ session' = left
            /\ SetState("session_lost", "session_lost")
            /\ sessionLosses' = sessionLosses + 1
            /\ UNCHANGED generation
    /\ UNCHANGED <<closed, loopGeneration, loopError>>

\* Mutant: the loop does not wait for the operation in progress.
LoseUnlocked == Lose(FALSE, Nil)

\* Mutant: a lost session stays published.
LoseKeepsSession == Lose(TRUE, session)

\* Mutant: the loop does not wait for operationMu, it only tries it.
LoseIfUncontended ==
    \/ Lose(TRUE, Nil)
    \/ /\ operationMu # Free
       /\ LoopStep("losing", "head")
       /\ UNCHANGED <<status, acquired, operationMu, closed, loopLocals>>

\* loseSession under operationMu: nothing to do unless the session of
\* loopGeneration is still the current one.
LoseSession == Lose(TRUE, Nil)

CloseLost(sessions) ==
    /\ LoopStep("closing", "head")
    /\ closed' = closed \cup sessions
    /\ operationMu' = Free
    /\ UNCHANGED <<status, acquired, loopLocals>>

\* Mutant: the lost session is dropped without Close.
DropLostSession == CloseLost({})

CloseLostSession == CloseLost({loopSession})

ConnectionLoop ==
    \/ LoopHead \/ LoopTest \/ LoopAnnounce
    \/ EstablishLock \/ EstablishConnecting
    \/ EstablishActive \/ EstablishFailed
    \/ LoopAfter \/ LoopSleep
    \/ LoopPick \/ LoopPanic \/ LoopSelect
    \/ LoseSession \/ CloseLostSession

-----------------------------------------------------------------------------
(* handleConnection: one goroutine per connection, one request on each *)

HandlerStep(c, from, to) ==
    /\ loop # "panicked"
    /\ handler[c] = from /\ handler' = [handler EXCEPT ![c] = to]
    /\ UNCHANGED <<acquired, sessionVars, loopVars, serve>>

\* The final response of c.
Answer(c, r) == result' = [result EXCEPT ![c] = r]

\* Serve accepts a connection; the listener may outlive the cancellation.
\* Reading and validating the request touch nothing shared, so they are part
\* of this step: readRequest, validateCommand, validateApp, validateTestRun
\* and the write of tests_started succeed here and one of them fails in Reject.
Accept(c, cmd) ==
    /\ serve = "listening"
    /\ HandlerStep(c, "idle", "received")
    /\ command' = [command EXCEPT ![c] = cmd]
    /\ UNCHANGED <<status, appCounts, operationMu, cancelled, using, result>>

Reject(c) ==
    /\ serve = "listening"
    /\ HandlerStep(c, "idle", "done")
    /\ Answer(c, ErrorResult("error"))
    /\ UNCHANGED <<status, appCounts, operationMu, cancelled, command, using>>

Status(c) ==
    /\ command[c] = "status"
    /\ HandlerStep(c, "received", "done")
    /\ Answer(c, [event |-> "status", generation |-> generation,
                  count |-> installCount])
    /\ UNCHANGED <<status, appCounts, operationMu, cancelled, command, using>>

\* The stop command answers first and cancels afterwards.
StopAnswer(c) ==
    /\ command[c] = "stop"
    /\ HandlerStep(c, "received", "cancelling")
    /\ Answer(c, ErrorResult("stopping"))
    /\ UNCHANGED <<status, appCounts, operationMu, cancelled, command, using>>

StopCancel(c) ==
    /\ HandlerStep(c, "cancelling", "done")
    /\ cancelled' = TRUE
    /\ UNCHANGED <<status, appCounts, operationMu, command, using, result>>

\* A goroutine is blocked in operationMu.Lock.
Waiting(c) == handler[c] = "received" /\ command[c] \in AppCommands
MutexWanted == \/ loop \in {"establish", "losing"} \/ serve = "locking"
               \/ \E c \in Connections : Waiting(c)

Own(c, enabled) ==
    /\ command[c] \in AppCommands \cup CaptureCommands
    /\ enabled
    /\ HandlerStep(c, "received", "owner")
    /\ operationMu' = c
    /\ using' = [using EXCEPT ![c] = session]
    /\ UNCHANGED <<status, appCounts, cancelled, command, result>>

\* Mutant: screenshot and run-tests do not take operationMu.
OwnUnlocked(c) == Own(c, operationMu = Free \/ command[c] \in CaptureCommands)

\* Lock or a successful TryLock, and the currentSession() under it.
OwnSession(c) == Own(c, operationMu = Free)

\* TryLock also fails while the mutex is being handed over to a waiter.
Busy(c) ==
    /\ command[c] \in CaptureCommands
    /\ operationMu # Free \/ MutexWanted
    /\ HandlerStep(c, "received", "done")
    /\ Answer(c, ErrorResult("session_busy"))
    /\ UNCHANGED <<status, appCounts, operationMu, cancelled, command, using>>

Refuse(c, owner) ==
    /\ using[c] = Nil
    /\ HandlerStep(c, "owner", "done")
    /\ operationMu' = owner
    /\ Answer(c, ErrorResult("session_not_active"))
    /\ UNCHANGED <<status, appCounts, cancelled, command, using>>

\* Mutant: the early return keeps operationMu.
NoSessionLocked(c) == Refuse(c, c)

NoSession(c) == Refuse(c, Free)

\* The call on the session starts.  run-tests records the generation now.
Begin(c) ==
    /\ using[c] # Nil
    /\ HandlerStep(c, "owner", "calling")
    /\ CASE command[c] = "install" -> SetState("installing", NoError)
         [] command[c] = "uninstall" -> SetState("uninstalling", NoError)
         [] OTHER -> UNCHANGED status
    /\ IF command[c] = "run-tests"
       THEN Answer(c, [NoResult EXCEPT !.generation = generation])
       ELSE UNCHANGED result
    /\ UNCHANGED <<appCounts, operationMu, cancelled, command, using>>

Serviced(c, s, code) ==
    /\ command[c] \in AppCommands
    /\ SetState(s, code)
    /\ UNCHANGED <<cancelled, command, using>>

\* Mutant: a success is counted for the other command.
AppSucceedsMiscounted(c) ==
    /\ HandlerStep(c, "calling", "report")
    /\ Serviced(c, "active", NoError)
    /\ operationMu' = Free
    /\ installCount' = installCount + 1
    /\ UNCHANGED <<uninstallCount, result>>

\* session.Install or session.Uninstall returned nil.
AppSucceeds(c) ==
    /\ HandlerStep(c, "calling", "report")
    /\ Serviced(c, "active", NoError)
    /\ operationMu' = Free
    /\ IF command[c] = "install"
       THEN installCount' = installCount + 1 /\ UNCHANGED uninstallCount
       ELSE uninstallCount' = uninstallCount + 1 /\ UNCHANGED installCount
    /\ UNCHANGED result

Recover(c, owner) ==
    /\ HandlerStep(c, "calling", "done")
    /\ Serviced(c, "recovering", "service_unresponsive")
    /\ operationMu' = owner
    /\ Answer(c, ErrorResult("error"))
    /\ UNCHANGED appCounts

\* Mutant: the error path keeps operationMu.
AppFailsLocked(c) == Recover(c, c)

\* The call failed or timed out: the session is retained.
AppFails(c) == Recover(c, Free)

\* The final response is a Snapshot taken after operationMu was released.
AppReport(c) ==
    /\ HandlerStep(c, "report", "done")
    /\ Answer(c, IF command[c] = "install"
                 THEN [event |-> "installed", generation |-> generation,
                       count |-> installCount]
                 ELSE [event |-> "uninstalled", generation |-> generation,
                       count |-> uninstallCount])
    /\ UNCHANGED <<status, appCounts, operationMu, cancelled, command, using>>

\* screenshot and run-tests build their response under operationMu and touch
\* neither the state nor the session; a failed run is still tests_finished.
CaptureEnds(c) ==
    /\ command[c] \in CaptureCommands
    /\ HandlerStep(c, "calling", "done")
    /\ operationMu' = Free
    /\ \/ Answer(c, ErrorResult("error"))
       \/ /\ command[c] = "screenshot"
          /\ Answer(c, [NoResult EXCEPT !.event = "screenshot",
                                        !.generation = generation])
       \/ /\ command[c] = "run-tests"
          /\ Answer(c, [result[c] EXCEPT !.event = "tests_finished"])
    /\ UNCHANGED <<status, appCounts, cancelled, command, using>>

Handle(c) ==
    \/ Status(c) \/ StopAnswer(c) \/ StopCancel(c)
    \/ OwnSession(c) \/ Busy(c) \/ NoSession(c) \/ Begin(c)
    \/ AppSucceeds(c) \/ AppFails(c) \/ AppReport(c) \/ CaptureEnds(c)

-----------------------------------------------------------------------------
(* Serve after its accept loop, the signals, and the environment *)

ServeStep(from, to) ==
    /\ loop # "panicked"
    /\ serve = from /\ serve' = to
    /\ UNCHANGED <<generation, sessionLosses, appCounts, stopped, loopVars,
                   handlerVars>>

\* The context goroutine closed the listener, so Accept fails.
StopListening ==
    /\ cancelled
    /\ ServeStep("listening", "stopping")
    /\ UNCHANGED <<status, operationMu, cancelled, session, closed>>

\* Accept failed for another reason: Serve returns its error at once, and the
\* deferred calls cancel the context.
AcceptFails ==
    /\ ServeStep("listening", "failed")
    /\ cancelled' = TRUE
    /\ UNCHANGED <<status, operationMu, session, closed>>

AnnounceStopping ==
    /\ ServeStep("stopping", "locking")
    /\ SetState("stopping", NoError)
    /\ UNCHANGED <<operationMu, cancelled, session, closed>>

ShutdownWhen(enabled) ==
    /\ enabled
    /\ IF session = Nil
       THEN ServeStep("locking", "returned") /\ UNCHANGED <<operationMu, closed>>
       ELSE /\ ServeStep("locking", "clearing")
            /\ operationMu' = Serve
            /\ closed' = closed \cup {session}
    /\ UNCHANGED <<status, cancelled, session>>

\* Mutant: shutdown does not wait for the operation in progress.
ShutdownUnlocked == ShutdownWhen(TRUE)

ShutdownClose == ShutdownWhen(operationMu = Free)

ShutdownClear ==
    /\ ServeStep("clearing", "returned")
    /\ session' = Nil
    /\ operationMu' = Free
    /\ UNCHANGED <<status, cancelled, closed>>

Shutdown ==
    StopListening \/ AnnounceStopping \/ ShutdownClose \/ ShutdownClear

\* SIGINT or SIGTERM
Signal ==
    /\ loop # "panicked"
    /\ ~cancelled /\ cancelled' = TRUE
    /\ UNCHANGED <<daemonVars, operationMu, sessionVars, loopVars, serve,
                   handlerVars>>

\* The packet pump of an open session ends, because the link was lost or
\* because the session was closed.
PumpStops(s) ==
    /\ loop # "panicked"
    /\ s \in 1..generation \ stopped
    /\ stopped' = stopped \cup {s}
    /\ UNCHANGED <<daemonVars, operationMu, cancelled, closed, loopVars, serve,
                   handlerVars>>

\* Nothing is left to run, or the process is gone.
Terminated ==
    /\ \/ loop = "panicked"
       \/ /\ loop = "exited" /\ serve \in {"returned", "failed"}
          /\ \A c \in Connections : handler[c] \in {"idle", "done"}
    /\ UNCHANGED vars

Next ==
    \/ ConnectionLoop
    \/ \E c \in Connections : Handle(c)
    \/ \E c \in Connections : Reject(c) \/ \E cmd \in Requests : Accept(c, cmd)
    \/ Shutdown \/ AcceptFails \/ Signal
    \/ \E s \in 1..MaxGenerations : PumpStops(s)
    \/ Terminated

\* sync.Mutex hands over to the longest waiter, so a goroutine that waits for
\* operationMu gets it if it is released again and again: strong fairness.
\* Calls on a session return: their contexts end them, and the connections
\* that Link Core opens without a context are assumed to fail eventually.
Fairness ==
    /\ SF_vars(ConnectionLoop)
    /\ \A c \in Connections : SF_vars(Handle(c))
    /\ SF_vars(Shutdown)

Spec == Init /\ [][Next]_vars
FairSpec == Spec /\ Fairness

-----------------------------------------------------------------------------
(* Properties *)

\* A connection runs a call on the session only as the owner of operationMu,
\* on the session that is published, and nobody has closed it: neither the
\* loop (loseSession) nor Serve may close a session under an operation.
OperationOnOpenSession ==
    \A c \in Connections : handler[c] = "calling" =>
        /\ operationMu = c
        /\ using[c] = session /\ session # Nil
        /\ session \notin closed

\* Every session openSession ever returned is published, on its way to Close
\* in loseSession, or closed: the phone is left with no orphaned tunnel.
NoSessionLeak ==
    \A s \in 1..generation :
        \/ s = session
        \/ loop = "closing" /\ s = loopSession
        \/ s \in closed

\* The counters that status, watch and the install responses report account
\* for each session: it is current, was lost, or Serve released it.
LossAccounting ==
    LET live == IF session = Nil THEN 0 ELSE 1
    IN /\ sessionLosses + live <= generation
       /\ serve # "returned" => generation = sessionLosses + live

\* operationMu is owned by whoever is inside one of its critical sections.
MutexOwner ==
    /\ operationMu = Loop <=> loop \in {"connecting", "opening", "closing"}
    /\ operationMu = Serve <=> serve = "clearing"
    /\ \A c \in Connections :
           operationMu = c <=> handler[c] \in {"owner", "calling"}

\* Which sessions the fields and locals can denote: the loop gives up exactly
\* the session of the generation it noted, which is still the newest one.
SessionIds ==
    /\ session \in {Nil, generation}
    /\ stopped \subseteq 1..generation /\ closed \subseteq 1..generation
    /\ loop \in {"select", "losing"} /\ loopSession # Nil =>
           loopSession = loopGeneration
    /\ loop = "losing" => loopSession \in stopped
    /\ loop = "closing" => loopSession = generation /\ loopSession # Nil

\* When a session is published and when it is closed.
Publication ==
    /\ loop \in {"announce", "establish", "connecting", "opening", "closing"}
           => session = Nil
    /\ serve = "clearing" <=> session \in closed
    /\ serve # "listening" => cancelled
    /\ serve = "returned" =>
           /\ session = Nil
           /\ loop \notin {"connecting", "opening", "closing"}
    /\ loop = "pick" /\ session = Nil => serve = "returned"
    /\ loop \in {"select", "panicked"} /\ loopSession = Nil => serve = "returned"
    /\ loop = "panicked" => loopSession = Nil
    /\ \A c \in Connections :
           /\ handler[c] \in {"owner", "calling"} => using[c] = session
           /\ handler[c] = "calling" => session # Nil

\* What a connection has recorded before its final response, and what it has
\* still to report.
Recorded ==
    \A c \in Connections :
        /\ result[c].event # "none" => handler[c] \in {"cancelling", "done"}
        /\ handler[c] = "calling" /\ command[c] = "run-tests" =>
               result[c].generation = generation
        /\ handler[c] = "report" =>
               command[c] \in AppCommands /\ using[c] \in 1..generation

\* Until the daemon is told to stop, status reports a warm state exactly while
\* a session is published, and a busy state exactly while its owner is busy.
StateMatchesSession ==
    ~cancelled =>
        /\ state \in WarmStates <=> session # Nil
        /\ state \in {"installing", "uninstalling"} <=>
               \E c \in Connections :
                   handler[c] = "calling" /\ command[c] \in AppCommands
        /\ state = "connecting" <=> loop = "opening"
        /\ state # "stopping"

\* A capture reports the generation of the very session it ran on.
CaptureNamesItsSession ==
    \A c \in Connections :
        result[c].event \in {"screenshot", "tests_finished"} =>
            /\ result[c].generation = using[c]
            /\ using[c] # Nil

Completed(cmd, event) ==
    {c \in Connections : \/ result[c].event = event
                         \/ handler[c] = "report" /\ command[c] = cmd}

\* Each confirmed install or uninstall is counted once, under its own command,
\* and its response shows at least its own count and no older generation than
\* the one of the session it used.
AppAccounting ==
    /\ installCount = Cardinality(Completed("install", "installed"))
    /\ uninstallCount = Cardinality(Completed("uninstall", "uninstalled"))
    /\ \A c \in Connections :
           result[c].event \in {"installed", "uninstalled"} =>
               /\ result[c].count \in 1..Cardinality(Connections)
               /\ using[c] \in 1..result[c].generation

\* Serve leaves nothing behind on a normal return.
ReturnedClean ==
    serve = "returned" => /\ session = Nil /\ operationMu # Serve
                          /\ closed = 1..generation

\* The nil session of LoopPanic can only be met once Serve has released the
\* session and is returning: no client is cut off earlier, no tunnel is left.
PanicOnlyWhenStopping == loop = "panicked" => serve = "returned"

\* The inductive invariant behind the properties above.
IInv == /\ TypeOK /\ MutexOwner /\ SessionIds /\ Publication /\ Recorded
        /\ NoSessionLeak /\ LossAccounting /\ StateMatchesSession
        /\ CaptureNamesItsSession

\* architecture.md: only termination of the outer packet-dispatch loop (or
\* shutdown) releases the session; one is never swapped for another directly.
OnlyPumpLossReleases ==
    [][session # Nil /\ session' # session =>
           /\ session' = Nil
           /\ session \in stopped \/ serve = "clearing"]_vars

\* daemon_test.go stops a daemon and expects Serve to return without an error.
NoPanic == loop # "panicked"

\* A stop request or signal makes Serve return, even with an operation, an
\* acquisition or a loss in progress.
ShutdownCompletes == cancelled ~> serve \in {"returned", "failed"}

\* A session whose pump ended is given up and closed, although new clients may
\* keep operationMu busy for ever, unless the daemon is stopping: again and
\* again there is no dead session left open.
LostSessionReleased == []<>(stopped \subseteq closed \/ cancelled)

\* Every request gets its final response, unless the process ends first.
RequestsAnswered ==
    \A c \in Connections :
        handler[c] = "received" ~> \/ handler[c] = "done"
                                   \/ serve \in {"returned", "failed"}

\* The daemon implements the life of its outer session that SessionLifecycle
\* promises: one session at a time, never released under an operation.
Lifecycle == INSTANCE SessionLifecycle WITH
    live <- session # Nil,
    held <- \E c \in Connections : handler[c] = "calling",
    losses <- sessionLosses,
    completed <- installCount + uninstallCount,
    ended <- serve = "returned"
ImplementsLifecycle == Lifecycle!Spec

=============================================================================
