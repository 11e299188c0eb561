# A verification of Lyo Nodus iOS OTA

iOS OTA keeps one authenticated RemotePairing tunnel (the *outer session*) to
an iPhone open and installs apps, takes screenshots, runs UI tests and
simulates locations through it. These TLA+ modules model the Go code that does
it, `src/internal/linkcore` and `src/cmd/lyo-nodus-ios-ota`. TLC checks them on
small instances; TLAPS proves their safety properties for all values of the
constants. `PROJECT.json` maps each definition to the lines it models.

To check a module: `tlc -config Daemon.cfg MCDaemon.tla`; to check a proof:
`tlapm DaemonProofs.tla`.

## 1. The system

One daemon per profile. Everything else is a short-lived client of it.

| Component | State | Operations | Interacts through |
|---|---|---|---|
| connection loop (`daemon.go`) | `session`, `generation`, `sessionLosses`, `state`, `lastErrorCode` under `d.mu` | `establish`, `loseSession`, wait, retry | `operationMu`, `session.Done()`, the context of `Serve` |
| request handlers (`daemon.go`, `screenshot.go`, `xctest.go`) | `installCount`, `uninstallCount`; the owner of `operationMu` | install, uninstall, screenshot, run-tests, status, stop | `operationMu` (install and uninstall wait, captures `TryLock`), `cancel` |
| `Serve` | listener, context | accept, stop, clear the location, close the session | context, `operationMu`, the location lock |
| control socket (`control.go`) | one file per profile | `prepareUnixListener`, close, remove | the file system, other daemons |
| control client (`control.go`) | none | `Call` | NDJSON on the socket, a binary screenshot body |
| watch (`watch.go`) | last signature, loss baseline, `warmObserved` | poll, emit, exit on `cold` | status calls |
| location session (`location.go`) | driver, phase, target under `s.mu` | `set`, `clear`, `pulse`, `lost`, `snapshot` | the outer session, the phone |
| location HTTPS (`location_http.go`) | none of its own | GET, PUT, DELETE | `locationSession`, `owner.Err()` |
| capture (`screenshot.go`, `capture_bridge.go`, `xctest.go`) | a screenshot service and a bridge per operation, `captureMu` | screenshot, run-tests with a bridge, HTTP captures | contexts and `AfterFunc`, `operationMu` |
| profile files (`config.go`, `location_http.go`, `main.go`) | profile, credentials, connection document | `configure`, `configure-location`, start of a daemon | the file system |
| device operations (`session.go`) | a tunnel and short connections on it | `OpenSession`, `Install`, `Uninstall` | Link Core, goroutines that a deadline abandons |
| command line (`main.go`) | none | `call` with a deadline of its own, `serve` | `Call`, the exit of the process |
| test evidence (`xctest.go`) | none | `validateTestRun`, `verifyTestEvidence` | the report of the runner, the files of the run |
| launch agent (`launchagent.go`) | the property list, the job | `launch-agent install`, `remove` | the profile, `launchctl`, logins |
| doctor, app validation, build scripts | files | sequential programs | `tailscale`, `codesign` |

What is hard here is concurrency and partial failure. The loop, the handlers
and shutdown are goroutines that share one session under two locks
(`d.mu` for fields, `operationMu` for the use of the session). Deadlines abandon calls
whose effect on the phone stays unknown. Shutdown overlaps acquisitions,
operations and the next start of the daemon. Contexts run `AfterFunc`
callbacks while handlers are still busy. Files are written one by one by
processes that can fail in between. `hazards` in `PROJECT.json` lists these at
their lines with the properties that watch them.

What makes each part correct:

- *outer session*: one at a time, a new generation each, never closed or
  swapped under an operation, never leaked; counters and state as reported
  agree with it; a dead one is given up, and a stop ends in a clean return.
- *location*: a target that the phone may be simulating is never forgotten,
  never silently reapplied, and cleared before the session is closed.
- *control socket*: one daemon serves a profile and can be reached; a crash
  does not keep the next one from serving.
- *watch*: in one run of the daemon the loss of a session that was observed as
  warm is always reported as `cold`; `cold` is only said after a loss, of a
  session that was seen warm if an earlier answer had shown one.
- *capture*: services stay within their operation, captures exclude each
  other, what was cancelled is not reported as done.
- *profile*: what the profile names exists and is complete.
- *device operations*: nothing on the phone is left open by a call that
  returned, a deadline ends every operation, and a success stays true until a
  later request, or one known to have failed, changes it.
- *delivery*: what the command line reports is what happened on the phone.
- *test evidence*: a run is a success exactly if its evidence is genuine.
- *launch agent*: a command that reports success has had its effect.

## 2. The modules

`SessionLifecycle` is what `docs/architecture.md` promises about the outer
session, and `SimulatedLocation` what it promises about the location; `Daemon`
and `Location` implement them. The other modules each take one component and
reduce the rest of the daemon to what that component reads. `Delivery` composes
client, handler and process of the daemon with `DeviceOps`; `LaunchAgent`
composes its commands with those of `Profile`. Modules named `MC*`
add instances and symmetry for TLC, and `*Proofs` hold theorems. Definitions commented
*Mutant* are deliberate faults, used by no specification; `PROJECT.json` pairs
each property with one that breaks it.

### Daemon (`daemon.go`)

A step is one section under `d.mu` or one call outside every lock. `loop`,
`serve` and `handler[c]` are the program counters of the connection loop, of
`Serve` and of one goroutine per connection; `loopSession` and
`loopGeneration` are the locals the loop keeps across a wait, `using[c]` the
session a handler has read, `result[c]` its final response. `operationMu` names
its owner. A session is a number (the generation it got), 0 is nil. `stopped`
and `closed` are the sessions whose pump ended and on which `Close` was called.

Three details decide what can happen and are kept as the code has them. The
loop reads the session twice (`LoopTest`, `LoopPick`). `establish` tests the
context only before it opens a session, so one may be published after a stop.
`TryLock` may fail on a free mutex that is being handed to a waiter (`Busy`).

The profile of this module has no location section. The lock order between
`operationMu` and the location lock is the subject of `Location`.

Here a connection carries one request. In `DaemonLoad` the accept loop goes on:
the next client takes a connection as soon as the last one was answered
(`NextClient`), so that `operationMu` can be wanted by others for ever. The
liveness properties are checked under this load.

### Location (`location.go`, `location_http.go`, `Serve`)

`mu` names the owner of the location lock; each writer (an HTTP request), the
pulse and `Serve` has a `pc` and the effect it wants. The phone is explicit:
`phone` is the location it reports, `late` what an abandoned call may still
make it do. `NotConfirmed` covers an error and a deadline: the phone may have
obeyed before (`Obey`), may obey later (`LateEffect`), or never. A late effect
is dropped once a new connection is open, which assumes that the handshake of
the next connection is ordered after what the old one had sent.
`PhoneResets` lets the phone stop simulating when its connection ends.

`NewLocationSimulationService` takes no context. At its deadline `OpenLocation`
returns without it (`OpenError`), and the goroutine that dials goes on
(`dials`). It ends without a connection (`DialEnds`), or with one that nobody
uses and that is closed next (`strays`, `StrayCloses`), beside whatever driver
there is by then. `open` counts all connections, and `MaxDials` bounds the
dials that are abandoned at a time. It is assumed that a stray connection, on
which no command is sent, does not disturb the location that the driver
simulates.

Validation, authorization and GET change nothing and are left out.

The loop and the outer session are reduced to publication, loss and
withdrawal. `loop = "losing"` is the time in which `loseSession`, under
`operationMu`, waits for the location lock.

`SimulatedLocation` knows neither lock nor requests nor goroutines. It has the
target, whether the daemon calls it active, one connection, and the phone, and
says what may follow what: a request is made before the phone obeys it, the
phone obeys before it acknowledges, a failure gives up the connection but not
the target, and the daemon ends without a clear only if there is no target.

### Watch (`watch.go`)

A poll is two steps, because the daemon goes on while an answer travels. The
daemon is reduced to its snapshots; it may end at any time, in an orderly way
or not, and is then started again with fresh counters. `firstRun`, `seen` and
`lost` are history variables that only properties read. The app counters in
the signature of an event are left out, so `Operate` is only seen through the
state it leaves.

### ControlSocket (`control.go`, end of `Serve`)

Each process is a program counter through `prepareUnixListener`, `Serve` and
its deferred calls, one system call per step; `bind` and `listen` are separate,
because a socket that is bound but does not listen looks stale. `path` names
the process whose socket the file is. `overlaps` records whether a daemon was
started or stopped while another one was starting or stopping: the code has no
lock against that, and the properties say what it guarantees without such
overlaps and what it guarantees with them.

### Capture (`screenshot.go`, `capture_bridge.go`, `xctest.go`)

The owner of `operationMu` goes through the stages of a screenshot or of a test
run with a bridge. HTTP requests on the bridge are goroutines of their own that
may outlive the run. `closing` holds the services with an `AfterFunc` that was
started and has not closed its service yet. `expired` and `gone` are the
contexts that are done. The history variables `lateOperations` and
`lateRequests` name those whose context was done when the device had answered.

### Profile (`config.go`, `location_http.go`, `main.go`)

A file is the process that created it and whether its contents are complete. A
step is one system call; a process may be killed between any two, and writes,
creations and renames may fail. `os.Remove` is taken to succeed. A daemon loads the profile and, later, the
credentials it names.

### LaunchAgent (`launchagent.go`, `main.go`), over Profile

`at[a]` is the step of a `launch-agent` command: load the profile, write a
temporary property list, rename it, `bootout`, `bootstrap`; or `bootout`,
unlink. `plist` and `job` name the command whose list is in place and the one
the job was started from. The code ignores the result of `bootout`; whether it
ended the job is up to launchd, and `kept` remembers that it did
not. `Login` starts whatever property list there is and ends the commands
in progress. `last` and `overlapped` are history: the code has no lock between
two of these commands.

### DeviceOps (`session.go`, `establish`, `install` and `uninstall`)

`pc[a]` is where the connection loop (`Opener`) or an app request is while it
owns `operationMu`; `connections` are the short connections on the tunnel. The
transfer to the phone and each reading of the app list are goroutines of their
own with a result in `transfer[o]` and `list[a]`; a deadline (`Expire`) lets
the caller close the connection and go on without them. The phone is
explicit: `pending` are the requests it may yet carry out, in any order and at
any time, `installed` what it has come to, `writer` whose request that was. It
is assumed that a transfer reported complete is no longer pending, and nothing
more: an error of a transfer says nothing about the phone. All requests are
about one bundle; other bundles do not interact.

`Daemon` abstracts an operation to one call. Here the call is taken apart, and
the rest of the daemon reduced to the mutex and the published session.

### Delivery (`Call`, `handleConnection`, `serve`), over DeviceOps

`stream[o]` are the responses on their way and `connection[o]` the handler's
end. A client reads one response after the other until it has a verdict, its
deadline passes (`GiveUp`), or it finds no further response (`Lose`): the
connection was closed, or the limit of 1 MiB that holds for all responses
together is used up, which the code reports alike. Progress comes
from the goroutine of the transfer, so it may follow the final response of an
operation that was abandoned.

The daemon ends in two steps. At a stop the context ends, and the listener is
closed with it (`CloseListener`): the calls in progress meet their deadline,
nothing new is opened, and requests that were not accepted lose their
connection, while the others are still served and `Serve` clears the location
and waits for `operationMu`. `DaemonExits` stands for its return, which waits
for no handler, and for a crash: the tunnel and all connections are gone, the
phone and the client remain. A request whose client is not in
`Callers` has lost its client from the start. That a full socket buffer blocks
a handler is not modelled; it can delay the final response only, because
`operationMu` is released before that.

### TestEvidence (`xctest.go`)

`Verdict` is `verifyTestEvidence`: a loop over the test cases (`FinishAll`) and
in it one over the attachments of a case (`AttachAll`). `Genuine` defines without a loop what the documentation asks of a run.
`EvidenceSound` compares the two over all requests, reports and sets of
pictures (small ones in the run), at the point where `Capture` has a choice. A path is
told apart by whether a bounded PNG is there; the rename that follows removes
it, and its new name is not a path of another attachment.

## 3. What the runs check

| Run | Instance | Shows |
|---|---|---|
| `daemon` | 2 connections, all commands, 2 generations | `OperationOnOpenSession`, `NoSessionLeak`, `LossAccounting`, `StateMatchesSession`, `CaptureNamesItsSession`, `AppAccounting`, `ReturnedClean`, `ImplementsLifecycle` |
| `daemon_live` | `DaemonLoad`: 2 connections on which clients never stop coming, install, 2 generations | `ShutdownCompletes`, `LostSessionReleased`, `RequestsAnswered` |
| `daemon_panic` | as `daemon`, install and stop | `NoPanic` does not hold |
| `location` | 2 writers, 2 targets, 2 sessions, 1 abandoned dial | `UncertainTargetRetained`, `DriverFollowsSession`, `ActiveIsApplied`, `ClearedBeforeClose`, `NoSilentReapply`, `ImplementsSimulation` |
| `location_live` | 1 writer, 1 target, 2 sessions, 1 abandoned dial | `RequestsFinish`, `LossVisible`, `ShutdownReturns` |
| `watch` | 2 sessions per run of the daemon, 1 restart | `ColdMeansLoss`, `WarmLossReported` |
| `watch_restart` | the same | `WarmLossReportedInEveryRun` does not hold |
| `control_socket` | 3 processes | `OneReachableOwner`, `NoFileAfterExit`, `StartRecovers` |
| `control_socket_restart` | 3 processes | `SingleOwnerAcrossRestarts` does not hold |
| `capture` | 2 requests, 2 operations; reports of up to 3 cases | `ServiceWithinOperation`, `EvidenceSound`, `ServiceLostOnlyToCancel`, `CancelledNeverSucceeds` |
| `launch_agent` | 3 processes, 2 output paths, 2 launch-agent commands | `LocationBacked`, `DaemonFindsCredentials`, `FailureRollsBack`, `AgentAsCommanded`, `StopIsReported` |
| `delivery` | an install and an uninstall, one client, 2 responses, 1 progress | `TunnelOwned`, `ConnectionsOwned`, `SuccessStands`, `VerdictTrue`, `LostExplained`, `OperationEnds` |

**Bounds.** Two connections suffice for one that owns `operationMu` while
another waits, is turned away or stops the daemon; two generations for a
session that is lost while a handler or the loop holds on to it and its
successor is published. Under load (`daemon_live`) each of the two connections
is taken again and again, so both loop and shutdown wait behind an endless
sequence of installs; `MaxCounted` bounds those that succeed, the others run
and fail. Two writers and two targets give a set that overtakes
another; two sessions a reconnect; one abandoned dial (`MaxDials`) a stray
connection beside the next driver. Three processes give a daemon that ends,
its successor and a third that finds what the first left. Two operations and
two requests give a handler that outlives its run into the next one. An
install and an uninstall (`CallersInstall`) give an abandoned request that
undoes a later success; the install has a client, the uninstall has lost it; a
limit of two responses is reached by `accepted` and one progress, and is not
by a request without progress. Reports of three cases give two modules with
one class of equal name and a test that comes twice; two attachments in one
case or in two give a file that is named twice. Two launch-agent commands give
every overlap of an install with another install or a remove. In the
proofs these bounds are arbitrary. `MaxGenerations`, `MaxRestarts`,
`MaxOperations`, `MaxCounted` and `MaxDials` are the bounds on counters; when
they are reached the daemon goes on without acquiring, restarting, beginning,
succeeding or abandoning a dial again.

**Symmetry** is used on connections, writers, targets, requests, processes and
output paths in runs without liveness properties; no definition names one of
them.

**Deadlock** is checked wherever the system should not stop: `Terminated`,
`Ended` and `Finished` are explicit stutters for a system that has ended.
`ControlSocket`, `LaunchAgent` and `Delivery` run commands that simply end, so
their runs do not check it.

**Fairness.** Liveness assumes of the code's environment only this:
- `sync.Mutex` hands over to the longest waiter once it has starved for a
  millisecond. So a goroutine that waits for a mutex that is released again
  and again gets it: strong fairness on `ConnectionLoop`, on each `Handle(c)`,
  on `Shutdown` and on each `Operation(a)` of the location. Weak fairness would
  not do: with it the clients of `DaemonLoad` keep `LostSessionReleased` from
  holding.
- Calls on the phone return. Contexts and deadlines end most of them;
  `zipconduit.New` and `installationproxy.New` take no context, and for these
  it is an assumption about Link Core.
- The timer of a watch fires again, and a running daemon is reached now and
  then (`Fairness` of `Watch`).
- A process that is starting or ending goes on (`ControlSocket`), unless it
  crashes.
- Whoever owns `operationMu` goes on or meets its deadline, and the mutex is
  not withheld for ever from a request that waits (`Fairness` of `Delivery`).
  Nothing is assumed of the goroutines that a `select` waits for together with
  the context, nor of the phone: `OperationEnds` rests on the deadlines alone.

No fairness is assumed of clients, signals, ticks of the pulse, packet pumps,
the phone, crashes or restarts.

### What does not hold

- **`NoPanic`.** Connection loop: `currentSession()` is not nil (`daemon.go:169`). A stop
  lets `Serve` close and clear the session. The loop reads the session again
  (`daemon.go:177`), gets nil, and `session.Done()` panics. The theorem
  `PanicOnlyWhenStoppingHolds` and `ReturnedClean` bound the damage: by then the session is closed and `Serve`
  is returning, so the fault shows only as an abnormal exit (which a
  supervisor may count as a crash).
- **`SingleOwnerAcrossRestarts`.** The deferred `os.Remove` of a daemon that
  ends (`daemon.go:354`) runs after the listener was closed and may remove the socket of
  its successor. The successor keeps running unreachable, and a third daemon
  serves the profile. Under launchd alone starts do not overlap a stop
  (`OneReachableOwner`); with a daemon started by hand they can.
- **`WarmLossReportedInEveryRun`.** The baseline of a watch survives a restart
  of the daemon, whose counters do not.

Two more disagreements are modelled but have no run. The test at
`watch_test.go:10` is called `TestWatchEmitsColdOnlyAfterObservedWarmSessionLoss`,
but `Watch` exits with `cold`, too, when the first warm answer shows a
session that came after the loss of one that no poll ever saw: no
session that was observed as warm is lost then. `ColdMeansLoss` excludes exactly
this case, and a daemon that was started again; it demands a loss of a session
that was seen warm whenever an earlier answer had shown one. And an accept error makes
`Serve` return without the location clear that `docs/architecture.md:35`
promises (`AcceptFails` in `Location`). `ClearedBeforeClose` is therefore
stated for the states `closing` and `returned` only.

## 4. What is proved

| Module | Theorems |
|---|---|
| `DaemonProofs` | `TypeCorrect`, `Invariant`, every state property of `daemon`, `PanicOnlyWhenStopping`, `OnlyPumpLossReleases`, `ImplementsLifecycle` |
| `LocationProofs` | `TypeCorrect`, `Invariant`, all properties of `location` with `ImplementsSimulation`, `OneConnectionInUse`, `ClearSkippedOnlyIfReal` |
| `WatchProofs` | `TypeCorrect`, `Invariant`, `ColdMeansLoss`, `EventIsCurrent`, `LossEndsWatch` |
| `ControlSocketProofs` | `TypeCorrect`, `Invariant`, `OneReachableOwner`, `NoFileAfterExit`, `RefusedByOwner` |
| `CaptureProofs` | `Invariant`, all properties of `capture`, `OneCapture`, `AllJudged` |
| `ProfileProofs` | `Invariant`, `LocationBacked`, `DaemonFindsCredentials`, `FailureRollsBack`, beside launch-agent commands too; `AgentInvariant`, `AgentAsCommanded`, `StopIsReported` |
| `DeviceOpsProofs` | `Invariant`, `TunnelOwned`, `ConnectionsOwned`, `SuccessStands` |
| `DeliveryProofs` | `DeliveryInvariant`, `VerdictTrue`, `LostExplained`, the three above beyond the exit of the daemon |

The assumptions are the named `ASSUME`s of the modules: the sets of actors do
not contain the model's own names, bounds are natural numbers, requests are
commands of the protocol, connections are finitely many. Every theorem about a
safety property has the shape `Spec => []P` or `Spec => [][A]_vars` and follows
from an inductive invariant `IInv` of its module.

**Daemon.** The properties are not inductive by themselves. That no session is
closed under an operation needs `MutexOwner` (who is inside a critical section
owns `operationMu`, so two such goroutines are the same), `SessionIds` (the
loop's local generation still denotes the session it noted, and only the
newest session can be published) and `Publication` (what `Serve` and the loop
imply about `session`: nil while the loop is acquiring or closing, nil once
`Serve` has returned). `Recorded` ties the generation a capture recorded at its
start to the session it used. Each lemma takes one goroutine: `InvLoop`,
`InvHandler`, `InvOther`.

`AppAccounting` follows from the same invariant: a counter equals the number
of connections that were told of a success or still have to be. The success of
a call adds one connection to that set and one to the counter
(`SuccessCounted`), the report moves it from one half to the other
(`ReportCounted`), and no other step touches either (`AccountsStutter`). The
connections are finitely many, which makes the cardinalities add up.

**Refinement.** `live` maps to `session # Nil`, `held` to a handler that is
calling, `completed` to the sum of the app counters, `ended` to
`serve = "returned"`. `EstablishActive` maps to `Acquire`, `Begin` to `Hold`, the end
of a call to `Release`, `LoseSession` to `Lose`, the return of `Serve` to
`End`; every other step stutters. That `Lose` and `End` happen only while no
operation holds the session is where the invariant is used.

In `Location` the refinement mapping hides the lock, the requests and the outer
session: `claimed` is `phase = "active"`, `link` the driver and whether its
session has stopped, `shown` and `pending` are what the phone reports and may
yet be made to report. One lemma takes the operations, one the loop, one
`Serve`, one the phone. The invariant is used where the abstract location
demands more than the guard of a step says: that a call names the target that
was recorded (`CallRecorded`), that the owner of the lock has the only driver,
and that none is left when the outer tunnel is closed (`Quiet`). It implies
`ClearSkippedOnlyIfReal`, which is proved on its own as well.

**Location.** `IInv` adds to the properties which actor owns the lock, what a
call has recorded before it started (`CallRecorded`: a set has its target, a
refresh repeats it), how phase, target and driver go together
(`PhaseMeaning`), which session a driver is opened on (`SessionIds`), and that
nothing becomes active after the clear of `Serve` (`Quiet`). `Applied` is the
strengthening for the phone: between a refresh and its answer the phone
already has the target. `OneConnectionInUse` counts the open connections: the
driver, if there is one, and the strays of abandoned dials (`InvDials`).

**Watch.** `Remembered` relates the counters in an answer under way, the
baseline and the history. It is what links a count above the baseline to a
loss that happened. `Counted` is the converse, for the run of the daemon that
gave the first answer: a loss since then is a count above the baseline. From it
follows `LossEndsWatch`, the step that `WarmLossReported` waits for: what stays
with TLC is that such an answer is delivered at all.

`Observed` is what `ColdMeansLoss` needs beyond that: a watch that goes on after
it has observed a warm session holds one (`Held`) that was warm while the
daemon had counted as many losses as the baseline. One loss more can only be
the loss of that session, whatever came in between (`HeldKept`).

**ControlSocket.** `Exclusive` says that until the first overlap one process
is starting or ending, and that whoever is about to bind or remove has no
daemon to disturb.

**Capture.** `OperationStage`, `ServiceStage` and `OutcomeStage` say what is
open at each stage; `ClosedByHook` says what could have closed a service;
`Late` ties the history variables to contexts.

**Test evidence.** `AllJudged` is a fact about two nested loops over sequences
of any length. Each loop has an invariant that relates its state after k turns
to the first k items without a loop: `AttachedTo` for the attachments of a case
(no error so far exactly if every picture has a file of its own), `FinishedTo`
for the cases (and all of them passed, none twice; the counters are
cardinalities). They are proved by induction over the turns. The library states
induction for an operator parameter, which the provers cannot instantiate;
`CountUp` states it for a set, and follows from the least element of a set of
natural numbers (`WFMin`). `LoopRuns` shows in the same way that the recursive
functions of the model exist. The assumption is the shape of requests, reports
and files (`EvidenceAssumption`). `EvidenceSound` follows at once.

**Profile.** `CredentialsOwner` and `DocumentOwner` say which process a file
belongs to at each step of that process; `Locations` says that a profile names
only a process that is done.

**LaunchAgent.** Its commands leave the variables of `Profile` alone
(`AgentsKeepProfile`), so the promises of the profile carry over.
`AgentIInv` adds to the two properties `Alone` (without an overlap, whoever is
in progress began last) and `Achieved` (what such a command has reached before
each of its steps: its own property list from the rename on, no job after a
`bootout` that did not fail).

**DeviceOps.** `SuccessStands` needs to know at the readback what could still
falsify it. `Turns` says that the owner of `operationMu` has the latest turn;
`Pending`, that what the phone may yet carry out has failed or is in transfer
right now; `ListTrue`, that a list in hand is true unless a failed request was
carried out since. `Owner` and `Connected` tie connections and tunnel to the
step of whoever owns the mutex.

**Delivery.** A step leaves the variables of `DeviceOps` alone, is one of its
steps, or is the exit of the daemon, so its invariant carries over until the
exit; `AfterExit` is what remains of it. `Responses` says of every verdict on
its way, not only of the received one, that it is true and stays so
(`RequestStays`); `Answered`, that a connection is closed under a waiting client
only behind a verdict, unless the request was dropped with the listener
(`Dropped`), which stays so (`DroppedStays`) because it never runs.

Only model-checked: what needs fairness, which TLAPS cannot reason about (nor
about `ENABLED`), that is all properties of `daemon_live` and `location_live`,
`WarmLossReported`, `StartRecovers` and `OperationEnds`. Every other property
of a passing run is a theorem.

## 5. What is not modelled

- Link Core itself. It enters through `Done`, calls that return, and the phone.
- Time. A deadline may pass at any moment; intervals and their order are not
  compared.
- Validation, formats, wording and logging, wherever no state depends on them.
- The binary body behind a screenshot header: one sender, one reader.
- The test listener of Link Core. The repository holds it as a diff, without
  the code around its hunks on which the order of its callbacks depends.
- `doctor`, `app.go`, the scripts: sequential programs or pure checks.
- `zipconduit.New` and `installationproxy.New` take no context; that they
  return is assumed in `OperationEnds` as in the other liveness properties.
- What a client does with an answer, and `SaveScreenshot`.

## 6. The plan

Done: `Daemon` with `SessionLifecycle`, `Location` with `SimulatedLocation`,
`Watch`, `ControlSocket`, `Capture` with `TestEvidence`, `Profile` with
`LaunchAgent`, `DeviceOps` with `Delivery`, their runs, and proofs in eight
modules of every safety property that the passing runs check. Next:

1. A composition of `Daemon` and `Location`, for the order of `operationMu` and
   the location lock in one state space.
2. What the two abstract specifications promise, proved once of them and
   carried over to `Daemon` and `Location` by the refinements.
