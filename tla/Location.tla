------------------------------ MODULE Location ------------------------------
(***************************************************************************)
(* The simulated location (internal/linkcore/location.go): the             *)
(* locationSession that HTTPS requests, the five-second pulse, loseSession *)
(* and the shutdown of Serve share, and the phone it commands.             *)
(*                                                                         *)
(* Grain.  s.mu is the variable mu, which names its owner.  Locking it and *)
(* the work up to the first call on the phone are one step; so are the     *)
(* return of a call, what follows it and the unlock.  An operation that    *)
(* makes no call is one step.  The outer session is reduced to what        *)
(* location code reads: which one is published and which ones are dead.    *)
(*                                                                         *)
(* The phone keeps a simulated location until it is told to stop or it is  *)
(* cut off.  A call whose deadline expired may have been received, may     *)
(* still be received, or never; what a closed connection had sent does not *)
(* overtake the handshake of the connection opened after it.               *)
(***************************************************************************)
EXTENDS Integers

CONSTANTS
    Writers,         \* HTTP requests served at the same time
    Targets,         \* the coordinates they ask for
    MaxGenerations,  \* bound: how many sessions are ever opened
    MaxDials         \* bound: how many abandoned dials there are at a time

Free == "free"
Serve == "serve"
Pulse == "pulse"
Lost == "loseSession"
Actors == Writers \cup {Serve, Pulse}

Nil == 0                \* no session; no driver
None == "none"          \* no target; no call on its way
Real == "real"          \* the phone's true location: what a clear restores

ASSUME WritersAssumption == Writers \cap {Free, Serve, Pulse, Lost} = {}
ASSUME TargetsAssumption == Targets \cap {None, Real} = {}
ASSUME MaxGenerationsAssumption == MaxGenerations \in Nat
ASSUME MaxDialsAssumption == MaxDials \in Nat

VARIABLES
    \* locationSession, guarded by s.mu
    phase, target,
    driver,          \* the session its connection was opened on, or Nil
    mu,              \* owner of s.mu, or Free
    open,            \* how many LocationSimulation connections are open
    \* an operation of an actor
    pc, want,        \* its progress, and what it asks the phone to do
    dialled,         \* the session on which the owner of mu opens a driver
    \* OpenLocation: the goroutines that it has left behind at a deadline
    dials,           \* how many are still connecting
    strays,          \* how many are about to close what they have opened
    \* the daemon around it
    session, generation, stopped, loop, serve, cancelled,
    \* the phone
    phone,           \* the location it reports: Real or a simulated target
    late             \* what an abandoned call may still make it do

location == <<phase, target, driver, open>>
dialVars == <<dialled, dials, strays>>
operations == <<pc, want, dialVars>>
sessions == <<session, generation, stopped>>
daemon == <<sessions, loop, serve, cancelled>>
phoneVars == <<phone, late>>
vars == <<location, mu, operations, daemon, phoneVars>>

TypeOK ==
    /\ phase \in {"idle", "applying", "active", "lost"}
    /\ target \in Targets \cup {None}
    /\ driver \in Nat /\ open \in Nat
    /\ mu \in Actors \cup {Free}
    /\ pc \in [Actors -> {"idle", "waiting", "opening", "calling", "exited"}]
    /\ want \in [Actors -> Targets \cup {Real}]
    /\ dialled \in Nat /\ dials \in Nat /\ strays \in Nat
    /\ session \in Nat /\ generation \in Nat /\ stopped \subseteq Nat
    /\ loop \in {"running", "losing", "exited"}
    /\ serve \in {"listening", "stopping", "clearing", "closing", "returned",
                  "failed"}
    /\ cancelled \in BOOLEAN
    /\ phone \in Targets \cup {Real}
    /\ late \in Targets \cup {Real, None}

Init ==
    /\ phase = "idle" /\ target = None /\ driver = Nil /\ open = 0
    /\ mu = Free
    /\ pc = [a \in Actors |-> "idle"]
    /\ want = [a \in Actors |-> Real]
    /\ dialled = Nil /\ dials = 0 /\ strays = 0
    /\ session = Nil /\ generation = 0 /\ stopped = {}
    /\ loop = "running" /\ serve = "listening" /\ cancelled = FALSE
    /\ phone = Real /\ late = None

-----------------------------------------------------------------------------
(* set, clear and the refresh of pulse *)

Goto(a, to) == pc' = [pc EXCEPT ![a] = to]

\* The driver is closed and forgotten; the target stays.
Fail(closedDrivers) ==
    /\ phase' = "lost"
    /\ driver' = Nil
    /\ open' = open - closedDrivers
    /\ UNCHANGED target

OpenDrivers == IF driver = Nil THEN 0 ELSE 1

\* The HTTPS handler: owner.Err() is tested before anything else, and an
\* accepted PUT or DELETE has ten seconds from then on.
Request(w, location_) ==
    /\ ~cancelled
    /\ pc[w] = "idle" /\ Goto(w, "waiting")
    /\ want' = [want EXCEPT ![w] = location_]
    /\ UNCHANGED <<location, mu, dialVars, daemon, phoneVars>>

\* The operation of a has the lock and no driver: open reads the current
\* session, and RSD discovery fails at once when the context has ended.
Waiting(a) == pc[a] = "waiting" /\ mu = Free
MayOpen(a) == session # Nil /\ (a = Serve \/ ~cancelled)

OpenStart(a) ==
    /\ Waiting(a) /\ driver = Nil /\ MayOpen(a)
    /\ Goto(a, "opening")
    /\ mu' = a /\ dialled' = session
    /\ UNCHANGED <<location, want, dials, strays, daemon, phoneVars>>

OpenRefused(a) ==
    /\ Waiting(a) /\ driver = Nil /\ ~MayOpen(a)
    /\ Goto(a, "idle")
    /\ Fail(0)
    /\ UNCHANGED <<mu, want, dialVars, daemon, phoneVars>>

\* Discovery or the service fails, or the deadline passes while the goroutine
\* of OpenLocation is still in NewLocationSimulationService, which takes no
\* context: that dial is abandoned.
OpenError(a, owner) ==
    /\ pc[a] = "opening" /\ Goto(a, "idle")
    /\ mu' = owner
    /\ Fail(0)
    /\ \E abandoned \in 0..1 :
           /\ dials + strays + abandoned <= MaxDials
           /\ dials' = dials + abandoned
    /\ UNCHANGED <<want, dialled, strays, daemon, phoneVars>>

\* Mutant: the error path keeps the lock.
OpenErrorLocked(a) == OpenError(a, a)

OpenFails(a) == OpenError(a, Free)

\* An abandoned dial ends without a connection, or with one that nobody waits
\* for any more, beside the driver of another operation.
DialEnds(opened) ==
    /\ dials > 0 /\ dials' = dials - 1
    /\ strays' = strays + opened /\ open' = open + opened
    /\ UNCHANGED <<phase, target, driver, mu, pc, want, dialled, daemon,
                   phoneVars>>

\* Its goroutine finds the context done and closes that connection.
StrayCloses ==
    /\ strays > 0 /\ strays' = strays - 1
    /\ open' = open - 1
    /\ UNCHANGED <<phase, target, driver, mu, pc, want, dialled, dials, daemon,
                   phoneVars>>

AbandonedDials == StrayCloses \/ \E opened \in 0..1 : DialEnds(opened)

\* The call starts.  A set has recorded its target by then, a clear has not
\* forgotten the old one, and a refresh stays active.
Started(a, early) ==
    /\ Goto(a, "calling")
    /\ IF want[a] = Real \/ a = Pulse
       THEN UNCHANGED <<phase, target>>
       ELSE phase' = "applying" /\ target' = IF early THEN want[a] ELSE target

OpenedThen(a, early) ==
    /\ pc[a] = "opening" /\ dialled \notin stopped
    /\ driver' = dialled /\ open' = open + 1
    /\ Started(a, early)
    /\ late' = None
    /\ UNCHANGED <<mu, want, dialVars, daemon, phone>>

\* Mutant: the target is recorded once the phone confirmed it.
OpenedUnrecorded(a) == OpenedThen(a, FALSE)

Opened(a) == OpenedThen(a, TRUE)

Reuse(a) ==
    /\ Waiting(a) /\ driver # Nil
    /\ mu' = a
    /\ Started(a, TRUE)
    /\ UNCHANGED <<driver, open, want, dialVars, daemon, phoneVars>>

Tick(enabled) ==
    /\ pc[Pulse] = "idle" /\ mu = Free /\ phase = "active" /\ enabled
    /\ mu' = Pulse
    /\ want' = [want EXCEPT ![Pulse] = target]
    /\ Started(Pulse, TRUE)
    /\ UNCHANGED <<driver, open, dialVars, daemon, phoneVars>>

\* Mutant: a pulse without a driver opens one for the old target.
RefreshReopens ==
    \/ Tick(driver # Nil)
    \/ /\ pc[Pulse] = "idle" /\ target # None /\ driver = Nil
       /\ Goto(Pulse, "waiting") /\ want' = [want EXCEPT ![Pulse] = target]
       /\ UNCHANGED <<location, mu, dialVars, daemon, phoneVars>>

Refresh == Tick(driver # Nil)

\* pulse sees its context ended.
PulseExits ==
    /\ cancelled /\ pc[Pulse] = "idle" /\ Goto(Pulse, "exited")
    /\ UNCHANGED <<location, mu, want, dialVars, daemon, phoneVars>>

\* The phone obeys a call; its answer is still to come.
Obey(a) ==
    /\ pc[a] = "calling" /\ driver \notin stopped
    /\ phone # want[a] /\ phone' = want[a]
    /\ UNCHANGED <<location, mu, operations, daemon, late>>

\* locationCall returns nil.  A successful Stop closed its connection.
Acknowledged(a) ==
    /\ pc[a] = "calling" /\ driver \notin stopped /\ phone = want[a]
    /\ Goto(a, "idle")
    /\ mu' = Free
    /\ IF want[a] = Real
       THEN phase' = "idle" /\ target' = None /\ driver' = Nil /\ open' = open - 1
       ELSE phase' = "active" /\ UNCHANGED <<target, driver, open>>
    /\ UNCHANGED <<want, dialVars, daemon, phoneVars>>

\* locationCall returns an error, or its deadline closes the driver and
\* abandons the call: the phone may have obeyed, may yet obey, or never will.
Unconfirmed(a, after, owner) ==
    /\ pc[a] = "calling" /\ Goto(a, "idle")
    /\ mu' = owner
    /\ after
    /\ \/ UNCHANGED late
       \/ late' = want[a] /\ driver \notin stopped
    /\ UNCHANGED <<want, dialVars, daemon, phone>>

\* Mutant: a failed refresh leaves the state active.
UnconfirmedStaysActive(a) ==
    Unconfirmed(a, IF a = Pulse THEN UNCHANGED location ELSE Fail(1), Free)

\* Mutant: the error path keeps the lock.
UnconfirmedLocked(a) == Unconfirmed(a, Fail(1), a)

NotConfirmed(a) == Unconfirmed(a, Fail(1), Free)

Operation(a) ==
    \/ OpenStart(a) \/ OpenRefused(a) \/ OpenFails(a) \/ Opened(a)
    \/ Reuse(a) \/ Acknowledged(a) \/ NotConfirmed(a)

-----------------------------------------------------------------------------
(* The daemon around it: connectionLoop and Serve *)

Establish ==
    /\ loop = "running" /\ session = Nil
    /\ generation < MaxGenerations
    /\ serve # "returned"
    /\ generation' = generation + 1 /\ session' = generation + 1
    /\ UNCHANGED <<location, mu, operations, stopped, loop, serve, cancelled,
                   phoneVars>>

\* loseSession under operationMu: the session is withdrawn first ...
LoseSession ==
    /\ loop = "running" /\ session \in stopped
    /\ session' = Nil /\ loop' = "losing"
    /\ UNCHANGED <<location, mu, operations, generation, stopped, serve,
                   cancelled, phoneVars>>

\* ... and location.lost waits for s.mu.
LostWhen(condition) ==
    /\ loop = "losing" /\ mu = Free
    /\ loop' = "running"
    /\ IF condition THEN Fail(OpenDrivers) ELSE UNCHANGED location
    /\ UNCHANGED <<mu, operations, sessions, serve, cancelled, phoneVars>>

\* Mutant: loseSession does not tell the location.
LostIgnored == LostWhen(FALSE)

LocationLost == LostWhen(driver # Nil \/ phase = "active")

LoopExits ==
    /\ cancelled /\ loop = "running" /\ loop' = "exited"
    /\ UNCHANGED <<location, mu, operations, sessions, serve, cancelled,
                   phoneVars>>

ConnectionLoop == Establish \/ LoseSession \/ LocationLost \/ LoopExits

ServeStep(from, to) ==
    /\ serve = from /\ serve' = to
    /\ UNCHANGED <<location, mu, dialVars, generation, loop, phoneVars>>

StopListening ==
    /\ cancelled
    /\ ServeStep("listening", "stopping")
    /\ UNCHANGED <<pc, want, session, stopped, cancelled>>

AcceptFails ==
    /\ ServeStep("listening", "failed")
    /\ cancelled' = TRUE
    /\ UNCHANGED <<pc, want, session, stopped>>

\* The snapshot of Serve decides whether there is anything to clear.  The
\* clear has its own deadline: the daemon's context has ended.
ClearIf(condition) ==
    /\ mu = Free
    /\ IF condition
       THEN ServeStep("stopping", "clearing") /\ Goto(Serve, "waiting")
       ELSE ServeStep("stopping", "closing") /\ UNCHANGED pc
    /\ UNCHANGED <<want, session, stopped, cancelled>>

\* Mutant: only an active location is cleared at shutdown.
ClearIfActive == ClearIf(phase = "active")

\* Mutant: an active location outlives the daemon.
ClearIfLost == ClearIf(phase = "lost")

Snapshot == ClearIf(target # None)

ShutdownCleared ==
    /\ pc[Serve] = "idle"
    /\ ServeStep("clearing", "closing")
    /\ UNCHANGED <<pc, want, session, stopped, cancelled>>

\* Under operationMu, which loseSession holds until location.lost returned.
ShutdownClose ==
    /\ loop # "losing"
    /\ ServeStep("closing", "returned")
    /\ session' = Nil /\ stopped' = stopped \cup ({session} \ {Nil})
    /\ UNCHANGED <<pc, want, cancelled>>

Shutdown == StopListening \/ Snapshot \/ ShutdownCleared \/ ShutdownClose

\* A stop request or a signal.
Cancel ==
    /\ ~cancelled /\ cancelled' = TRUE
    /\ UNCHANGED <<location, mu, operations, sessions, loop, serve, phoneVars>>

-----------------------------------------------------------------------------
(* The phone and the link to it *)

PumpStops(s) ==
    /\ s \in 1..generation \ stopped
    /\ stopped' = stopped \cup {s}
    /\ UNCHANGED <<location, mu, operations, session, generation, loop, serve,
                   cancelled, phoneVars>>

LateEffect ==
    /\ late # None
    /\ phone' = late /\ late' = None
    /\ UNCHANGED <<location, mu, operations, daemon>>

\* The phone may stop simulating when the connection that asked for it ends.
PhoneResets ==
    /\ phone # Real
    /\ driver = Nil \/ driver \in stopped
    /\ phone' = Real
    /\ UNCHANGED <<location, mu, operations, daemon, late>>

\* Serve has returned, nobody holds or waits for the lock.
Terminated ==
    /\ serve \in {"returned", "failed"} /\ loop = "exited"
    /\ \A a \in Actors : pc[a] \in {"idle", "exited"}
    /\ UNCHANGED vars

Next ==
    \/ \E a \in Actors : Operation(a)
    \/ \E w \in Writers, l \in Targets \cup {Real} : Request(w, l)
    \/ Refresh \/ PulseExits
    \/ ConnectionLoop
    \/ Shutdown \/ AcceptFails \/ Cancel
    \/ \E s \in 1..MaxGenerations : PumpStops(s)
    \/ \E a \in Actors : Obey(a)
    \/ AbandonedDials
    \/ LateEffect \/ PhoneResets
    \/ Terminated

\* Every call has a deadline and sync.Mutex is handed to the longest waiter.
\* The pulse promises nothing: its ticker may be late.
Fairness ==
    /\ \A a \in Actors : SF_vars(Operation(a))
    /\ SF_vars(ConnectionLoop)
    /\ SF_vars(Shutdown)

Spec == Init /\ [][Next]_vars
FairSpec == Spec /\ Fairness

-----------------------------------------------------------------------------
(* Properties *)

\* As long as the phone simulates a location, or an abandoned call may make it
\* do so, the daemon remembers a target and does not call itself idle: that is
\* what makes the shutdown, which clears only if there is a target, restore it.
UncertainTargetRetained ==
    phone # Real \/ late \in Targets => target # None /\ phase # "idle"

\* Of the LocationSimulation connections that are open, the daemon uses one,
\* its driver; each of the others belongs to a dial that was abandoned and is
\* about to close it.  No path of an operation, a loss or the shutdown leaks
\* one, and none gives up a connection that is closed already.
OneConnectionInUse == open = OpenDrivers + strays

\* The connection belongs to the published session.  It outlives that session
\* only until loseSession has told the location, under operationMu.
DriverFollowsSession ==
    driver \notin {Nil, session} => driver = generation /\ loop = "losing"

\* What a snapshot, which takes s.mu, calls active is true: the phone reports
\* the target, unless the tunnel it was commanded through is dead and that has
\* not been noticed yet.
ActiveIsApplied ==
    phase = "active" /\ mu = Free =>
        /\ driver # Nil
        /\ target # None
        /\ phone = target \/ driver \in stopped

\* An active location has been given up, restored or declared lost before
\* Serve closes the outer session, and no request brings it back afterwards.
ClearedBeforeClose ==
    serve \in {"closing", "returned"} =>
        /\ driver = Nil /\ mu = Free
        /\ phase \in {"idle", "lost"}
        /\ phone # Real => phase = "lost"

\* Serve skips the clear only if there is nothing to restore: no simulation,
\* and no abandoned call that may still start one.
ClearSkippedOnlyIfReal ==
    [][serve = "stopping" /\ serve' = "closing" =>
           phone = Real /\ late \notin Targets]_vars

\* The phone gets a new simulated location only from a request for it that is
\* being served, or from a call that has just been abandoned: no reconnect and
\* no refresh reapplies an old target.
NoSilentReapply ==
    [][phone' \notin {phone, Real} =>
           \/ late = phone'
           \/ \E w \in Writers : pc[w] = "calling" /\ want[w] = phone']_vars

\* s.mu is owned by the actor that opens a driver or calls the phone.
LockOwner ==
    /\ \A a \in Actors : mu = a <=> pc[a] \in {"opening", "calling"}
    /\ pc[Pulse] \in {"idle", "calling", "exited"}
    /\ pc[Serve] \in {"idle", "waiting", "opening", "calling"}
    /\ pc[Serve] # "idle" => serve = "clearing"
    /\ want[Serve] = Real

\* What the owner of s.mu has recorded before it calls the phone.
CallRecorded ==
    /\ \A a \in Actors : /\ pc[a] = "opening" => driver = Nil
                         /\ pc[a] = "calling" => driver # Nil
    /\ pc[Pulse] = "calling" => phase = "active" /\ want[Pulse] = target
    /\ \A w \in Writers :
           pc[w] = "calling" /\ want[w] # Real =>
               phase = "applying" /\ target = want[w]

\* How the phase, the target and the driver go together.
PhaseMeaning ==
    /\ phase = "idle" => target = None
    /\ phase = "applying" => \E w \in Writers : mu = w /\ want[w] # Real
    /\ phase \in {"applying", "active"} => target # None /\ driver # Nil
    /\ driver # Nil => late = None
    /\ driver # Nil /\ mu = Free => phase = "active"

\* Which sessions the daemon and the owner of s.mu refer to.
SessionIds ==
    /\ session \in {Nil, generation} /\ Nil \notin stopped
    /\ loop = "losing" => session = Nil
    /\ \A a \in Actors :
           pc[a] = "opening" =>
               /\ dialled # Nil
               /\ dialled = session \/ (dialled = generation /\ loop = "losing")

Cleared == \/ serve \in {"closing", "returned"}
           \/ serve = "clearing" /\ pc[Serve] = "idle"

\* After the clear of Serve nothing becomes active again.
Quiet ==
    /\ serve # "listening" => cancelled
    /\ Cleared => driver = Nil /\ mu = Free /\ phase \in {"idle", "lost"}

\* A refresh, unlike a set, finds the target applied already.
Applied ==
    phase = "active" /\ mu \in {Free, Pulse} =>
        phone = target \/ driver \in stopped

\* The inductive invariant.
IInv == /\ TypeOK /\ LockOwner /\ CallRecorded /\ PhaseMeaning /\ SessionIds
        /\ Quiet /\ Applied
        /\ UncertainTargetRetained /\ OneConnectionInUse /\ DriverFollowsSession

\* Every accepted PUT and DELETE is answered.
RequestsFinish == \A w \in Writers : pc[w] = "waiting" ~> pc[w] = "idle"

\* A location whose tunnel died does not stay active.
LossVisible ==
    (phase = "active" /\ driver \in stopped) ~>
        (phase # "active" \/ driver \notin stopped \/ serve = "failed")

\* An accepted shutdown gets past the location lock and returns.
ShutdownReturns == cancelled ~> serve \in {"returned", "failed"}

\* Location implements what SimulatedLocation promises: the outer session, the
\* lock and the actors are hidden.
Simulation == INSTANCE SimulatedLocation WITH
    claimed <- phase = "active",
    link <- IF driver = Nil THEN "none"
            ELSE IF driver \in stopped THEN "cut" ELSE "up",
    stage <- IF serve \in {"closing", "returned"} THEN "ended"
             ELSE IF serve = "clearing" THEN "clearing" ELSE "running",
    shown <- phone,
    pending <- late
ImplementsSimulation == Simulation!Spec

=============================================================================
