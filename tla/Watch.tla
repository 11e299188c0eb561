-------------------------------- MODULE Watch --------------------------------
(***************************************************************************)
(* `watch` (internal/linkcore/watch.go): a client that polls the status of *)
(* the daemon, emits what changed and exits when a warm session is lost.   *)
(*                                                                         *)
(* The daemon is reduced to the snapshots it can answer.  It may stop and  *)
(* start again while it is watched: its counters then start from zero.  A  *)
(* poll is two steps, because the daemon goes on while the answer travels. *)
(***************************************************************************)
EXTENDS Integers

CONSTANTS
    MaxGenerations,  \* bound: sessions that each run of the daemon acquires
    MaxRestarts      \* bound: how often the daemon is started again

ASSUME BoundsAssumption == MaxGenerations \in Nat /\ MaxRestarts \in Nat

VARIABLES
    \* the daemon
    up,              \* it answers on the control socket
    run,             \* how many times it was started again
    state, generation, sessionLosses,
    \* watchStatus: its locals, the answer on its way, what it emitted
    previous,        \* signature of the last event, or None
    warmObserved,
    lossBaseline,    \* the losses of the first answer, or None
    answer,          \* a snapshot, PollFailed, or None between polls
    watch,           \* running, cold (exited with that event) or cancelled
    event,           \* the last response emitted
    \* history, read by the properties only
    firstRun,        \* the run of the daemon that gave the first answer
    seen,            \* the sessions <<run, generation>> answered as warm
    lost             \* the sessions lost since the first answer

daemon == <<up, run, state, generation, sessionLosses>>
locals == <<previous, warmObserved, lossBaseline>>
history == <<firstRun, seen, lost>>
vars == <<daemon, locals, answer, watch, event, history>>

None == -1
PollFailed == [state |-> "error", generation |-> 0, sessionLosses |-> 0]

\* The states with a session that installs and failures do not end, and the
\* ones without.
WarmStates == {"active", "recovering"}
ColdStates == {"waiting_for_listener", "session_lost", "stopping"}
Snapshots == [state : WarmStates \cup ColdStates,
              generation : 0..MaxGenerations,
              sessionLosses : 0..MaxGenerations]
NoSnapshot == [state |-> "none", generation |-> 0, sessionLosses |-> 0]
Signatures == Snapshots \cup {PollFailed, NoSnapshot}

TypeOK ==
    /\ up \in BOOLEAN /\ run \in 0..MaxRestarts
    /\ up \/ run < MaxRestarts
    /\ state \in WarmStates \cup ColdStates
    /\ generation \in 0..MaxGenerations /\ sessionLosses \in 0..generation
    /\ state \in WarmStates => sessionLosses < generation
    /\ previous \in Signatures /\ answer \in Signatures
    /\ warmObserved \in BOOLEAN
    /\ lossBaseline \in {None} \cup 0..MaxGenerations
    /\ watch \in {"running", "cold", "cancelled"}
    /\ event \in {"none", "watching", "state_changed", "watch_error", "cold"}
    /\ firstRun \in {None} \cup 0..MaxRestarts
    /\ seen \subseteq (0..MaxRestarts) \X (1..MaxGenerations)
    /\ lost \subseteq (0..MaxRestarts) \X (1..MaxGenerations)

Init ==
    /\ up = TRUE /\ run = 0
    /\ state = "waiting_for_listener" /\ generation = 0 /\ sessionLosses = 0
    /\ previous = NoSnapshot /\ warmObserved = FALSE /\ lossBaseline = None
    /\ answer = NoSnapshot
    /\ watch = "running" /\ event = "none"
    /\ firstRun = None /\ seen = {} /\ lost = {}

-----------------------------------------------------------------------------
(* The daemon, as far as its snapshots show it *)

DaemonStep(s) ==
    /\ up /\ state' = s
    /\ UNCHANGED <<run, locals, answer, watch, event, firstRun, seen>>

\* establish publishes a session.
Acquire ==
    /\ state \in {"waiting_for_listener", "session_lost"}
    /\ generation < MaxGenerations
    /\ DaemonStep("active")
    /\ generation' = generation + 1
    /\ UNCHANGED <<up, sessionLosses, lost>>

\* An app operation fails or succeeds: the session is retained.
Operate ==
    /\ state \in WarmStates
    /\ \E s \in WarmStates : DaemonStep(s)
    /\ UNCHANGED <<up, generation, sessionLosses, lost>>

\* loseSession
Lose ==
    /\ state \in WarmStates
    /\ DaemonStep("session_lost")
    /\ sessionLosses' = sessionLosses + 1
    /\ lost' = IF firstRun = None THEN lost
               ELSE lost \cup {<<run, generation>>}
    /\ UNCHANGED <<up, generation>>

\* connectionLoop goes on without a session.
Wait ==
    /\ state = "session_lost"
    /\ DaemonStep("waiting_for_listener")
    /\ UNCHANGED <<up, generation, sessionLosses, lost>>

\* Serve announces its shutdown; the session it closes is not counted as lost.
Stop ==
    /\ run < MaxRestarts
    /\ DaemonStep("stopping")
    /\ UNCHANGED <<up, generation, sessionLosses, lost>>

\* The process ends, after Stop or by a crash, ...
Exit ==
    /\ run < MaxRestarts
    /\ up /\ up' = FALSE
    /\ UNCHANGED <<run, state, generation, sessionLosses, locals, answer,
                   watch, event, history>>

\* ... and launchd or the user starts it again: NewDaemon.
Restart ==
    /\ ~up /\ up' = TRUE /\ run' = run + 1
    /\ state' = "waiting_for_listener" /\ generation' = 0 /\ sessionLosses' = 0
    /\ UNCHANGED <<locals, answer, watch, event, history>>

Daemon == Acquire \/ Operate \/ Lose \/ Wait \/ Stop \/ Exit \/ Restart

-----------------------------------------------------------------------------
(* watchStatus *)

WatchStep == watch = "running" /\ UNCHANGED <<daemon, lost>>

IsWarm(response) == response.generation # 0 /\ response.state \in WarmStates

\* read: Call gets a snapshot of the daemon, ...
Poll ==
    /\ WatchStep /\ answer = NoSnapshot /\ up
    /\ answer' = [state |-> state, generation |-> generation,
                  sessionLosses |-> sessionLosses]
    /\ firstRun' = IF firstRun = None THEN run ELSE firstRun
    /\ seen' = IF IsWarm(answer') THEN seen \cup {<<run, generation>>} ELSE seen
    /\ UNCHANGED <<locals, watch, event>>

\* ... or the socket is gone, the daemon exits before it answers, or the call
\* takes too long.
PollError ==
    /\ WatchStep /\ answer = NoSnapshot
    /\ answer' = PollFailed
    /\ UNCHANGED <<locals, watch, event, firstRun, seen>>

\* An event is emitted only if the signature differs from the last one.
EmitChange(kind) ==
    /\ IF previous = answer THEN UNCHANGED event ELSE event' = kind
    /\ answer' = NoSnapshot

ReadError ==
    /\ WatchStep /\ answer = PollFailed
    /\ EmitChange("watch_error")
    /\ previous' = answer
    /\ UNCHANGED <<warmObserved, lossBaseline, watch, firstRun, seen>>

Baseline == IF lossBaseline = None THEN answer.sessionLosses ELSE lossBaseline

\* What both outcomes of an answer have in common.
Answered ==
    /\ WatchStep /\ answer \in Snapshots
    /\ lossBaseline' = Baseline
    /\ warmObserved' = (warmObserved \/ IsWarm(answer))
    /\ answer' = NoSnapshot
    /\ UNCHANGED <<firstRun, seen>>

ColdIf(losses) ==
    /\ Answered
    /\ warmObserved' /\ losses
    /\ watch' = "cold" /\ event' = "cold"
    /\ UNCHANGED previous

\* Mutant: the losses before the watch began count, too.
ColdWithoutBaseline == ColdIf(answer.sessionLosses > 0)

\* Mutant: off by one, a watch never sees the first loss.
ColdAtSecondLoss == ColdIf(answer.sessionLosses > Baseline + 1)

ReadCold == ColdIf(answer.sessionLosses > Baseline)

ReadStatus ==
    /\ Answered
    /\ ~(warmObserved' /\ answer.sessionLosses > Baseline)
    /\ IF previous = answer THEN UNCHANGED event
       ELSE event' = IF previous = NoSnapshot THEN "watching" ELSE "state_changed"
    /\ previous' = answer
    /\ UNCHANGED watch

WatchStatus == Poll \/ PollError \/ ReadError \/ ReadCold \/ ReadStatus

\* The context of the watch ends.
Cancel ==
    /\ WatchStep /\ watch' = "cancelled"
    /\ UNCHANGED <<locals, answer, event, firstRun, seen>>

Ended == watch # "running" /\ UNCHANGED vars

Next == Daemon \/ WatchStatus \/ Cancel \/ Ended

\* The timer always fires again and a running daemon answers now and then.
Fairness == WF_vars(WatchStatus) /\ SF_vars(Poll)

Spec == Init /\ [][Next]_vars
FairSpec == Spec /\ Fairness

-----------------------------------------------------------------------------
(* Properties *)

\* A cold event means that the daemon lost a session since the first answer.
\* If the watch had seen it warm before the answer that ends it, and the daemon
\* was not started again since the first one, a session that was seen warm is
\* lost: neither a recovering service nor one that stops, nor a session that
\* was acquired and lost unseen before, is reported as cold.  (When the first
\* warm answer ends the watch, what was lost may be a session that no poll saw:
\* watch.go:80 compares counters, although the test at watch_test.go:10 is
\* named for an observed session.)
ColdMeansLoss ==
    [][watch' = "cold" /\ watch # "cold" =>
           /\ lost # {}
           /\ warmObserved /\ firstRun = run => seen \cap lost # {}]_vars

\* The last event tells what the last finished poll found: an error, or a
\* snapshot after it, is never swallowed because it resembles an older one.
EventIsCurrent ==
    watch = "running" =>
        /\ event = "watch_error" <=> previous = PollFailed
        /\ event = "none" <=> previous = NoSnapshot

\* What the history remembers: the first answer, and a loss for every count
\* above the baseline, the one fixed by the first answer or the one that its
\* delivery will fix.
Remembered ==
    /\ (answer \in Snapshots \/ lossBaseline # None) => firstRun # None
    /\ lossBaseline # None /\ sessionLosses > lossBaseline => lost # {}
    /\ lossBaseline # None /\ answer.sessionLosses > lossBaseline => lost # {}
    /\ (/\ lossBaseline = None /\ answer \in Snapshots
        /\ sessionLosses > answer.sessionLosses) => lost # {}

\* While the run that gave the first answer goes on, a loss since then is a count
\* above the baseline; and a warm answer is not forgotten.
Counted ==
    /\ firstRun = None =>
           lost = {} /\ lossBaseline = None /\ answer \notin Snapshots
    /\ firstRun # None =>
           firstRun <= run /\ (lossBaseline # None \/ answer \in Snapshots)
    /\ firstRun = run =>
           /\ Baseline <= sessionLosses
           /\ (\E g \in 1..MaxGenerations : <<run, g>> \in lost) =>
                  Baseline < sessionLosses
    /\ seen # {} => warmObserved \/ IsWarm(answer)

\* A session that was warm when so many losses were counted is still there,
\* or lost.
Held(g, losses) ==
    /\ <<run, g>> \in seen
    /\ sessionLosses > losses => <<run, g>> \in lost
    /\ sessionLosses = losses =>
           g = generation /\ state \in WarmStates \cup {"stopping"}

\* In that run the session of a warm answer is held until it is delivered, and
\* a watch that goes on after it has observed a warm session holds one that was
\* warm at the count of the baseline.
Observed ==
    /\ warmObserved => lossBaseline # None
    /\ firstRun = run =>
           /\ answer \in Snapshots =>
                  Baseline <= answer.sessionLosses /\ answer.sessionLosses <= sessionLosses
           /\ IsWarm(answer) => Held(answer.generation, answer.sessionLosses)
           /\ watch = "running" /\ warmObserved =>
                  \E g \in 1..MaxGenerations : Held(g, lossBaseline)

\* The inductive invariant.
IInv == TypeOK /\ Remembered /\ Counted /\ Observed /\ EventIsCurrent

\* The step that WarmLossReported waits for: once a session that was observed
\* as warm is lost, in the run that gave the first answer, the next answer that
\* has all the losses ends the watch when it is delivered, and with cold.
LossEndsWatch ==
    [][/\ firstRun = run
       /\ \E g \in 1..MaxGenerations : <<run, g>> \in seen \cap lost
       /\ answer \in Snapshots /\ answer.sessionLosses = sessionLosses
       /\ answer' # answer
       => watch' = "cold"]_vars

\* The loss of a session that was observed as warm ends the watch, as long as
\* the daemon that gave the first answer keeps running: neither polling too
\* slowly to see the loss itself nor errors in between hide it.
WarmLossReported ==
    \A r \in 0..MaxRestarts, g \in 1..MaxGenerations :
        (<<r, g>> \in seen \cap lost /\ firstRun = r /\ run = r /\ up) ~>
            (watch # "running" \/ run # r \/ ~up)

\* watch.go: Watch exits after a warm generation records an outer tunnel loss,
\* whichever run of the daemon it belongs to.
WarmLossReportedInEveryRun ==
    \A r \in 0..MaxRestarts, g \in 1..MaxGenerations :
        (<<r, g>> \in seen \cap lost /\ run = r /\ up) ~>
            (watch # "running" \/ run # r \/ ~up)

=============================================================================
