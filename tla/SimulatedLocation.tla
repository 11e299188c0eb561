-------------------------- MODULE SimulatedLocation --------------------------
(***************************************************************************)
(* What the daemon promises about the simulated location                   *)
(* (docs/architecture.md, "iOS OTA location extension"), without its       *)
(* requests, locks and goroutines: one connection is used; a set is        *)
(* remembered before the phone can obey it, and until a clear has          *)
(* succeeded; a failure gives the connection up; a new one reapplies       *)
(* nothing; and the shutdown ends by giving up the connection, after a     *)
(* clear unless there is no target to restore from.                        *)
(***************************************************************************)
CONSTANTS Targets, None, Real

VARIABLES
    target,       \* the location to restore from, or None
    claimed,      \* the daemon calls it active
    link,         \* its connection: "none", "up", or "cut" but not yet noticed
    stage,        \* "running", "clearing" at shutdown, "ended"
    shown,        \* the location the phone reports
    pending       \* what a request that was given up may still make it report

vars == <<target, claimed, link, stage, shown, pending>>

Init ==
    /\ target = None /\ ~claimed /\ link = "none" /\ stage = "running"
    /\ shown = Real /\ pending = None

\* A set names its target, a clear none; neither is confirmed by it.
Ask ==
    \/ target' \in Targets /\ claimed' = FALSE
    \/ UNCHANGED <<target, claimed>>

\* Over a new connection, which earlier requests do not overtake ...
AskAnew ==
    /\ link = "none" /\ link' = "up"
    /\ stage # "ended"
    /\ Ask
    /\ pending' = None
    /\ UNCHANGED <<stage, shown>>

\* ... or over the one there is.
AskAgain ==
    /\ link # "none" /\ Ask
    /\ UNCHANGED <<link, stage, shown, pending>>

\* The phone obeys: a location is new to it only before it is called active.
Obey ==
    /\ link = "up"
    /\ \/ target # None /\ ~claimed /\ shown' = target
       \/ shown' = Real
    /\ UNCHANGED <<target, claimed, link, stage, pending>>

\* The phone acknowledges what it has done.
ConfirmSet ==
    /\ link = "up" /\ target # None /\ shown = target
    /\ claimed' = TRUE
    /\ UNCHANGED <<target, link, stage, shown, pending>>

ConfirmClear ==
    /\ link = "up" /\ shown = Real
    /\ target' = None /\ claimed' = FALSE /\ link' = "none"
    /\ UNCHANGED <<stage, shown, pending>>

\* A request fails, or the session is lost: the connection is given up and
\* the target kept.  The request may still be on its way.
GiveUp ==
    /\ link # "none" /\ link' = "none"
    /\ claimed' = FALSE
    /\ \/ UNCHANGED pending
       \/ link = "up" /\ pending' \in {target, Real} \ {None}
    /\ UNCHANGED <<target, stage, shown>>

\* The connection breaks.
Cut ==
    /\ link = "up" /\ link' = "cut"
    /\ UNCHANGED <<target, claimed, stage, shown, pending>>

\* What was on its way arrives.
Arrive ==
    /\ pending # None
    /\ shown' = pending /\ pending' = None
    /\ UNCHANGED <<target, claimed, link, stage>>

\* The phone stops simulating when it is cut off.
Reset ==
    /\ link # "up" /\ shown' = Real
    /\ UNCHANGED <<target, claimed, link, stage, pending>>

\* Shutdown: a clear is tried if there is anything to restore.
Clear ==
    /\ stage = "running" /\ target # None
    /\ stage' = "clearing"
    /\ UNCHANGED <<target, claimed, link, shown, pending>>

\* The outer tunnel is about to be closed.
End ==
    /\ stage = "clearing" \/ (stage = "running" /\ target = None)
    /\ link = "none" /\ ~claimed
    /\ stage' = "ended"
    /\ UNCHANGED <<target, claimed, link, shown, pending>>

Next ==
    \/ AskAnew \/ AskAgain \/ Obey \/ ConfirmSet \/ ConfirmClear
    \/ GiveUp \/ Cut \/ Arrive \/ Reset \/ Clear \/ End

Spec == Init /\ [][Next]_vars

=============================================================================
