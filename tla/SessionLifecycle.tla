-------------------------- MODULE SessionLifecycle --------------------------
(***************************************************************************)
(* What the daemon promises about its outer session (docs/architecture.md, *)
(* "Session lifecycle"): there is one at a time, each is a new generation, *)
(* an operation holds it alone, and while it is held it is neither lost,   *)
(* replaced nor shut down.  Service failures never release it.             *)
(***************************************************************************)
EXTENDS Naturals

VARIABLES
    live,         \* a session is published
    held,         \* an operation runs on it
    generation,   \* sessions acquired so far
    losses,       \* sessions lost so far
    completed,    \* installs and uninstalls that succeeded
    ended         \* the daemon has shut down

vars == <<live, held, generation, losses, completed, ended>>

Init ==
    /\ ~live /\ ~held /\ ~ended
    /\ generation = 0 /\ losses = 0 /\ completed = 0

Acquire ==
    /\ ~live /\ ~ended
    /\ live' = TRUE
    /\ generation' = generation + 1
    /\ UNCHANGED <<held, losses, completed, ended>>

Hold ==
    /\ live /\ ~held
    /\ held' = TRUE
    /\ UNCHANGED <<live, generation, losses, completed, ended>>

Release ==
    /\ held
    /\ held' = FALSE
    /\ completed' \in {completed, completed + 1}
    /\ UNCHANGED <<live, generation, losses, ended>>

Lose ==
    /\ live /\ ~held
    /\ live' = FALSE
    /\ losses' = losses + 1
    /\ UNCHANGED <<held, generation, completed, ended>>

End ==
    /\ ~held /\ ~ended
    /\ live' = FALSE
    /\ ended' = TRUE
    /\ UNCHANGED <<held, generation, losses, completed>>

Next == Acquire \/ Hold \/ Release \/ Lose \/ End

Spec == Init /\ [][Next]_vars

=============================================================================
