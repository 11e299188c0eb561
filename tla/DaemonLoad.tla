----------------------------- MODULE DaemonLoad -----------------------------
(***************************************************************************)
(* The daemon under load: clients never stop coming.  In Daemon each       *)
(* connection carries one request; here the next client takes the place of *)
(* one that was answered, so that operationMu may be wanted by someone     *)
(* else for ever, and only its fairness lets a waiting goroutine get it.   *)
(***************************************************************************)
EXTENDS Daemon

CONSTANT MaxCounted   \* bound: installs and uninstalls that succeed

ASSUME MaxCountedAssumption == MaxCounted \in Nat

\* The accept loop goes on after a connection was handled.
NextClient(c) ==
    /\ serve = "listening"
    /\ HandlerStep(c, "done", "idle")
    /\ command' = [command EXCEPT ![c] = "status"]
    /\ using' = [using EXCEPT ![c] = Nil]
    /\ result' = [result EXCEPT ![c] = NoResult]
    /\ UNCHANGED <<status, appCounts, operationMu, cancelled>>

\* At the bound an app operation still runs, but fails.
WithinBound == installCount' <= MaxCounted /\ uninstallCount' <= MaxCounted

LoadNext == \/ Next /\ WithinBound
            \/ \E c \in Connections : NextClient(c)

LoadSpec == Init /\ [][LoadNext]_vars /\ Fairness

=============================================================================
