----------------------------- MODULE LaunchAgent -----------------------------
(***************************************************************************)
(* launch-agent install and launch-agent remove (launchagent.go, main.go)  *)
(* beside the commands of Profile: the property list of the daemon in      *)
(* LaunchAgents and the job that launchd keeps running from it.            *)
(*                                                                         *)
(* A step is one system call or one launchctl; every process may be killed *)
(* between two steps.  launchctl is external: bootout ends the job or      *)
(* fails, bootstrap fails if the job is there, and a login starts the job  *)
(* from the property list.                                                 *)
(***************************************************************************)
EXTENDS Profile

CONSTANT
    Agents           \* each runs one launch-agent install or remove

ASSUME AgentsAssumption == None \notin Agents

VARIABLES
    action,          \* of an agent process: "install" or "remove"
    at,              \* where it is
    staged,          \* agent processes whose temporary property list exists
    plist,           \* who wrote the property list; None if there is none
    job,             \* whose property list the job was started from
    last,            \* history: who began last, ...
    overlapped,      \* ... whether another one was in progress then, and
    kept             \* whether a bootout has failed and left the job since

agentVars == <<action, at, staged, plist, job, last, overlapped, kept>>
allVars == <<vars, agentVars>>

InProgress ==
    {"staging", "renaming", "bootout", "bootstrap", "removing", "unlinking"}

AgentTypeOK ==
    /\ action \in [Agents -> {"install", "remove"}]
    /\ at \in [Agents -> {"idle", "done", "failed"} \cup InProgress]
    /\ staged \subseteq Agents
    /\ {plist, job, last} \subseteq Agents \cup {None}
    /\ overlapped \in BOOLEAN /\ kept \in BOOLEAN

AgentInit ==
    /\ Init
    /\ action \in [Agents -> {"install", "remove"}]
    /\ at = [a \in Agents |-> "idle"]
    /\ staged = {} /\ plist = None /\ job = None
    /\ last = None /\ overlapped = FALSE /\ kept = FALSE

Step(a, from, to) ==
    /\ at[a] = from /\ at' = [at EXCEPT ![a] = to]
    /\ UNCHANGED <<vars, action>>

Continue(a, from, to) == Step(a, from, to) /\ UNCHANGED <<last, overlapped>>

\* The command starts to change things.
Begin(a, to) ==
    /\ Step(a, "idle", to)
    /\ last' = a /\ kept' = FALSE
    /\ overlapped' = \E b \in Agents : at[b] \in InProgress
    /\ UNCHANGED <<staged, plist, job>>

-----------------------------------------------------------------------------
(* InstallLaunchAgent *)

\* LoadConfig has found a valid profile, and the directories are there.
Install(a) ==
    action[a] = "install" /\ profile # Missing /\ Begin(a, "staging")

\* writeAtomic: a temporary file of its own, complete before the rename.
Stage(a) ==
    /\ Continue(a, "staging", "renaming")
    /\ staged' = staged \cup {a}
    /\ UNCHANGED <<plist, job, kept>>

RenamePlist(a) ==
    /\ Continue(a, "renaming", "bootout")
    /\ staged' = staged \ {a} /\ plist' = a
    /\ UNCHANGED <<job, kept>>

\* A failure of LoadConfig, MkdirAll or writeAtomic.
NotWritten(a) ==
    /\ \/ Continue(a, "idle", "failed") /\ action[a] = "install"
       \/ Continue(a, "staging", "failed")
       \/ Continue(a, "renaming", "failed")
    /\ staged' = staged \ {a}
    /\ UNCHANGED <<plist, job, kept>>

\* launchctl bootout; its error is ignored.
Bootout(a, from, to) ==
    /\ Continue(a, from, to)
    /\ \/ job' = None /\ UNCHANGED kept
       \/ job # None /\ UNCHANGED job /\ kept' = TRUE
    /\ UNCHANGED <<staged, plist>>

BootstrapFailsTo(a, result) ==
    /\ Continue(a, "bootstrap", result)
    /\ UNCHANGED <<staged, plist, job, kept>>

\* Mutant: its error is ignored, too.
BootstrapIgnored(a) == BootstrapFailsTo(a, "done")

BootstrapFails(a) == BootstrapFailsTo(a, "failed")

\* launchctl bootstrap
Bootstrap(a) ==
    /\ job = None /\ plist # None
    /\ Continue(a, "bootstrap", "done")
    /\ job' = plist
    /\ UNCHANGED <<staged, plist, kept>>

InstallLaunchAgent(a) ==
    \/ Install(a) \/ Stage(a) \/ RenamePlist(a) \/ NotWritten(a)
    \/ Bootout(a, "bootout", "bootstrap") \/ Bootstrap(a) \/ BootstrapFails(a)

-----------------------------------------------------------------------------
(* RemoveLaunchAgent *)

Remove(a) == action[a] = "remove" /\ Begin(a, "removing")

\* os.Remove; that there is none is no error.
Unlink(a) ==
    /\ \/ Continue(a, "unlinking", "done") /\ plist' = None
       \/ Continue(a, "unlinking", "failed") /\ UNCHANGED plist
    /\ UNCHANGED <<staged, job, kept>>

RemoveLaunchAgent(a) ==
    Remove(a) \/ Bootout(a, "removing", "unlinking") \/ Unlink(a)

-----------------------------------------------------------------------------

\* It ends where it is, without success; its temporary file stays.
KillAgent(a) ==
    /\ at[a] \in InProgress
    /\ Continue(a, at[a], "failed")
    /\ UNCHANGED <<staged, plist, job, kept>>

\* The user logs out, which ends the commands in progress, and in again:
\* launchd starts what it finds.
Login ==
    /\ at' = [a \in Agents |-> IF at[a] \in InProgress THEN "failed" ELSE at[a]]
    /\ job' = plist
    /\ UNCHANGED <<vars, action, staged, plist, last, overlapped, kept>>

AgentNext ==
    \/ Next /\ UNCHANGED agentVars
    \/ \E a \in Agents :
           InstallLaunchAgent(a) \/ RemoveLaunchAgent(a) \/ KillAgent(a)
    \/ Login

AgentSpec == AgentInit /\ [][AgentNext]_allVars

-----------------------------------------------------------------------------
(* Properties *)

\* launchagent.go:73-104: the last command to begin, if it had launchd to
\* itself and reports success, has had its effect for good.  After an install
\* its own property list is in place, the job runs from it, and a login does
\* not change that.  After a remove there is no property list, and no job
\* unless its bootout failed, which it does not report; the next login ends
\* even that one.
AgentAsCommanded ==
    \A a \in Agents : a = last /\ at[a] = "done" /\ ~overlapped =>
        IF action[a] = "install" THEN plist = a /\ job = a
        ELSE plist = None /\ (job = None \/ kept)

\* launchagent.go:89-91: bootout before bootstrap stops the running daemon
\* before its successor is there.  A property list without a job, so without
\* a daemon until the next login, is never left by commands that all report
\* success, however they overlap.
StopIsReported ==
    plist # None /\ job = None =>
        \E a \in Agents : at[a] \in InProgress \cup {"failed"}

\* What the last command to begin has achieved so far, if nobody overlaps it.
Alone == ~overlapped => \A a \in Agents : at[a] \in InProgress => a = last

Achieved(a) ==
    /\ at[a] \in {"staging", "renaming", "bootout", "bootstrap"} =>
           action[a] = "install"
    /\ at[a] \in {"removing", "unlinking"} => action[a] = "remove"
    /\ a = last /\ ~overlapped =>
           /\ at[a] \in {"bootout", "bootstrap"} => plist = a
           /\ at[a] = "unlinking" => job = None \/ kept

\* The inductive invariant behind the two properties.
AgentIInv ==
    /\ AgentTypeOK /\ Alone /\ \A a \in Agents : Achieved(a)
    /\ AgentAsCommanded /\ StopIsReported

=============================================================================
